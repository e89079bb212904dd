--------------------------- MODULE DeliveryProofs ---------------------------
(***************************************************************************)
(* Theorems about Delivery.tla: an effect is committed once, a consumer    *)
(* that lost its lease writes nothing after its successor, the gauges      *)
(* foretell the pump, and the whole of it keeps the promise of Mailbox.    *)
(***************************************************************************)
EXTENDS Delivery, FiniteSetTheorems, TLAPS

\* The message's enqueueing transaction has committed.
Accepted(m) == m \in Messages /\ msg[m].status # "none"

\* Whatever refers to a message refers to one that was enqueued.
OnlyAccepted ==
  /\ \A m \in Messages : (Dead(m) \/ hints[m] > 0) => Accepted(m)
  /\ \A p \in Pumps : pump[p].pc \in {"claimed", "sent"} => Accepted(pump[p].message)
  /\ \A w \in Workers : worker[w].pc # "idle" => Accepted(worker[w].message)

\* The consumer whose lease still counts is at a message nobody has acknowledged.
AtWorkUndone ==
  \A w \in Workers : worker[w].pc = "running" /\ Current(w) => worker[w].message \notin inbox

\* No commit was fenced by an epoch the lease has not reached.
EpochsReached == \A k \in Keys : written[k] <= lease[k].epoch

DeliveryInv == OnlyAccepted /\ AtWorkUndone /\ EpochsReached /\ EffectOnce

-----------------------------------------------------------------------------
(* Types. *)

\* The blank rows and idle processes have their types.
LEMMA BlankRows ==
  /\ NoMsg \in MsgRow /\ NoLease \in LeaseRow
  /\ IdlePump \in PumpState /\ IdleWorker \in WorkerState
BY DEF NoMsg, NoLease, IdlePump, IdleWorker, MsgRow, LeaseRow, PumpState, WorkerState

\* The changes the transactions make to an outbox row keep its type.
LEMMA MsgRowEdits ==
  ASSUME NEW r \in MsgRow
  PROVE  /\ [r EXCEPT !.status = "pending", !.avail = TRUE] \in MsgRow
         /\ [r EXCEPT !.live = FALSE] \in MsgRow
         /\ [r EXCEPT !.avail = TRUE, !.due = TRUE, !.aged = TRUE] \in MsgRow
         /\ [r EXCEPT !.status = "pending", !.attempts = 0, !.avail = TRUE, !.owner = Nobody,
                      !.live = FALSE] \in MsgRow
         /\ \A due \in BOOLEAN :
              [r EXCEPT !.status = "pending", !.avail = due, !.due = due] \in MsgRow
         /\ \A p \in Pumps :
              [r EXCEPT !.status = "delivering", !.owner = p, !.live = TRUE,
                        !.attempts = r.attempts + 1] \in MsgRow
         /\ \A s \in {"pending", "published"} :
              [r EXCEPT !.status = s, !.owner = Nobody, !.live = FALSE, !.avail = FALSE,
                        !.aged = FALSE] \in MsgRow
<1>1. [r EXCEPT !.status = "pending", !.avail = TRUE] \in MsgRow
  BY DEF MsgRow
<1>2. [r EXCEPT !.live = FALSE] \in MsgRow
  BY DEF MsgRow
<1>3. [r EXCEPT !.avail = TRUE, !.due = TRUE, !.aged = TRUE] \in MsgRow
  BY DEF MsgRow
<1>4. [r EXCEPT !.status = "pending", !.attempts = 0, !.avail = TRUE, !.owner = Nobody,
                !.live = FALSE] \in MsgRow
  BY DEF MsgRow
<1>5. ASSUME NEW due \in BOOLEAN
      PROVE  [r EXCEPT !.status = "pending", !.avail = due, !.due = due] \in MsgRow
  BY DEF MsgRow
<1>6. ASSUME NEW p \in Pumps
      PROVE  [r EXCEPT !.status = "delivering", !.owner = p, !.live = TRUE,
                       !.attempts = r.attempts + 1] \in MsgRow
  <2> DEFINE n == r.attempts + 1
  <2>1. n \in Nat
    BY DEF MsgRow
  <2> HIDE DEF n
  <2>2. [r EXCEPT !.status = "delivering", !.owner = p, !.live = TRUE, !.attempts = n] \in MsgRow
    BY <2>1 DEF MsgRow
  <2> QED
    BY <2>2 DEF n
<1>7. ASSUME NEW s \in {"pending", "published"}
      PROVE  [r EXCEPT !.status = s, !.owner = Nobody, !.live = FALSE, !.avail = FALSE,
                       !.aged = FALSE] \in MsgRow
  BY DEF MsgRow
<1> QED
  BY <1>1, <1>2, <1>3, <1>4, <1>5, <1>6, <1>7

\* A round that starts and a publication keep the type of a pump.
LEMMA PumpEdits ==
  ASSUME NEW r \in PumpState
  PROVE  /\ [r EXCEPT !.pc = "looping", !.left = PumpLimit] \in PumpState
         /\ \A error \in BOOLEAN : [r EXCEPT !.pc = "sent", !.error = error] \in PumpState
<1>1. [r EXCEPT !.pc = "looping", !.left = PumpLimit] \in PumpState
  BY DeliveryAssumption DEF PumpState
<1>2. ASSUME NEW error \in BOOLEAN
      PROVE  [r EXCEPT !.pc = "sent", !.error = error] \in PumpState
  BY DEF PumpState
<1> QED
  BY <1>1, <1>2

LEMMA InitType == Init => DeliveryTypeOK
BY BlankRows DEF Init, DeliveryTypeOK

\* What a pump does keeps every type.
LEMMA PumpType ==
  ASSUME DeliveryTypeOK, NEW p \in Pumps, PumpStep(p) \/ PumpDies(p)
  PROVE  DeliveryTypeOK'
<1> USE DeliveryAssumption DEF DeliveryTypeOK
<1>1. ASSUME Reconcile(p) PROVE DeliveryTypeOK'
  <2>1. \A m \in Messages : [msg[m] EXCEPT !.status = "pending", !.avail = TRUE] \in MsgRow
    BY MsgRowEdits
  <2>2. msg' \in [Messages -> MsgRow] /\ dead' \in [Messages -> {"none", "dead", "replayed"}]
    BY <1>1, <2>1 DEF Reconcile
  <2>3. [pump[p] EXCEPT !.pc = "looping", !.left = PumpLimit] \in PumpState
    BY PumpEdits
  <2>4. pump' \in [Pumps -> PumpState]
    BY <1>1, <2>3 DEF Reconcile
  <2> QED
    BY <1>1, <2>2, <2>4 DEF Reconcile
<1>2. ASSUME RoundEnds(p) \/ PumpDies(p) PROVE DeliveryTypeOK'
  BY <1>2, BlankRows DEF RoundEnds, PumpDies
<1>3. ASSUME FinishDelivery(p) PROVE DeliveryTypeOK'
  <2> DEFINE m == pump[p].message
  <2>1. [IdlePump EXCEPT !.pc = "looping", !.left = pump[p].left] \in PumpState
    BY DEF PumpState, IdlePump
  <2>2. pump' \in [Pumps -> PumpState]
    BY <1>3, <2>1 DEF FinishDelivery
  <2>3. \A s \in {"pending", "published"} : m \in Messages =>
          [msg[m] EXCEPT !.status = s, !.owner = Nobody, !.live = FALSE, !.avail = FALSE,
                         !.aged = FALSE] \in MsgRow
    BY MsgRowEdits
  <2>4. msg' \in [Messages -> MsgRow]
    <3>1. m \in Messages => msg[m] \in MsgRow
      OBVIOUS
    <3>2. CASE Owns(p) /\ pump[p].error
      BY ZenonT(40), <1>3, <2>3, <3>2 DEF FinishDelivery
    <3>3. CASE Owns(p) /\ ~pump[p].error
      BY ZenonT(40), <1>3, <2>3, <3>3 DEF FinishDelivery
    <3>4. CASE ~Owns(p)
      BY <1>3, <3>4 DEF FinishDelivery
    <3> QED
      BY <3>2, <3>3, <3>4
  <2>5. dead' \in [Messages -> {"none", "dead", "replayed"}]
    BY <1>3 DEF FinishDelivery
  <2> QED
    BY <1>3, <2>2, <2>4, <2>5 DEF FinishDelivery
<1>4. ASSUME NEW m \in Messages, ClaimDelivery(p, m) PROVE DeliveryTypeOK'
  <2>1. [msg[m] EXCEPT !.status = "delivering", !.owner = p, !.live = TRUE, !.attempts = @ + 1]
          \in MsgRow
    BY MsgRowEdits
  <2>2. [pc |-> "claimed", message |-> m, attempts |-> msg[m].attempts + 1, error |-> FALSE,
         left |-> pump[p].left - 1] \in PumpState
    BY <1>4 DEF ClaimDelivery, MsgRow, PumpState
  <2> QED
    BY <1>4, <2>1, <2>2 DEF ClaimDelivery
<1>5. ASSUME NEW sent \in BOOLEAN, NEW error \in BOOLEAN, Publish(p, sent, error)
      PROVE  DeliveryTypeOK'
  <2>1. [pump[p] EXCEPT !.pc = "sent", !.error = error] \in PumpState
    BY PumpEdits
  <2>2. pump' \in [Pumps -> PumpState]
    BY <1>5, <2>1 DEF Publish
  <2>3. hints' = hints \/ hints' = [hints EXCEPT ![pump[p].message] = hints[pump[p].message] + 1]
    BY <1>5 DEF Publish
  <2>4. hints' \in [Messages -> Nat]
    BY <2>3
  <2> QED
    BY <1>5, <2>2, <2>4 DEF Publish
<1> QED
  BY <1>1, <1>2, <1>3, <1>4, <1>5 DEF PumpStep

\* What a consumer does keeps every type.
LEMMA WorkerType ==
  ASSUME DeliveryTypeOK, OnlyAccepted, NEW w \in Workers,
         \/ WorkerStep(w) \/ Progress(w)
         \/ \E m \in Messages : Look(w, m)
         \/ \E again \in BOOLEAN : WorkerDies(w, again)
  PROVE  DeliveryTypeOK'
<1> USE DeliveryAssumption DEF DeliveryTypeOK
<1>1. worker[w].pc # "idle" =>
        /\ worker[w].message \in Messages /\ KeyOf[worker[w].message] \in Keys
        /\ worker[w].epoch \in Nat
  BY DEF OnlyAccepted, Accepted, WorkerState
<1>2. [worker[w] EXCEPT !.pc = "leaving"] \in WorkerState
  BY DEF WorkerState
<1>3. ASSUME NEW m \in Messages, Look(w, m) PROVE DeliveryTypeOK'
  BY <1>3 DEF Look, WorkerState
<1>4. ASSUME TakeLease(w) PROVE DeliveryTypeOK'
  <2> DEFINE m == worker[w].message
             k == KeyOf[m]
             row == [message |-> m, owner |-> w, epoch |-> lease[k].epoch + 1,
                     live |-> ~AlreadyDone(m)]
             next == IF AlreadyDone(m) THEN IdleWorker
                     ELSE [pc |-> "running", message |-> m, epoch |-> lease[k].epoch + 1]
  <2>1. m \in Messages /\ k \in Keys /\ lease[k].epoch \in Nat
    BY <1>1, <1>4 DEF TakeLease, LeaseRow
  <2>2. row \in LeaseRow
    BY <2>1 DEF LeaseRow, AlreadyDone
  <2>3. next \in WorkerState
    BY <2>1, BlankRows DEF WorkerState
  <2>4. \/ worker' = [worker EXCEPT ![w] = IdleWorker] /\ lease' = lease
        \/ lease' = [lease EXCEPT ![k] = row] /\ worker' = [worker EXCEPT ![w] = next]
    BY <1>4 DEF TakeLease
  <2> HIDE DEF row, next
  <2>5. lease' \in [Keys -> LeaseRow] /\ worker' \in [Workers -> WorkerState]
    BY <2>2, <2>3, <2>4, BlankRows
  <2> QED
    BY <1>4, <2>5 DEF TakeLease
<1>5. ASSUME Commit(w) PROVE DeliveryTypeOK'
  <2>1. worker' \in [Workers -> WorkerState] /\ inbox' \subseteq Messages
    BY <1>1, <1>2, <1>5 DEF Commit, Leaving
  <2>2. effects' \in [Messages -> Nat] /\ written' \in [Keys -> Nat]
    BY <1>1, <1>5 DEF Commit
  <2> QED
    BY <1>5, <2>1, <2>2 DEF Commit
<1>6. ASSUME Progress(w) PROVE DeliveryTypeOK'
  BY <1>1, <1>6 DEF Progress
<1>7. ASSUME Abandon(w) PROVE DeliveryTypeOK'
  BY <1>2, <1>7 DEF Abandon, Leaving
<1>8. ASSUME Release(w) PROVE DeliveryTypeOK'
  <2>1. \A k \in Keys : [lease[k] EXCEPT !.live = FALSE] \in LeaseRow
    BY DEF LeaseRow
  <2>2. lease' \in [Keys -> LeaseRow]
    BY <1>1, <1>8, <2>1 DEF Release
  <2> QED
    BY <1>8, <2>2, BlankRows DEF Release
<1>9. ASSUME NEW again \in BOOLEAN, WorkerDies(w, again) PROVE DeliveryTypeOK'
  <2>1. worker' \in [Workers -> WorkerState]
    BY <1>9, BlankRows DEF WorkerDies
  <2>2. hints' = hints \/ hints' = [hints EXCEPT ![worker[w].message] = hints[worker[w].message] + 1]
    BY <1>9 DEF WorkerDies
  <2>3. hints' \in [Messages -> Nat]
    BY <2>2
  <2> QED
    BY <1>9, <2>1, <2>3 DEF WorkerDies
<1> QED
  BY <1>3, <1>4, <1>5, <1>6, <1>7, <1>8, <1>9 DEF WorkerStep

\* Callers, clocks, operators and the broker keep every type.
LEMMA SurroundingsType ==
  ASSUME DeliveryTypeOK, NEW m \in Messages,
         \/ \E due \in BOOLEAN : Enqueue(m, due)
         \/ Replay(m) \/ PumpLeaseEnds(m) \/ TimePasses(m) \/ HintLost(m)
  PROVE  DeliveryTypeOK'
<1> USE DeliveryAssumption DEF DeliveryTypeOK
<1>1. ASSUME NEW due \in BOOLEAN, Enqueue(m, due) PROVE DeliveryTypeOK'
  <2>1. [msg[m] EXCEPT !.status = "pending", !.avail = due, !.due = due] \in MsgRow
    BY MsgRowEdits
  <2> QED
    BY <1>1, <2>1 DEF Enqueue
<1>2. ASSUME Replay(m) PROVE DeliveryTypeOK'
  <2>1. [msg[m] EXCEPT !.status = "pending", !.attempts = 0, !.avail = TRUE, !.owner = Nobody,
                       !.live = FALSE] \in MsgRow
    BY MsgRowEdits
  <2> QED
    BY <1>2, <2>1 DEF Replay, KeptMarkers
<1>3. ASSUME PumpLeaseEnds(m) PROVE DeliveryTypeOK'
  <2>1. [msg[m] EXCEPT !.live = FALSE] \in MsgRow
    BY MsgRowEdits
  <2> QED
    BY <1>3, <2>1 DEF PumpLeaseEnds
<1>4. ASSUME TimePasses(m) PROVE DeliveryTypeOK'
  <2>1. [msg[m] EXCEPT !.avail = TRUE, !.due = TRUE, !.aged = TRUE] \in MsgRow
    BY MsgRowEdits
  <2> QED
    BY <1>4, <2>1 DEF TimePasses
<1>5. ASSUME HintLost(m) PROVE DeliveryTypeOK'
  BY <1>5 DEF HintLost
<1> QED
  BY <1>1, <1>2, <1>3, <1>4, <1>5

LEMMA LeaseEndsType ==
  ASSUME DeliveryTypeOK, NEW k \in Keys, LeaseEnds(k)
  PROVE  DeliveryTypeOK'
<1>1. [lease[k] EXCEPT !.live = FALSE] \in LeaseRow
  BY DEF DeliveryTypeOK, LeaseRow
<1> QED
  BY <1>1 DEF LeaseEnds, DeliveryTypeOK

-----------------------------------------------------------------------------
(* The invariant. *)

\* Nothing un-enqueues a message.
LEMMA AcceptedStays ==
  ASSUME DeliveryTypeOK, Next
  PROVE  \A m : Accepted(m) => Accepted(m)'
<1>1. msg \in [Messages -> MsgRow]
  BY DEF DeliveryTypeOK
<1>2. ASSUME msg' = msg PROVE \A m : Accepted(m) => Accepted(m)'
  BY <1>2 DEF Accepted
<1>3. ASSUME NEW m \in Messages, NEW due \in BOOLEAN, Enqueue(m, due)
      PROVE  \A n : Accepted(n) => Accepted(n)'
  BY <1>1, <1>3 DEF Accepted, Enqueue
<1>4. ASSUME NEW p \in Pumps, NEW m \in Messages, ClaimDelivery(p, m)
      PROVE  \A n : Accepted(n) => Accepted(n)'
  BY <1>1, <1>4 DEF Accepted, ClaimDelivery
<1>5. ASSUME NEW p \in Pumps, FinishDelivery(p)
      PROVE  \A n : Accepted(n) => Accepted(n)'
  <2>1. CASE Owns(p)
    <3>1. \A m \in Messages : msg'[m] = msg[m] \/ msg'[m].status \in {"pending", "published"}
      BY <1>1, <1>5, <2>1 DEF FinishDelivery, MsgRow
    <3> QED
      BY <3>1 DEF Accepted
  <2>2. CASE ~Owns(p)
    BY <1>2, <1>5, <2>2 DEF FinishDelivery
  <2> QED
    BY <2>1, <2>2
<1>6. ASSUME NEW p \in Pumps, Reconcile(p)
      PROVE  \A n : Accepted(n) => Accepted(n)'
  <2>1. \A m \in Messages : [msg[m] EXCEPT !.status = "pending", !.avail = TRUE].status = "pending"
    BY <1>1 DEF MsgRow
  <2> QED
    BY <1>1, <1>6, <2>1 DEF Accepted, Reconcile
<1>7. ASSUME NEW m \in Messages, Replay(m) \/ PumpLeaseEnds(m) \/ TimePasses(m)
      PROVE  \A n : Accepted(n) => Accepted(n)'
  <2>1. CASE Replay(m)
    BY <1>1, <2>1 DEF Accepted, Replay
  <2>2. CASE PumpLeaseEnds(m)
    BY <1>1, <2>2 DEF Accepted, PumpLeaseEnds, MsgRow
  <2>3. CASE TimePasses(m)
    BY <1>1, <2>3 DEF Accepted, TimePasses, MsgRow
  <2> QED
    BY <1>7, <2>1, <2>2, <2>3
<1>8. \/ msg' = msg
      \/ \E m \in Messages, due \in BOOLEAN : Enqueue(m, due)
      \/ \E p \in Pumps : \/ FinishDelivery(p) \/ Reconcile(p)
                          \/ \E m \in Messages : ClaimDelivery(p, m)
      \/ \E m \in Messages : Replay(m) \/ PumpLeaseEnds(m) \/ TimePasses(m)
  BY Zenon DEF Next, PumpStep, WorkerStep, RoundEnds, Publish, PumpDies, HintLost, Look, TakeLease,
     Commit, Abandon, Release, Progress, WorkerDies, LeaseEnds
<1> QED
  BY <1>2, <1>3, <1>4, <1>5, <1>6, <1>7, <1>8, Zenon

\* A dead letter, a hint, a claim and a consumer come from a message that is there.
LEMMA AcceptedStep ==
  ASSUME DeliveryTypeOK, OnlyAccepted, Next
  PROVE  OnlyAccepted'
<1> USE DEF DeliveryTypeOK
<1>1. /\ \A m \in Messages : Dead(m) \/ hints[m] > 0 => Accepted(m)'
      /\ \A p \in Pumps : pump[p].pc \in {"claimed", "sent"} =>
           \E m : m = pump[p].message /\ Accepted(m)'
      /\ \A w \in Workers : worker[w].pc # "idle" =>
           \E m : m = worker[w].message /\ Accepted(m)'
  <2>1. \A m : Accepted(m) => Accepted(m)'
    BY AcceptedStays
  <2> QED
    BY <2>1, Zenon DEF OnlyAccepted
<1>2. ASSUME NEW p \in Pumps, Reconcile(p) PROVE OnlyAccepted'
  <2>1. \A m \in Messages : Dead(m)' => Accepted(m) \/ Dead(m)
    BY <1>2 DEF Reconcile, Dead, GivenUp, Exhausted, Unpublished, Unacknowledged, Accepted
  <2>2. \A m \in Messages : Dead(m)' => Accepted(m)'
    BY <1>1, <2>1, AcceptedStays
  <2>3. \A q \in Pumps : pump'[q].pc \in {"claimed", "sent"} => pump'[q] = pump[q]
    BY <1>2 DEF Reconcile, PumpState
  <2>4. hints' = hints /\ worker' = worker
    BY <1>2 DEF Reconcile
  <2> QED
    BY <1>1, <2>2, <2>3, <2>4 DEF OnlyAccepted, Accepted
<1>3. ASSUME NEW p \in Pumps, RoundEnds(p) \/ PumpDies(p) PROVE OnlyAccepted'
  <2>1. \A q \in Pumps : pump'[q].pc \in {"claimed", "sent"} => pump'[q] = pump[q]
    BY <1>3 DEF RoundEnds, PumpDies, IdlePump
  <2> QED
    BY <1>1, <1>3, <2>1 DEF OnlyAccepted, Accepted, RoundEnds, PumpDies, Dead
<1>4. ASSUME NEW p \in Pumps, FinishDelivery(p) PROVE OnlyAccepted'
  <2>1. \A q \in Pumps : pump'[q].pc \in {"claimed", "sent"} => pump'[q] = pump[q]
    BY <1>4 DEF FinishDelivery, IdlePump
  <2>2. \A m \in Messages : Dead(m)' => Dead(m) \/ m = pump[p].message
    BY <1>4 DEF FinishDelivery, Dead
  <2>3. pump[p].pc = "sent"
    BY <1>4 DEF FinishDelivery
  <2>4. hints' = hints /\ worker' = worker
    BY <1>4 DEF FinishDelivery
  <2> QED
    BY <1>1, <1>4, <2>1, <2>2, <2>3, <2>4 DEF OnlyAccepted, Accepted
<1>5. ASSUME NEW p \in Pumps, NEW m \in Messages, ClaimDelivery(p, m) PROVE OnlyAccepted'
  <2>1. Accepted(m)
    BY <1>5 DEF ClaimDelivery, Claimable, Unpublished, Accepted
  <2>2. \A q \in Pumps : pump'[q] = pump[q] \/ pump'[q].message = m
    BY <1>5 DEF ClaimDelivery
  <2> QED
    BY <1>1, <1>5, <2>1, <2>2, AcceptedStays DEF OnlyAccepted, Accepted, ClaimDelivery, Dead
<1>6. ASSUME NEW p \in Pumps, NEW sent \in BOOLEAN, NEW error \in BOOLEAN, Publish(p, sent, error)
      PROVE  OnlyAccepted'
  <2>1. \A q \in Pumps : pump'[q].message = pump[q].message
    BY <1>6 DEF Publish, PumpState
  <2>2. \A q \in Pumps : pump'[q].pc \in {"claimed", "sent"} => pump[q].pc \in {"claimed", "sent"}
    BY <1>6 DEF Publish, PumpState
  <2>3. \A m \in Messages : hints'[m] > 0 => hints[m] > 0 \/ m = pump[p].message
    BY <1>6 DEF Publish
  <2>4. pump[p].pc = "claimed"
    BY <1>6 DEF Publish
  <2> QED
    BY <1>1, <1>6, <2>1, <2>2, <2>3, <2>4 DEF OnlyAccepted, Accepted, Publish, Dead
<1>7. ASSUME NEW m \in Messages, NEW due \in BOOLEAN, Enqueue(m, due) PROVE OnlyAccepted'
  BY <1>1, <1>7 DEF OnlyAccepted, Accepted, Enqueue, Dead
<1>8. ASSUME NEW m \in Messages, Replay(m) \/ PumpLeaseEnds(m) \/ TimePasses(m)
      PROVE  OnlyAccepted'
  <2>1. \A n \in Messages : Dead(n)' => Dead(n)
    BY <1>8 DEF Replay, PumpLeaseEnds, TimePasses, Dead
  <2> QED
    BY <1>1, <1>8, <2>1 DEF OnlyAccepted, Accepted, Replay, PumpLeaseEnds, TimePasses
<1>9. ASSUME NEW m \in Messages, HintLost(m) PROVE OnlyAccepted'
  <2>1. \A n \in Messages : hints'[n] > 0 => hints[n] > 0
    BY <1>9 DEF HintLost
  <2> QED
    BY <1>1, <1>9, <2>1 DEF OnlyAccepted, Accepted, HintLost, Dead
<1>10. ASSUME NEW w \in Workers, NEW m \in Messages, Look(w, m) PROVE OnlyAccepted'
  <2>1. \A n \in Messages : hints'[n] > 0 => hints[n] > 0
    BY <1>10 DEF Look
  <2>2. \A v \in Workers : worker'[v] = worker[v] \/ worker'[v].message = m
    BY <1>10 DEF Look
  <2>3. hints[m] > 0
    BY <1>10 DEF Look
  <2> QED
    BY <1>1, <1>10, <2>1, <2>2, <2>3 DEF OnlyAccepted, Accepted, Look, Dead
<1>11. ASSUME NEW w \in Workers, WorkerStep(w) PROVE OnlyAccepted'
  <2>1. \A v \in Workers : worker'[v].pc # "idle" =>
          worker[v].pc # "idle" /\ worker'[v].message = worker[v].message
    BY <1>11 DEF WorkerStep, TakeLease, Commit, Abandon, Release, Leaving, IdleWorker, WorkerState
  <2>2. UNCHANGED <<msg, dead, hints, pump>>
    BY <1>11 DEF WorkerStep, TakeLease, Commit, Abandon, Release
  <2> QED
    BY <1>1, <2>1, <2>2 DEF OnlyAccepted, Accepted, Dead
<1>12. ASSUME NEW w \in Workers, NEW again \in BOOLEAN, WorkerDies(w, again) PROVE OnlyAccepted'
  <2>1. \A v \in Workers : worker'[v].pc # "idle" => worker'[v] = worker[v]
    BY <1>12 DEF WorkerDies, IdleWorker
  <2>2. \A m \in Messages : hints'[m] > 0 => hints[m] > 0 \/ m = worker[w].message
    BY <1>12 DEF WorkerDies
  <2>3. worker[w].pc # "idle"
    BY <1>12 DEF WorkerDies
  <2> QED
    BY <1>1, <1>12, <2>1, <2>2, <2>3 DEF OnlyAccepted, Accepted, WorkerDies, Dead
<1>13. ASSUME UNCHANGED <<msg, dead, hints, pump, worker>> PROVE OnlyAccepted'
  BY <1>13 DEF OnlyAccepted, Accepted, Dead
<1>14. \A w \in Workers : Progress(w) => UNCHANGED <<msg, dead, hints, pump, worker>>
  BY DEF Progress
<1>15. \A k \in Keys : LeaseEnds(k) => UNCHANGED <<msg, dead, hints, pump, worker>>
  BY DEF LeaseEnds
<1> QED
  BY <1>2, <1>3, <1>4, <1>5, <1>6, <1>7, <1>8, <1>9, <1>10, <1>11, <1>12, <1>13, <1>14, <1>15, Zenon
  DEF Next, PumpStep

\* A message is acknowledged by the one consumer whose lease counts, and a lease is
\* taken only for a message that is not.
LEMMA UndoneStep ==
  ASSUME DeliveryTypeOK, OnlyAccepted, AtWorkUndone, Next
  PROVE  AtWorkUndone'
<1> USE DEF DeliveryTypeOK
<1>1. ASSUME inbox' = inbox,
             \A w \in Workers : worker'[w].pc = "running" /\ Current(w)' =>
               worker'[w] = worker[w] /\ Current(w)
      PROVE  AtWorkUndone'
  BY <1>1 DEF AtWorkUndone
<1>2. ASSUME lease' = lease, inbox' = inbox,
             \A w \in Workers : worker'[w].pc = "running" => worker'[w] = worker[w]
      PROVE  AtWorkUndone'
  BY <1>1, <1>2 DEF Current
<1>3. ASSUME NEW w \in Workers, TakeLease(w) PROVE AtWorkUndone'
  <2> DEFINE m == worker[w].message
             k == KeyOf[m]
  <2>1. CASE lease[k].live
    BY <1>2, <1>3, <2>1 DEF TakeLease, IdleWorker
  <2>2. CASE ~lease[k].live
    <3>1. lease' = [lease EXCEPT ![k] = [message |-> m, owner |-> w, epoch |-> lease[k].epoch + 1,
                                         live |-> ~AlreadyDone(m)]]
      BY <1>3, <2>2 DEF TakeLease
    <3>2. \A v \in Workers \ {w} : worker'[v] = worker[v]
      BY <1>3 DEF TakeLease
    <3>3. \A j \in Keys : lease'[j] = lease[j] \/ lease'[j].owner = w
      BY <3>1
    <3>4. ASSUME NEW v \in Workers \ {w}, worker'[v].pc = "running", Current(v)'
          PROVE  worker'[v].message \notin inbox'
      BY <1>3, <3>1, <3>2, <3>4 DEF AtWorkUndone, Current, TakeLease
    <3>5. worker'[w].pc = "running" => worker'[w].message \notin inbox'
      BY <1>3, <2>2 DEF TakeLease, AlreadyDone, IdleWorker
    <3> QED
      BY <3>4, <3>5 DEF AtWorkUndone
  <2> QED
    BY <2>1, <2>2
<1>4. ASSUME NEW w \in Workers, Commit(w) PROVE AtWorkUndone'
  <2>1. ASSUME NEW v \in Workers, worker'[v].pc = "running", Current(v)'
        PROVE  worker'[v].message \notin inbox'
    <3>1. v # w /\ worker'[v] = worker[v]
      BY <1>4, <2>1 DEF Commit, Leaving, WorkerState
    <3>2. Current(v) /\ Current(w)
      BY <1>4, <2>1, <3>1 DEF Commit, Current
    <3>3. worker[v].message # worker[w].message
      BY <3>1, <3>2 DEF Current
    <3> QED
      BY <1>4, <2>1, <3>1, <3>2, <3>3 DEF Commit, AtWorkUndone
  <2> QED
    BY <2>1 DEF AtWorkUndone
<1>5. ASSUME NEW w \in Workers, Abandon(w) PROVE AtWorkUndone'
  <2>1. \A v \in Workers : worker'[v].pc = "running" => worker'[v] = worker[v]
    BY <1>5 DEF Abandon, Leaving, WorkerState
  <2> QED
    BY <1>2, <1>5, <2>1 DEF Abandon
<1>6. ASSUME NEW w \in Workers, Release(w) PROVE AtWorkUndone'
  <2>1. \A j \in Keys : lease'[j] = lease[j] \/ lease'[j].live = FALSE
    BY <1>6 DEF Release, LeaseRow
  <2>2. \A v \in Workers : worker'[v].pc = "running" => worker'[v] = worker[v]
    BY <1>6 DEF Release, IdleWorker
  <2>3. \A v \in Workers : worker'[v].pc = "running" /\ Current(v)' => Current(v)
    <3> SUFFICES ASSUME NEW v \in Workers, worker'[v].pc = "running", Current(v)' PROVE Current(v)
      OBVIOUS
    <3>1. worker'[v] = worker[v] /\ worker[v].message \in Messages
      BY <2>2 DEF OnlyAccepted, Accepted
    <3>2. KeyOf[worker[v].message] \in Keys
      BY <3>1, DeliveryAssumption
    <3>3. lease'[KeyOf[worker[v].message]].live
      BY <3>1 DEF Current
    <3>4. lease'[KeyOf[worker[v].message]] = lease[KeyOf[worker[v].message]]
      BY <2>1, <3>2, <3>3
    <3> QED
      BY <3>1, <3>4 DEF Current
  <2> QED
    BY <1>1, <1>6, <2>2, <2>3 DEF Release
<1>7. ASSUME NEW k \in Keys, LeaseEnds(k) PROVE AtWorkUndone'
  <2>1. \A j : lease'[j] = lease[j] \/ (j = k /\ lease'[j].live = FALSE)
    BY <1>7 DEF LeaseEnds, LeaseRow
  <2>2. \A v \in Workers : worker'[v].pc = "running" /\ Current(v)' => Current(v)
    BY <1>7, <2>1 DEF Current, LeaseEnds
  <2> QED
    BY <1>1, <1>7, <2>2 DEF LeaseEnds
<1>8. ASSUME NEW w \in Workers, NEW m \in Messages, Look(w, m) PROVE AtWorkUndone'
  <2>1. \A v \in Workers : worker'[v].pc = "running" => worker'[v] = worker[v]
    BY <1>8 DEF Look
  <2> QED
    BY <1>2, <1>8, <2>1 DEF Look
<1>9. ASSUME NEW w \in Workers, NEW again \in BOOLEAN, WorkerDies(w, again) PROVE AtWorkUndone'
  <2>1. \A v \in Workers : worker'[v].pc = "running" => worker'[v] = worker[v]
    BY <1>9 DEF WorkerDies, IdleWorker
  <2> QED
    BY <1>2, <1>9, <2>1 DEF WorkerDies
<1>10. ASSUME UNCHANGED <<inbox, lease, worker>> PROVE AtWorkUndone'
  BY <1>2, <1>10
<1>11. \/ UNCHANGED <<inbox, lease, worker>>
       \/ \E w \in Workers : \/ TakeLease(w) \/ Commit(w) \/ Abandon(w) \/ Release(w)
                             \/ \E m \in Messages : Look(w, m)
                             \/ \E again \in BOOLEAN : WorkerDies(w, again)
       \/ \E k \in Keys : LeaseEnds(k)
  BY ZenonT(40) DEF Next, PumpStep, WorkerStep, Enqueue, ClaimDelivery, RoundEnds, Publish, FinishDelivery,
     Reconcile, Replay, KeptMarkers, Progress, PumpLeaseEnds, TimePasses, PumpDies, HintLost
<1> QED
  BY <1>3, <1>4, <1>5, <1>6, <1>7, <1>8, <1>9, <1>10, <1>11, Zenon

\* The epoch of a lease only grows, and a commit carries the epoch of its lease.
LEMMA EpochStep ==
  ASSUME DeliveryTypeOK, OnlyAccepted, EpochsReached, Next
  PROVE  EpochsReached' /\ \A k \in Keys : written'[k] >= written[k]
<1> USE DEF DeliveryTypeOK
<1>1. \A k \in Keys : lease[k].epoch \in Nat /\ written[k] \in Nat
  BY DEF LeaseRow
<1>2. CASE UNCHANGED <<written, lease>>
  BY <1>1, <1>2 DEF EpochsReached
<1>3. ASSUME NEW w \in Workers, TakeLease(w)
      PROVE  EpochsReached' /\ \A k \in Keys : written'[k] >= written[k]
  <2>1. \A k \in Keys : lease'[k] = lease[k] \/ lease'[k].epoch = lease[k].epoch + 1
    BY <1>3 DEF TakeLease
  <2>2. written' = written
    BY <1>3 DEF TakeLease
  <2> QED
    BY <1>1, <2>1, <2>2 DEF EpochsReached
<1>4. ASSUME NEW w \in Workers, Commit(w) \/ Progress(w)
      PROVE  EpochsReached' /\ \A k \in Keys : written'[k] >= written[k]
  <2>1. worker[w].epoch = lease[KeyOf[worker[w].message]].epoch
    BY <1>4 DEF Commit, Progress, Current
  <2>2. written' = [written EXCEPT ![KeyOf[worker[w].message]] = worker[w].epoch] /\ lease' = lease
    BY <1>4 DEF Commit, Progress
  <2> QED
    BY <1>1, <2>1, <2>2 DEF EpochsReached
<1>5. ASSUME NEW w \in Workers, Release(w)
      PROVE  EpochsReached' /\ \A k \in Keys : written'[k] >= written[k]
  <2>1. \A k \in Keys : lease'[k].epoch = lease[k].epoch
    BY <1>5 DEF Release, LeaseRow
  <2>2. written' = written
    BY <1>5 DEF Release
  <2> QED
    BY <1>1, <2>1, <2>2 DEF EpochsReached
<1>6. ASSUME NEW j \in Keys, LeaseEnds(j)
      PROVE  EpochsReached' /\ \A k \in Keys : written'[k] >= written[k]
  <2>1. \A k \in Keys : lease'[k].epoch = lease[k].epoch
    BY <1>6 DEF LeaseEnds, LeaseRow
  <2>2. written' = written
    BY <1>6 DEF LeaseEnds
  <2> QED
    BY <1>1, <2>1, <2>2 DEF EpochsReached
<1>7. \/ UNCHANGED <<written, lease>>
      \/ \E w \in Workers : TakeLease(w) \/ Commit(w) \/ Progress(w) \/ Release(w)
      \/ \E k \in Keys : LeaseEnds(k)
  BY ZenonT(40) DEF Next, PumpStep, WorkerStep, Enqueue, ClaimDelivery, RoundEnds, Publish, FinishDelivery,
     Reconcile, Replay, Look, Abandon, PumpLeaseEnds, TimePasses, PumpDies, WorkerDies, HintLost
<1> QED
  BY <1>2, <1>3, <1>4, <1>5, <1>6, <1>7, Zenon

\* An effect and its inbox row are committed together, by a consumer whose
\* message has neither.
LEMMA EffectStep ==
  ASSUME DeliveryTypeOK, AtWorkUndone, EffectOnce, Next
  PROVE  EffectOnce'
<1>1. CASE UNCHANGED <<effects, inbox>>
  BY <1>1 DEF EffectOnce
<1>2. ASSUME NEW w \in Workers, Commit(w) PROVE EffectOnce'
  <2>1. worker[w].message \notin inbox
    BY <1>2 DEF Commit, AtWorkUndone
  <2> QED
    BY <1>2, <2>1 DEF Commit, EffectOnce, DeliveryTypeOK
<1>3. UNCHANGED <<effects, inbox>> \/ \E w \in Workers : Commit(w)
  BY ZenonT(40) DEF Next, PumpStep, WorkerStep, Enqueue, ClaimDelivery, RoundEnds, Publish, FinishDelivery,
     Reconcile, Replay, KeptMarkers, Look, TakeLease, Abandon, Release, Progress, PumpLeaseEnds,
     LeaseEnds, TimePasses, PumpDies, WorkerDies, HintLost
<1> QED
  BY <1>1, <1>2, <1>3

LEMMA InitInv == Init => DeliveryInv
<1> SUFFICES ASSUME Init PROVE DeliveryInv
  OBVIOUS
<1>1. OnlyAccepted
  BY DEF Init, OnlyAccepted, Dead, IdlePump, IdleWorker
<1>2. AtWorkUndone
  BY DEF Init, AtWorkUndone, IdleWorker
<1>3. EpochsReached
  BY DEF Init, EpochsReached, NoLease
<1>4. EffectOnce
  BY DEF Init, EffectOnce
<1> QED
  BY <1>1, <1>2, <1>3, <1>4 DEF DeliveryInv

LEMMA NextInv ==
  DeliveryTypeOK /\ DeliveryInv /\ [Next]_deliveryVars => DeliveryTypeOK' /\ DeliveryInv'
<1> SUFFICES ASSUME DeliveryTypeOK, DeliveryInv, [Next]_deliveryVars
             PROVE  DeliveryTypeOK' /\ DeliveryInv'
  OBVIOUS
<1>1. CASE Next
  <2>1. DeliveryTypeOK'
    <3>1. ASSUME NEW p \in Pumps, PumpStep(p) \/ PumpDies(p) PROVE DeliveryTypeOK'
      BY <3>1, PumpType
    <3>2. ASSUME NEW w \in Workers,
                 \/ WorkerStep(w) \/ Progress(w)
                 \/ \E m \in Messages : Look(w, m)
                 \/ \E again \in BOOLEAN : WorkerDies(w, again)
          PROVE  DeliveryTypeOK'
      BY <3>2, WorkerType DEF DeliveryInv
    <3>3. ASSUME NEW m \in Messages,
                 \/ \E due \in BOOLEAN : Enqueue(m, due)
                 \/ Replay(m) \/ PumpLeaseEnds(m) \/ TimePasses(m) \/ HintLost(m)
          PROVE  DeliveryTypeOK'
      BY <3>3, SurroundingsType
    <3>4. ASSUME NEW k \in Keys, LeaseEnds(k) PROVE DeliveryTypeOK'
      BY <3>4, LeaseEndsType
    <3> QED
      BY <1>1, <3>1, <3>2, <3>3, <3>4, Zenon DEF Next
  <2>2. DeliveryInv'
    BY <1>1, AcceptedStep, UndoneStep, EpochStep, EffectStep, Zenon DEF DeliveryInv
  <2> QED
    BY <2>1, <2>2
<1>2. CASE UNCHANGED deliveryVars
  <2>1. DeliveryTypeOK'
    BY <1>2 DEF DeliveryTypeOK, deliveryVars
  <2>2. OnlyAccepted' /\ EpochsReached' /\ EffectOnce'
    BY <1>2 DEF DeliveryInv, OnlyAccepted, EpochsReached, EffectOnce, Accepted, Dead, deliveryVars
  <2>3. AtWorkUndone'
    BY <1>2 DEF DeliveryInv, AtWorkUndone, Current, deliveryVars
  <2> QED
    BY <2>1, <2>2, <2>3 DEF DeliveryInv
<1> QED
  BY <1>1, <1>2

\* Every row, lease and process keeps its shape, and whatever refers to a message
\* refers to one that was enqueued (durable_delivery.py:33-330).
THEOREM DeliveryInvariant == Spec => [](DeliveryTypeOK /\ DeliveryInv)
<1>1. Init => DeliveryTypeOK /\ DeliveryInv
  BY InitType, InitInv
<1> QED
  BY <1>1, NextInv, PTL DEF Spec

\* What a handler writes is committed once for a message that was acknowledged and
\* never for another, for any number of messages, pumps, consumers and faults.
THEOREM EffectsAreCommittedOnce == Spec => []EffectOnce
<1>1. DeliveryTypeOK /\ DeliveryInv => EffectOnce
  BY DEF DeliveryInv
<1> QED
  BY <1>1, DeliveryInvariant, PTL

\* A consumer that has lost its lease writes nothing once its successor has: the
\* epochs of the commits of a resource never go down.
THEOREM StaleConsumersAreFenced == Spec => WritesAreFenced
<1>1. DeliveryTypeOK /\ DeliveryInv /\ [Next]_deliveryVars =>
        [\A k \in Keys : written'[k] >= written[k]]_deliveryVars
  BY EpochStep DEF DeliveryInv
<1> QED
  BY <1>1, DeliveryInvariant, PTL DEF Spec, WritesAreFenced

\* No two consumers that may commit are at the same resource: who commits is the
\* owner the lease names.
THEOREM OneHolder == Spec => []OneHolderPerKey
<1>1. OneHolderPerKey
  <2> SUFFICES ASSUME NEW k \in Keys PROVE Cardinality(Holder(k)) <= 1
    BY DEF OneHolderPerKey
  <2>1. Holder(k) \subseteq {lease[k].owner}
    BY DEF Holder, Current
  <2>2. IsFiniteSet({lease[k].owner}) /\ Cardinality({lease[k].owner}) = 1
    BY FS_Singleton
  <2> QED
    BY <2>1, <2>2, FS_Subset
<1> QED
  BY <1>1, PTL

\* A claim that counts is on a message that is being delivered.
ClaimsAreLive == \A m \in Messages : msg[m].live => msg[m].status = "delivering"

\* Giving a message up ends the claim on it, and a dead letter is not claimed.
LEMMA RestStep ==
  ASSUME DeliveryTypeOK, ClaimsAreLive, DeadIsAtRest, Next
  PROVE  ClaimsAreLive' /\ DeadIsAtRest'
<1> USE DEF DeliveryTypeOK
<1>1. ASSUME NEW p \in Pumps, Reconcile(p) PROVE ClaimsAreLive' /\ DeadIsAtRest'
  <2>1. ASSUME NEW m \in Messages
        PROVE  /\ msg'[m].live = msg[m].live
               /\ msg'[m].status = msg[m].status \/ (~msg[m].live /\ ~msg'[m].live)
               /\ Dead(m)' => Dead(m) \/ ~msg[m].live
    <3>1. Reconciled(m) => ~msg[m].live
      BY DEF Reconciled, Unacknowledged, ClaimsAreLive
    <3>2. m \in GivenUp => ~msg[m].live
      BY DEF GivenUp, Exhausted, Unpublished, Unacknowledged, ClaimsAreLive
    <3> QED
      BY <1>1, <3>1, <3>2 DEF Reconcile, Dead, MsgRow
  <2> QED
    BY <2>1 DEF ClaimsAreLive, DeadIsAtRest
<1>2. ASSUME NEW p \in Pumps, FinishDelivery(p) PROVE ClaimsAreLive' /\ DeadIsAtRest'
  <2>1. CASE Owns(p)
    <3>1. \A n \in Messages : (msg'[n] = msg[n] /\ dead'[n] = dead[n]) \/ msg'[n].live = FALSE
      BY <1>2, <2>1 DEF FinishDelivery, MsgRow
    <3> QED
      BY <3>1 DEF ClaimsAreLive, DeadIsAtRest, Dead
  <2>2. CASE ~Owns(p)
    BY <1>2, <2>2 DEF FinishDelivery, ClaimsAreLive, DeadIsAtRest, Dead
  <2> QED
    BY <2>1, <2>2
<1>3. ASSUME NEW p \in Pumps, NEW m \in Messages, ClaimDelivery(p, m)
      PROVE  ClaimsAreLive' /\ DeadIsAtRest'
  <2>1. msg'[m].status = "delivering" /\ ~Dead(m)
    BY <1>3 DEF ClaimDelivery, Claimable, MsgRow
  <2>2. \A n \in Messages \ {m} : msg'[n] = msg[n]
    BY <1>3 DEF ClaimDelivery
  <2> QED
    BY <1>3, <2>1, <2>2 DEF ClaimDelivery, ClaimsAreLive, DeadIsAtRest, Dead
<1>4. ASSUME NEW m \in Messages, NEW due \in BOOLEAN, Enqueue(m, due)
      PROVE  ClaimsAreLive' /\ DeadIsAtRest'
  <2>1. \A n \in Messages : msg'[n] = msg[n] \/ (n = m /\ msg'[n].live = msg[m].live)
    BY <1>4 DEF Enqueue, MsgRow
  <2>2. ~msg[m].live
    BY <1>4 DEF Enqueue, ClaimsAreLive
  <2> QED
    BY <1>4, <2>1, <2>2 DEF Enqueue, ClaimsAreLive, DeadIsAtRest, Dead
<1>5. ASSUME NEW m \in Messages, Replay(m) \/ PumpLeaseEnds(m)
      PROVE  ClaimsAreLive' /\ DeadIsAtRest'
  <2>1. \A n \in Messages : msg'[n] = msg[n] \/ msg'[n].live = FALSE
    BY <1>5 DEF Replay, PumpLeaseEnds, MsgRow
  <2>2. \A n \in Messages : Dead(n)' => Dead(n)
    BY <1>5 DEF Replay, PumpLeaseEnds, Dead
  <2> QED
    BY <2>1, <2>2 DEF ClaimsAreLive, DeadIsAtRest
<1>6. ASSUME NEW m \in Messages, TimePasses(m) PROVE ClaimsAreLive' /\ DeadIsAtRest'
  <2>1. \A n \in Messages : msg'[n].live = msg[n].live /\ msg'[n].status = msg[n].status
    BY <1>6 DEF TimePasses, MsgRow
  <2> QED
    BY <1>6, <2>1 DEF TimePasses, ClaimsAreLive, DeadIsAtRest, Dead
<1>7. ASSUME UNCHANGED <<msg, dead>> PROVE ClaimsAreLive' /\ DeadIsAtRest'
  BY <1>7 DEF ClaimsAreLive, DeadIsAtRest, Dead
<1>8. \/ UNCHANGED <<msg, dead>>
      \/ \E m \in Messages, due \in BOOLEAN : Enqueue(m, due)
      \/ \E p \in Pumps : \/ FinishDelivery(p) \/ Reconcile(p)
                          \/ \E m \in Messages : ClaimDelivery(p, m)
      \/ \E m \in Messages : Replay(m) \/ PumpLeaseEnds(m) \/ TimePasses(m)
  BY Zenon DEF Next, PumpStep, WorkerStep, RoundEnds, Publish, PumpDies, HintLost, Look, TakeLease,
     Commit, Abandon, Release, Progress, WorkerDies, LeaseEnds
<1> QED
  BY <1>1, <1>2, <1>3, <1>4, <1>5, <1>6, <1>7, <1>8, Zenon

\* A dead letter is at rest until an operator replays it: no claim on it counts any
\* more, whichever pump was at it when it was given up.
THEOREM DeadLettersRest == Spec => []DeadIsAtRest
<1>1. Init => ClaimsAreLive /\ DeadIsAtRest
  BY DEF Init, ClaimsAreLive, DeadIsAtRest, NoMsg, Dead
<1>2. DeliveryTypeOK /\ ClaimsAreLive /\ DeadIsAtRest /\ [Next]_deliveryVars =>
        ClaimsAreLive' /\ DeadIsAtRest'
  <2>1. CASE UNCHANGED deliveryVars
    BY <2>1 DEF ClaimsAreLive, DeadIsAtRest, Dead, deliveryVars
  <2> QED
    BY <2>1, RestStep
<1> QED
  BY <1>1, <1>2, DeliveryInvariant, PTL DEF Spec

-----------------------------------------------------------------------------
(* The gauges. *)

\* What the pump is about to do to a message, as the gauges tell it.
Foretold(m) ==
  /\ msg'[m].attempts > msg[m].attempts =>
       \/ m \in Snapshot.publishable
       \/ m \in (Snapshot.executing \cup Snapshot.receipts) \ Snapshot.scheduled
  /\ msg[m].status = "delivering" /\ msg'[m].owner \notin {msg[m].owner, Nobody} =>
       m \in Snapshot.expired \cup Snapshot.receipts
  /\ msg[m].status = "published" /\ msg'[m].status = "pending" =>
       m \in Snapshot.reconcile \cup Snapshot.dead

\* A claim is counted as publishable, or as being at work or through; one that is
\* taken over as expired.
LEMMA ClaimIsForetold ==
  ASSUME DeliveryTypeOK, NEW p \in Pumps, NEW m \in Messages, ClaimDelivery(p, m),
         NEW n \in Messages
  PROVE  Foretold(n)
<1>1. msg[m].attempts \in Nat /\ msg[n].attempts \in Nat
  BY DEF DeliveryTypeOK, MsgRow
<1>2. CASE n # m
  <2>1. msg'[n] = msg[n]
    BY <1>2 DEF ClaimDelivery, DeliveryTypeOK
  <2> QED
    BY <1>1, <2>1 DEF Foretold
<1>3. CASE n = m
  <2>1. Claimable(m) /\ msg'[m].status = "delivering"
    BY DEF ClaimDelivery, DeliveryTypeOK, MsgRow
  <2>2. m \in Publishable \/ m \in (ActiveExecution \cup inbox) \ Scheduled
    BY <2>1 DEF Claimable, Unpublished, Publishable, Incomplete, ActiveExecution, Scheduled
  <2>3. msg[m].status = "delivering" => m \in ExpiredPublisherLeases \cup inbox
    BY <2>1 DEF Claimable, Unpublished, ExpiredPublisherLeases, Incomplete
  <2> QED
    BY <1>3, <2>1, <2>2, <2>3 DEF Foretold, Snapshot
<1> QED
  BY <1>2, <1>3

\* No other step claims a message; what goes back to be published was a candidate
\* of reconciliation, or a dead letter.
LEMMA OtherStepIsForetold ==
  ASSUME DeliveryTypeOK, Next, ~\E p \in Pumps, m \in Messages : ClaimDelivery(p, m),
         NEW n \in Messages
  PROVE  Foretold(n)
<1> USE DEF DeliveryTypeOK
<1>1. msg[n].attempts \in Nat /\ msg[n].owner \in Pumps \cup {Nobody}
  BY DEF MsgRow
<1>2. CASE msg'[n] = msg[n]
  BY <1>1, <1>2 DEF Foretold
<1>3. ASSUME NEW m \in Messages, NEW due \in BOOLEAN, Enqueue(m, due) PROVE Foretold(n)
  <2>1. msg'[n] = msg[n] \/ (msg[n].status = "none" /\ msg'[n].attempts = msg[n].attempts)
    BY <1>3 DEF Enqueue, MsgRow
  <2> QED
    BY <1>1, <1>2, <2>1 DEF Foretold
<1>4. ASSUME NEW p \in Pumps, FinishDelivery(p) PROVE Foretold(n)
  <2>1. msg'[n] = msg[n]
        \/ /\ msg[n].status = "delivering" /\ msg'[n].attempts = msg[n].attempts
           /\ msg'[n].owner = Nobody
    BY <1>4 DEF FinishDelivery, Owns, MsgRow
  <2> QED
    BY <1>1, <1>2, <2>1 DEF Foretold
<1>5. ASSUME NEW p \in Pumps, Reconcile(p) PROVE Foretold(n)
  <2>1. CASE Reconciled(n)
    <3>1. msg'[n].attempts = msg[n].attempts /\ msg'[n].owner = msg[n].owner
      BY <1>5, <2>1 DEF Reconcile, MsgRow
    <3>2. n \in ReconcileCandidates
      BY <2>1 DEF Reconciled, Unacknowledged, ReconcileCandidates, AwaitingReceipt, Incomplete
    <3> QED
      BY <1>1, <3>1, <3>2 DEF Foretold, Snapshot
  <2>2. CASE ~Reconciled(n)
    BY <1>2, <1>5, <2>2 DEF Reconcile
  <2> QED
    BY <2>1, <2>2
<1>6. ASSUME NEW m \in Messages, Replay(m) PROVE Foretold(n)
  <2>1. msg'[n] = msg[n] \/ (n = m /\ msg'[n].attempts = 0 /\ msg'[n].owner = Nobody)
    BY <1>6 DEF Replay, MsgRow
  <2>2. m \in DeadLetters
    BY <1>6 DEF Replay, DeadLetters
  <2> QED
    BY <1>1, <1>2, <2>1, <2>2 DEF Foretold, Snapshot
<1>7. ASSUME NEW m \in Messages, PumpLeaseEnds(m) \/ TimePasses(m) PROVE Foretold(n)
  <2>1. /\ msg'[n].attempts = msg[n].attempts /\ msg'[n].owner = msg[n].owner
        /\ msg'[n].status = msg[n].status
    <3>1. CASE PumpLeaseEnds(m)
      BY <3>1 DEF PumpLeaseEnds, MsgRow
    <3>2. CASE TimePasses(m)
      BY <3>2 DEF TimePasses, MsgRow
    <3> QED
      BY <1>7, <3>1, <3>2
  <2> QED
    BY <1>1, <2>1 DEF Foretold
<1>8. \/ msg' = msg
      \/ \E m \in Messages, due \in BOOLEAN : Enqueue(m, due)
      \/ \E p \in Pumps : FinishDelivery(p) \/ Reconcile(p)
      \/ \E m \in Messages : Replay(m) \/ PumpLeaseEnds(m) \/ TimePasses(m)
  BY Zenon DEF Next, PumpStep, WorkerStep, RoundEnds, Publish, PumpDies, HintLost, Look, TakeLease,
     Commit, Abandon, Release, Progress, WorkerDies, LeaseEnds
<1> QED
  BY <1>2, <1>3, <1>4, <1>5, <1>6, <1>7, <1>8, Zenon

\* The query of the observer and the conditions of the pump, written twice in the
\* code, agree on every message: what the gauges show is what the pump then does.
THEOREM GaugesForetell == Spec => GaugesFollowThePump
<1>1. DeliveryTypeOK /\ Next => \A m \in Messages : Foretold(m)
  BY ClaimIsForetold, OtherStepIsForetold
<1>2. DeliveryTypeOK /\ DeliveryInv /\ [Next]_deliveryVars =>
        [\A m \in Messages : Foretold(m)]_deliveryVars
  BY <1>1
<1> QED
  BY <1>2, DeliveryInvariant, PTL DEF Spec, GaugesFollowThePump, Foretold

-----------------------------------------------------------------------------
(* The refinement of Mailbox. *)

Mailed == {m \in Messages : msg[m].status # "none"}
Aside == {m \in Messages : Dead(m)}

\* A step that neither enqueues nor replays nor gives up nor commits is none of
\* Mailbox's.
LEMMA MailStutters ==
  ASSUME DeliveryTypeOK, Next,
         UNCHANGED <<Mailed, effects, Aside>>
  PROVE  [Promise!MailNext]_(Promise!mailVars)
BY DEF Promise!mailVars, Mailed, Aside

\* Every transaction of the outbox and of a consumer is one step of Mailbox.
LEMMA StepIsMail ==
  ASSUME DeliveryTypeOK, DeliveryInv, Next
  PROVE  [Promise!MailNext]_(Promise!mailVars)
<1> USE DEF DeliveryTypeOK
<1>1. DeliveryInv /\ \A m : Accepted(m) => Accepted(m)'
  BY AcceptedStays
<1>2. ASSUME NEW m \in Messages, NEW due \in BOOLEAN, Enqueue(m, due)
      PROVE  Promise!Accept(m)
  <2>1. Mailed' = Mailed \cup {m}
    BY <1>2 DEF Enqueue, Mailed, MsgRow
  <2>2. effects' = effects /\ Aside' = Aside
    BY <1>2 DEF Enqueue, Aside, Dead
  <2> QED
    BY <2>1, <2>2 DEF Promise!Accept, Mailed, Aside
<1>3. ASSUME \A m \in Messages : msg'[m].status = "none" <=> msg[m].status = "none"
      PROVE  Mailed' = Mailed
  BY <1>3 DEF Mailed
<1>4. ASSUME NEW p \in Pumps, FinishDelivery(p)
      PROVE  \E S \in SUBSET Messages : Promise!SetAside(S)
  <2> DEFINE m == pump[p].message
             S == {n \in {m} : dead' # dead}
  <2>1. m \in Messages /\ msg[m].status # "none"
    BY <1>4 DEF FinishDelivery, DeliveryInv, OnlyAccepted, Accepted
  <2>2. Mailed' = Mailed
    BY <1>1, <1>4 DEF FinishDelivery, Owns, Mailed, Accepted, MsgRow
  <2>3. dead' = dead \/ dead' = [dead EXCEPT ![m] = "dead"]
    BY <1>4 DEF FinishDelivery
  <2>4. Aside' = Aside \cup S
    BY <2>1, <2>3 DEF Aside, Dead
  <2>5. effects' = effects
    BY <1>4 DEF FinishDelivery
  <2> QED
    BY ZenonT(40), <2>1, <2>2, <2>4, <2>5 DEF Promise!SetAside, Mailed, Aside
<1>5. ASSUME NEW p \in Pumps, Reconcile(p)
      PROVE  \E S \in SUBSET Messages : Promise!SetAside(S)
  <2>1. GivenUp \in SUBSET Messages /\ GivenUp \subseteq Mailed
    BY DEF GivenUp, Exhausted, Unpublished, Unacknowledged, Mailed
  <2>2. Mailed' = Mailed
    BY <1>5 DEF Reconcile, Mailed, Reconciled, Unacknowledged, MsgRow
  <2>3. Aside' = Aside \cup GivenUp
    BY <1>5, <2>1 DEF Reconcile, Aside, Dead
  <2>4. effects' = effects
    BY <1>5 DEF Reconcile
  <2> QED
    BY <2>1, <2>2, <2>3, <2>4 DEF Promise!SetAside, Mailed, Aside
<1>6. ASSUME NEW m \in Messages, Replay(m)
      PROVE  Promise!PutBack(m)
  <2>1. msg[m].status # "none"
    BY <1>6 DEF Replay, DeliveryInv, OnlyAccepted, Accepted
  <2>2. Mailed' = Mailed
    BY <1>6, <2>1 DEF Replay, Mailed, MsgRow
  <2>3. m \in Aside /\ Aside' = Aside \ {m}
    BY <1>6 DEF Replay, Aside, Dead
  <2>4. effects' = effects
    BY <1>6 DEF Replay
  <2> QED
    BY <2>2, <2>3, <2>4 DEF Promise!PutBack, Mailed, Aside
<1>7. ASSUME NEW w \in Workers, Commit(w)
      PROVE  \E m \in Messages : Promise!TakeEffect(m)
  <2> DEFINE m == worker[w].message
  <2>1. m \in Messages /\ m \in Mailed
    BY <1>7 DEF Commit, DeliveryInv, OnlyAccepted, Accepted, Mailed
  <2>2. effects[m] = 0
    BY <1>7, <2>1 DEF Commit, DeliveryInv, AtWorkUndone, EffectOnce
  <2>3. effects' = [effects EXCEPT ![m] = 1]
    BY <1>7, <2>2 DEF Commit
  <2>4. Mailed' = Mailed /\ Aside' = Aside
    BY <1>7 DEF Commit, Mailed, Aside, Dead
  <2> QED
    BY <2>1, <2>2, <2>3, <2>4 DEF Promise!TakeEffect, Mailed, Aside
<1>8. ASSUME NEW p \in Pumps, NEW m \in Messages, ClaimDelivery(p, m)
      PROVE  UNCHANGED <<Mailed, effects, Aside>>
  <2>1. Mailed' = Mailed
    BY <1>8 DEF ClaimDelivery, Claimable, Unpublished, Mailed, MsgRow
  <2> QED
    BY <1>8, <2>1 DEF ClaimDelivery, Aside, Dead
<1>9. ASSUME NEW m \in Messages, PumpLeaseEnds(m) \/ TimePasses(m)
      PROVE  UNCHANGED <<Mailed, effects, Aside>>
  <2>1. Mailed' = Mailed
    BY <1>9 DEF PumpLeaseEnds, TimePasses, Mailed, MsgRow
  <2> QED
    BY <1>9, <2>1 DEF PumpLeaseEnds, TimePasses, Aside, Dead
<1>10. ASSUME UNCHANGED <<msg, effects, dead>>
       PROVE  UNCHANGED <<Mailed, effects, Aside>>
  BY <1>10 DEF Mailed, Aside, Dead
<1>11. \/ UNCHANGED <<msg, effects, dead>>
       \/ \E m \in Messages, due \in BOOLEAN : Enqueue(m, due)
       \/ \E p \in Pumps : \/ FinishDelivery(p) \/ Reconcile(p)
                           \/ \E m \in Messages : ClaimDelivery(p, m)
       \/ \E m \in Messages : Replay(m) \/ PumpLeaseEnds(m) \/ TimePasses(m)
       \/ \E w \in Workers : Commit(w)
  BY Zenon DEF Next, PumpStep, WorkerStep, RoundEnds, Publish, PumpDies, HintLost, Look, TakeLease,
     Abandon, Release, Progress, WorkerDies, LeaseEnds
<1>12. Promise!MailNext \/ UNCHANGED <<Mailed, effects, Aside>>
  BY <1>2, <1>4, <1>5, <1>6, <1>7, <1>8, <1>9, <1>10, <1>11, Zenon DEF Promise!MailNext
<1> QED
  BY <1>12, MailStutters

\* Durable delivery keeps the promise of Mailbox: whatever claims, leases, hints,
\* epochs, crashes and replays there are, a message is accepted, takes effect at
\* most once, is set aside or is put back, and nothing else happens to it.
THEOREM PromiseKept == Spec => Promised
<1>1. Init => Promise!MailInit
  BY DEF Init, Promise!MailInit, NoMsg, Dead
<1>2. DeliveryTypeOK /\ DeliveryInv /\ [Next]_deliveryVars =>
        [Promise!MailNext]_(Promise!mailVars)
  <2>1. CASE UNCHANGED deliveryVars
    BY <2>1 DEF deliveryVars, Promise!mailVars, Dead
  <2> QED
    BY <2>1, StepIsMail
<1> QED
  BY <1>1, <1>2, DeliveryInvariant, PTL DEF Spec, Promised, Promise!MailSpec

=============================================================================
