------------------------------ MODULE Delivery ------------------------------
(***************************************************************************)
(* Durable delivery: the transactional outbox, the pump that publishes it, *)
(* the broker's hints, and the consumers that are fenced by an execution   *)
(* lease with an epoch.  A publish is only a hint: a message is done when  *)
(* its inbox row is committed together with what its handler wrote.        *)
(*                                                                         *)
(* Every clock is PostgreSQL's.  A deadline is a flag with an action that  *)
(* lets it pass: leases (live), backoff (avail), not_before (due) and the  *)
(* age of a publication (aged).                                            *)
(***************************************************************************)
EXTENDS Naturals, FiniteSets

CONSTANTS
  Messages, Keys,
  KeyOf,        \* message -> resource_key, its topic with its aggregate_key
  Pumps,        \* processes running app.tasks.durable_delivery.pump
  Workers,      \* processes running app.tasks.durable_delivery.execute
  Nobody, NoMessage,
  MaxAttempts,  \* max_attempts of the policy
  PumpLimit,    \* messages one round of a pump claims at most
  MaxReplays,   \* bound: replays by an operator
  MaxFaults     \* bound: crashes and lost hints

ASSUME DeliveryAssumption ==
  /\ KeyOf \in [Messages -> Keys]
  /\ Nobody \notin Pumps \cup Workers /\ NoMessage \notin Messages
  /\ MaxAttempts \in Nat \ {0} /\ PumpLimit \in Nat \ {0} /\ MaxReplays \in Nat /\ MaxFaults \in Nat

VARIABLES
  msg,      \* outbox_message
  dead,     \* outbox_dead_letter: "none", "dead", or "replayed"
  inbox,    \* inbox_message: the messages with a row for their consumer
  lease,    \* outbox_execution, by resource key
  hints,    \* copies of each message's task in the broker
  pump,     \* where each pump is
  worker,   \* where each consumer is
  effects,  \* how often the writes of a message's handler were committed
  written,  \* per key, the epoch of the consumer that committed last
  faults, replays

deliveryVars ==
  <<msg, dead, inbox, lease, hints, pump, worker, effects, written, faults, replays>>

NoMsg == [status |-> "none", owner |-> Nobody, live |-> FALSE, attempts |-> 0,
          avail |-> TRUE, due |-> TRUE, aged |-> FALSE]
NoLease == [message |-> NoMessage, owner |-> Nobody, epoch |-> 0, live |-> FALSE]
IdlePump == [pc |-> "idle", message |-> NoMessage, attempts |-> 0, error |-> FALSE, left |-> 0]
IdleWorker == [pc |-> "idle", message |-> NoMessage, epoch |-> 0]

MsgRow ==
  [status: {"none", "pending", "delivering", "published"}, owner: Pumps \cup {Nobody},
   live: BOOLEAN, attempts: Nat, avail: BOOLEAN, due: BOOLEAN, aged: BOOLEAN]
LeaseRow ==
  [message: Messages \cup {NoMessage}, owner: Workers \cup {Nobody}, epoch: Nat, live: BOOLEAN]
PumpState ==
  [pc: {"idle", "looping", "claimed", "sent"}, message: Messages \cup {NoMessage},
   attempts: Nat, error: BOOLEAN, left: Nat]
WorkerState ==
  [pc: {"idle", "seen", "running", "leaving"}, message: Messages \cup {NoMessage}, epoch: Nat]

\* Every row and every process has its shape.
DeliveryTypeOK ==
  /\ msg \in [Messages -> MsgRow]
  /\ dead \in [Messages -> {"none", "dead", "replayed"}]
  /\ inbox \subseteq Messages
  /\ lease \in [Keys -> LeaseRow]
  /\ hints \in [Messages -> Nat]
  /\ pump \in [Pumps -> PumpState]
  /\ worker \in [Workers -> WorkerState]
  /\ effects \in [Messages -> Nat]
  /\ written \in [Keys -> Nat]
  /\ faults \in Nat /\ replays \in Nat

Init ==
  /\ msg = [m \in Messages |-> NoMsg]
  /\ dead = [m \in Messages |-> "none"]
  /\ inbox = {}
  /\ lease = [k \in Keys |-> NoLease]
  /\ hints = [m \in Messages |-> 0]
  /\ pump = [p \in Pumps |-> IdlePump]
  /\ worker = [w \in Workers |-> IdleWorker]
  /\ effects = [m \in Messages |-> 0]
  /\ written = [k \in Keys |-> 0]
  /\ faults = 0 /\ replays = 0

Dead(m) == dead[m] = "dead"
Executing(m) == lease[KeyOf[m]].message = m /\ lease[KeyOf[m]].live

-----------------------------------------------------------------------------
(* The outbox. *)

\* The caller's transaction commits domain state and this row together.  A second
\* enqueue with the same deduplication key returns the first row.
Enqueue(m, due) ==
  /\ msg[m].status = "none"
  /\ msg' = [msg EXCEPT ![m].status = "pending", ![m].avail = due, ![m].due = due]
  /\ UNCHANGED <<dead, inbox, lease, hints, pump, worker, effects, written, faults, replays>>

\* Waiting to be published: never claimed, or claimed by a pump whose lease ran out.
Unpublished(m) ==
  msg[m].status = "pending" \/ (msg[m].status = "delivering" /\ ~msg[m].live)

Claimable(m) ==
  Unpublished(m) /\ msg[m].avail /\ msg[m].due /\ ~Dead(m)

\* SKIP LOCKED: a claim passes over rows another transaction holds, so any
\* claimable row may be the one.
ClaimDelivery(p, m) ==
  /\ pump[p].pc = "looping" /\ pump[p].left > 0 /\ Claimable(m)
  /\ msg' = [msg EXCEPT ![m].status = "delivering", ![m].owner = p, ![m].live = TRUE,
                        ![m].attempts = @ + 1]
  /\ pump' = [pump EXCEPT ![p] =
       [pc |-> "claimed", message |-> m, attempts |-> msg[m].attempts + 1, error |-> FALSE,
        left |-> pump[p].left - 1]]
  /\ UNCHANGED <<dead, inbox, lease, hints, worker, effects, written, faults, replays>>

RoundEnds(p) ==
  /\ pump[p].pc = "looping"
  /\ pump[p].left = 0 \/ \A m \in Messages : ~Claimable(m)
  /\ pump' = [pump EXCEPT ![p] = IdlePump]
  /\ UNCHANGED <<msg, dead, inbox, lease, hints, worker, effects, written, faults, replays>>

\* apply_async returns, or raises although the broker may have taken the task.
Publish(p, sent, error) ==
  /\ pump[p].pc = "claimed" /\ (sent \/ error)
  /\ hints' = IF sent THEN [hints EXCEPT ![pump[p].message] = @ + 1] ELSE hints
  /\ pump' = [pump EXCEPT ![p].pc = "sent", ![p].error = error]
  /\ UNCHANGED <<msg, dead, inbox, lease, worker, effects, written, faults, replays>>

\* The claim is still this pump's; if not, a later owner is authoritative.
Owns(p) ==
  LET m == pump[p].message IN
  msg[m].status = "delivering" /\ msg[m].owner = p /\ msg[m].live

FinishDelivery(p) ==
  LET m == pump[p].message
      failed == pump[p].error IN
  /\ pump[p].pc = "sent"
  /\ pump' = [pump EXCEPT ![p] = [IdlePump EXCEPT !.pc = "looping", !.left = pump[p].left]]
  /\ IF Owns(p)
     THEN /\ msg' = [msg EXCEPT ![m].status = IF failed THEN "pending" ELSE "published",
                                ![m].owner = Nobody, ![m].live = FALSE,
                                ![m].avail = FALSE, ![m].aged = FALSE]
          /\ dead' = IF failed /\ pump[p].attempts >= MaxAttempts
                     THEN [dead EXCEPT ![m] = "dead"] ELSE dead
     ELSE UNCHANGED <<msg, dead>>
  /\ UNCHANGED <<inbox, lease, hints, worker, effects, written, faults, replays>>

-----------------------------------------------------------------------------
(* Housekeeping, which every round of a pump starts with, and the operator. *)

Exhausted(m) == msg[m].attempts >= MaxAttempts /\ Unpublished(m) /\ ~Dead(m)

\* Published a lease ago, and no consumer has acknowledged it or is at it.
Unacknowledged(m) ==
  msg[m].status = "published" /\ msg[m].aged /\ m \notin inbox /\ ~Executing(m) /\ ~Dead(m)

\* Mutant: a message nobody acknowledged is left as it is.
ReconciledNever(m) == FALSE

\* Mutant: a consumer that is still at the message is not looked for.
ReconciledAtWork(m) ==
  /\ msg[m].status = "published" /\ msg[m].aged /\ m \notin inbox /\ ~Dead(m)
  /\ msg[m].attempts < MaxAttempts

Reconciled(m) == Unacknowledged(m) /\ msg[m].attempts < MaxAttempts

GivenUp ==
  {m \in Messages : Exhausted(m) \/ (Unacknowledged(m) /\ msg[m].attempts >= MaxAttempts)}

Reconcile(p) ==
  /\ pump[p].pc = "idle"
  /\ dead' = [m \in Messages |-> IF m \in GivenUp THEN "dead" ELSE dead[m]]
  /\ msg' = [m \in Messages |->
       IF Reconciled(m) THEN [msg[m] EXCEPT !.status = "pending", !.avail = TRUE] ELSE msg[m]]
  /\ pump' = [pump EXCEPT ![p].pc = "looping", ![p].left = PumpLimit]
  /\ UNCHANGED <<inbox, lease, hints, worker, effects, written, faults, replays>>

\* Mutant: a replay forgets that the message was acknowledged.
KeptMarkersNone(m) == inbox \ {m}

\* A replay keeps the committed inbox markers.
KeptMarkers(m) == inbox

Replay(m) ==
  /\ Dead(m) /\ replays < MaxReplays
  /\ dead' = [dead EXCEPT ![m] = "replayed"]
  /\ msg' = [msg EXCEPT ![m].status = "pending", ![m].attempts = 0, ![m].avail = TRUE,
                        ![m].owner = Nobody, ![m].live = FALSE]
  /\ inbox' = KeptMarkers(m)
  /\ replays' = replays + 1
  /\ UNCHANGED <<lease, hints, pump, worker, effects, written, faults>>

-----------------------------------------------------------------------------
(* Consumers.  claim_execution reads the message, then takes the lease of its
   resource; between the two an earlier execution may have committed. *)

Look(w, m) ==
  /\ worker[w].pc = "idle" /\ hints[m] > 0
  /\ hints' = [hints EXCEPT ![m] = @ - 1]
  /\ worker' = IF msg[m].due /\ m \notin inbox /\ ~Dead(m)
               THEN [worker EXCEPT ![w] = [pc |-> "seen", message |-> m, epoch |-> 0]]
               ELSE worker
  /\ UNCHANGED <<msg, dead, inbox, lease, pump, effects, written, faults, replays>>

\* Mutant: the inbox is not read again once the lease is held.
AlreadyDoneUnseen(m) == FALSE

AlreadyDone(m) == m \in inbox

TakeLease(w) ==
  LET m == worker[w].message
      k == KeyOf[m]
      epoch == lease[k].epoch + 1 IN
  /\ worker[w].pc = "seen"
  /\ \/ /\ lease[k].live
        /\ worker' = [worker EXCEPT ![w] = IdleWorker]
        /\ lease' = lease
     \/ /\ ~lease[k].live
        /\ lease' = [lease EXCEPT ![k] =
             [message |-> m, owner |-> w, epoch |-> epoch, live |-> ~AlreadyDone(m)]]
        /\ worker' = [worker EXCEPT ![w] =
             IF AlreadyDone(m) THEN IdleWorker
             ELSE [pc |-> "running", message |-> m, epoch |-> epoch]]
  /\ UNCHANGED <<msg, dead, inbox, hints, pump, effects, written, faults, replays>>

\* Mutant: the lease only has to be one for the same message.
CurrentByMessage(w) ==
  LET row == lease[KeyOf[worker[w].message]] IN
  row.message = worker[w].message /\ row.live

\* CHECK_LEASE, which guards every commit of the consumer's session.
Current(w) ==
  LET row == lease[KeyOf[worker[w].message]] IN
  /\ row.message = worker[w].message /\ row.owner = w
  /\ row.epoch = worker[w].epoch /\ row.live

Leaving(w) == [worker EXCEPT ![w].pc = "leaving"]

\* A handler that commits progress of its own before it is through.
Progress(w) ==
  /\ worker[w].pc = "running" /\ Current(w)
  /\ written' = [written EXCEPT ![KeyOf[worker[w].message]] = worker[w].epoch]
  /\ UNCHANGED <<msg, dead, inbox, lease, hints, pump, worker, effects, faults, replays>>

\* The handler's writes and the inbox row, in one transaction.
Commit(w) ==
  LET m == worker[w].message IN
  /\ worker[w].pc = "running" /\ Current(w)
  /\ effects' = [effects EXCEPT ![m] = @ + 1]
  /\ inbox' = inbox \cup {m}
  /\ written' = [written EXCEPT ![KeyOf[m]] = worker[w].epoch]
  /\ worker' = Leaving(w)
  /\ UNCHANGED <<msg, dead, lease, hints, pump, faults, replays>>

\* The handler raises, or its commit or the heartbeat finds the lease lost.
Abandon(w) ==
  /\ worker[w].pc = "running"
  /\ ~Current(w) \/ faults < MaxFaults
  /\ faults' = IF Current(w) THEN faults + 1 ELSE faults
  /\ worker' = Leaving(w)
  /\ UNCHANGED <<msg, dead, inbox, lease, hints, pump, effects, written, replays>>

\* release() names the lease it gives up, so it never ends somebody else's.
Release(w) ==
  LET k == KeyOf[worker[w].message]
      mine == /\ lease[k].message = worker[w].message /\ lease[k].owner = w
              /\ lease[k].epoch = worker[w].epoch IN
  /\ worker[w].pc = "leaving"
  /\ lease' = IF mine THEN [lease EXCEPT ![k].live = FALSE] ELSE lease
  /\ worker' = [worker EXCEPT ![w] = IdleWorker]
  /\ UNCHANGED <<msg, dead, inbox, hints, pump, effects, written, faults, replays>>

-----------------------------------------------------------------------------
(* Clocks and faults. *)

Holder(k) ==
  {w \in Workers : worker[w].pc = "running" /\ KeyOf[worker[w].message] = k /\ Current(w)}

PumpLeaseEnds(m) ==
  /\ msg[m].live
  /\ msg' = [msg EXCEPT ![m].live = FALSE]
  /\ UNCHANGED <<dead, inbox, lease, hints, pump, worker, effects, written, faults, replays>>

\* Also while its holder runs, if the heartbeat comes too late.
LeaseEnds(k) ==
  /\ lease[k].live
  /\ lease' = [lease EXCEPT ![k].live = FALSE]
  /\ UNCHANGED <<msg, dead, inbox, hints, pump, worker, effects, written, faults, replays>>

TimePasses(m) ==
  /\ msg[m].status # "none"
  /\ msg[m] # [msg[m] EXCEPT !.avail = TRUE, !.due = TRUE, !.aged = TRUE]
  /\ msg' = [msg EXCEPT ![m].avail = TRUE, ![m].due = TRUE, ![m].aged = TRUE]
  /\ UNCHANGED <<dead, inbox, lease, hints, pump, worker, effects, written, faults, replays>>

PumpDies(p) ==
  /\ pump[p].pc # "idle" /\ faults < MaxFaults
  /\ pump' = [pump EXCEPT ![p] = IdlePump]
  /\ faults' = faults + 1
  /\ UNCHANGED <<msg, dead, inbox, lease, hints, worker, effects, written, replays>>

\* acks_late: the broker gives the task of a dead worker to another one, or not.
WorkerDies(w, again) ==
  /\ worker[w].pc # "idle" /\ faults < MaxFaults
  /\ hints' = IF again THEN [hints EXCEPT ![worker[w].message] = @ + 1] ELSE hints
  /\ worker' = [worker EXCEPT ![w] = IdleWorker]
  /\ faults' = faults + 1
  /\ UNCHANGED <<msg, dead, inbox, lease, pump, effects, written, replays>>

HintLost(m) ==
  /\ hints[m] > 0 /\ faults < MaxFaults
  /\ hints' = [hints EXCEPT ![m] = @ - 1]
  /\ faults' = faults + 1
  /\ UNCHANGED <<msg, dead, inbox, lease, pump, worker, effects, written, replays>>

PumpStep(p) ==
  \/ Reconcile(p) \/ RoundEnds(p) \/ FinishDelivery(p)
  \/ \E m \in Messages : ClaimDelivery(p, m)
  \/ \E sent, error \in BOOLEAN : Publish(p, sent, error)

WorkerStep(w) == TakeLease(w) \/ Commit(w) \/ Abandon(w) \/ Release(w)

Next ==
  \/ \E m \in Messages, due \in BOOLEAN : Enqueue(m, due)
  \/ \E p \in Pumps : PumpStep(p) \/ PumpDies(p)
  \/ \E m \in Messages : Replay(m) \/ PumpLeaseEnds(m) \/ TimePasses(m) \/ HintLost(m)
  \/ \E w \in Workers, m \in Messages : Look(w, m)
  \/ \E w \in Workers : WorkerStep(w) \/ Progress(w)
  \/ \E w \in Workers, again \in BOOLEAN : WorkerDies(w, again)
  \/ \E k \in Keys : LeaseEnds(k)

Spec == Init /\ [][Next]_deliveryVars

\* Beat starts a pump every five seconds, the broker hands a task to a free
\* worker, handlers end, and clocks go on; nothing is assumed of faults, of
\* operators, or of the lease of a consumer at work.
FairSpec ==
  /\ Spec
  /\ \A p \in Pumps : WF_deliveryVars(PumpStep(p))
  /\ \A w \in Workers : WF_deliveryVars(WorkerStep(w))
  /\ \A m \in Messages : WF_deliveryVars(TimePasses(m)) /\ WF_deliveryVars(PumpLeaseEnds(m))
  /\ \A w \in Workers : WF_deliveryVars(\E m \in Messages : Look(w, m))
  /\ \A k \in Keys : WF_deliveryVars(Holder(k) = {} /\ LeaseEnds(k))

-----------------------------------------------------------------------------
(* What a watcher sees: the gauges of delivery_observation.py, which repeats the
   conditions of claims and reconciliation in a query of its own, each gauge as
   the set of messages it counts. *)

Incomplete == {m \in Messages : msg[m].status # "none" /\ m \notin inbox}
Scheduled == {m \in Incomplete : ~msg[m].due}
Publishable ==
  {m \in Incomplete : Unpublished(m) /\ msg[m].avail /\ msg[m].due /\ ~Dead(m) /\ ~Executing(m)}
AwaitingReceipt == {m \in Incomplete : msg[m].status = "published"}
ActiveExecution == {m \in Incomplete : Executing(m)}
ExpiredPublisherLeases == {m \in Incomplete : msg[m].status = "delivering" /\ ~msg[m].live}
DeadLetters == {m \in Messages : Dead(m)}
ReconcileCandidates ==
  {m \in AwaitingReceipt : msg[m].aged /\ ~Executing(m) /\ ~Dead(m)}

\* One READ ONLY, REPEATABLE READ transaction counts them all.
Snapshot ==
  [receipts |-> inbox, incomplete |-> Incomplete, scheduled |-> Scheduled,
   publishable |-> Publishable, awaiting |-> AwaitingReceipt, executing |-> ActiveExecution,
   expired |-> ExpiredPublisherLeases, dead |-> DeadLetters, reconcile |-> ReconcileCandidates]

-----------------------------------------------------------------------------
(* Properties. *)

\* What a handler writes is committed once per message, however often its task is
\* published, redelivered, retried after a lost lease or replayed, and exactly
\* for the messages with an inbox row.  It speaks of what the handler leaves to the
\* runtime to commit: "a use case that commits by itself on the way does not get
\* this guarantee" (docs/durable-scheduling.md:12).
EffectOnce ==
  \A m \in Messages : effects[m] = IF m \in inbox THEN 1 ELSE 0

\* A consumer that lost its lease writes nothing after its successor has: the
\* epochs of the commits of one resource never go down.
WritesAreFenced == [][\A k \in Keys : written'[k] >= written[k]]_deliveryVars

\* No two consumers that may commit are at the same resource.
OneHolderPerKey == \A k \in Keys : Cardinality(Holder(k)) <= 1

\* A dead letter is at rest until an operator replays it: no pump holds a claim
\* on it that still counts, whatever claims were under way when it was given up.
DeadIsAtRest == \A m \in Messages : Dead(m) => ~msg[m].live

\* The gauges tell what a pump is about to do.  It claims a message that is
\* counted as publishable, or one whose handler is at work or through and that is
\* not scheduled for later; it takes a claim over only where the board shows an
\* expired one; and it puts back only a reconcile candidate or a dead letter
\* (delivery_observation.py:105-124 against durable_delivery.py:48 and 141).
GaugesFollowThePump ==
  [][\A m \in Messages :
       /\ msg'[m].attempts > msg[m].attempts =>
            \/ m \in Snapshot.publishable
            \/ m \in (Snapshot.executing \cup Snapshot.receipts) \ Snapshot.scheduled
       /\ msg[m].status = "delivering" /\ msg'[m].owner \notin {msg[m].owner, Nobody} =>
            m \in Snapshot.expired \cup Snapshot.receipts
       /\ msg[m].status = "published" /\ msg'[m].status = "pending" =>
            m \in Snapshot.reconcile \cup Snapshot.dead]_deliveryVars

\* The promise of the component: what it does to messages is what Mailbox says.
Promise == INSTANCE Mailbox WITH
  accepted <- {m \in Messages : msg[m].status # "none"},
  taken <- effects,
  aside <- {m \in Messages : Dead(m)}

Promised == Promise!MailSpec
EverySettled == Promise!EverySettled

=============================================================================
