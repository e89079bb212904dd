---------------------------- MODULE LedgerProofs ----------------------------
(***************************************************************************)
(* Theorems about Ledger.tla, for any number of tasks, sessions, projects, *)
(* attempts and interactions and any amounts.                              *)
(***************************************************************************)
EXTENDS Ledger, TLAPS

-----------------------------------------------------------------------------
(* Rows keep their shape under the operators the actions are built from. *)

LEMMA CasType ==
  ASSUME NEW row \in TaskRow
  PROVE  Cas(row) \in TaskRow
BY DEF Cas, TaskRow

LEMMA MovedToType ==
  ASSUME NEW row \in TaskRow, NEW to \in TaskStates, NEW why \in Reasons \cup {""}
  PROVE  MovedTo(row, to, why) \in TaskRow
BY DEF MovedTo, Cas, TaskRow

LEMMA ClosedType ==
  ASSUME NEW row \in TaskRow, NEW outcome \in TaskStates
  PROVE  Closed(row, outcome) \in TaskRow
BY DEF Closed, MovedTo, Cas, TaskRow

LEMMA WaitingForType ==
  ASSUME NEW row \in TaskRow, NEW i \in Inters \cup {NoInter}, NEW kind \in Kinds
  PROVE  WaitingFor(row, i, kind) \in TaskRow
<1>1. ReasonOf(kind) \in Reasons \cup {""}
  BY DEF Kinds, ReasonOf, Reasons
<1>2. "WAITING" \in TaskStates \cup {"NONE"}
  BY DEF TaskStates
<1>3. [row EXCEPT !.state = "WAITING", !.why = ReasonOf(kind)] \in TaskRow
  BY <1>1, <1>2 DEF TaskRow
<1>4. \A r \in TaskRow : [r EXCEPT !.ask = i, !.fresh = i] \in TaskRow
  BY DEF TaskRow
<1> QED
  BY <1>3, <1>4, Zenon DEF WaitingFor

\* What is reserved after a charge is a natural number no larger than before:
\* the arithmetic of attempt_transition never overdraws the reservation.
LEMMA ReserveArithmetic ==
  ASSUME NEW reserved \in Nat, NEW allocated \in Nat, NEW cost \in Nat
  PROVE  /\ AfterConsume(reserved, allocated, cost) \in Nat
         /\ AfterConsume(reserved, allocated, cost) <= reserved
         /\ AfterRelease(reserved, allocated, cost) \in Nat
         /\ AfterRelease(reserved, allocated, cost) <= reserved
BY DEF AfterConsume, AfterRelease, Lesser, Greater

LEMMA ChargedType ==
  ASSUME NEW row \in TaskRow, NEW allocated \in Nat, NEW to, NEW cost \in Nat
  PROVE  Charged(row, allocated, to, cost) \in TaskRow
<1> DEFINE left == AfterConsume(row.reserved, allocated, cost)
<1>1. row.reserved \in Nat /\ row.used \in Nat
  BY DEF TaskRow
<1>2. left \in Nat
  BY <1>1, ReserveArithmetic
<1>3. AfterRelease(left, allocated, cost) \in Nat
  BY <1>2, ReserveArithmetic
<1>4. row.used + cost \in Nat
  BY <1>1
<1> HIDE DEF left
<1>5. /\ [Cas(row) EXCEPT !.used = @ + cost, !.attempt = NoAttempt,
                          !.reserved = AfterRelease(left, allocated, cost)] \in TaskRow
      /\ [Cas(row) EXCEPT !.used = @ + cost, !.reserved = left] \in TaskRow
  BY <1>2, <1>3, <1>4 DEF Cas, TaskRow
<1>6. CASE to \in AttemptTerminal
  BY <1>5, <1>6, Zenon DEF Charged, left
<1>7. CASE to \notin AttemptTerminal
  BY <1>5, <1>7, Zenon DEF Charged, left
<1> QED
  BY <1>6, <1>7

LEMMA ToppedUpType ==
  ASSUME NEW row \in TaskRow, NEW amount \in Nat
  PROVE  ToppedUp(row, amount) \in TaskRow
<1>0. row.limit \in Nat \/ row.limit = Unlimited
  BY DEF TaskRow
<1>1. (IF row.limit = Unlimited THEN amount ELSE row.limit + amount) \in Nat \cup {Unlimited}
  BY <1>0
<1> QED
  BY ZenonT(40), <1>1 DEF ToppedUp, TaskRow

LEMMA AnsweredType ==
  ASSUME NEW row \in TaskRow
  PROVE  Answered(row) \in TaskRow
BY DEF Answered, Cas, TaskRow

LEMMA NewTaskType ==
  ASSUME NEW h \in Handover
  PROVE  NewTask(h) \in TaskRow
<1> DEFINE earlier == {u \in Tasks : Exists(u) /\ Project(task, u) = ProjectOf[h.session]}
<1>1. earlier \in SUBSET Tasks
  OBVIOUS
<1> HIDE DEF earlier
<1>2. NoRow \in TaskRow
  BY DEF NoRow, TaskRow, TaskStates
<1>3. [NoRow EXCEPT !.state = "RECEIVED", !.session = h.session, !.queued = h.busy] \in TaskRow
  BY <1>2 DEF TaskRow, Handover, TaskStates
<1>4. \A r \in TaskRow : [r EXCEPT !.limit = h.limit, !.ahead = earlier] \in TaskRow
  BY <1>1 DEF TaskRow, Handover
<1> QED
  BY <1>3, <1>4, Zenon DEF NewTask, earlier

\* A row that exists keeps its shape under a change of status.
LEMMA InterStatusType ==
  ASSUME NEW row \in InterRow, row.status # "NONE", NEW st \in InterStates
  PROVE  [row EXCEPT !.status = st] \in InterRow /\ row.task \in Tasks
<1>1. NoInterRow.status = "NONE"
  BY DEF NoInterRow
<1>2. row \in [status: InterStates, kind: Kinds, task: Tasks]
  BY <1>1 DEF InterRow
<1>3. [row EXCEPT !.status = st] \in [status: InterStates, kind: Kinds, task: Tasks]
  BY <1>2
<1> QED
  BY <1>2, <1>3 DEF InterRow

LEMMA AttemptStatusType ==
  ASSUME NEW row \in AttemptRow, row.status # "NONE", NEW st \in AttemptStates
  PROVE  /\ [row EXCEPT !.status = st] \in AttemptRow
         /\ row.task \in Tasks /\ row.allocated \in Nat
BY DEF AttemptRow, NoAttemptRow

LEMMA AskedType ==
  ASSUME NEW t \in Tasks, NEW kind \in Kinds
  PROVE  Asked(t, kind) \in InterRow
BY DEF Asked, InterRow, InterStates

\* A terminal transition keeps the types, given the tables it starts from.
LEMMA TerminateType ==
  ASSUME TypeOK,
         NEW ts \in [Tasks -> TaskRow], NEW is \in [Inters -> InterRow],
         NEW t, NEW outcome \in TaskStates,
         Terminate(ts, is, t, outcome)
  PROVE  /\ task' \in [Tasks -> TaskRow]
         /\ inter' \in [Inters -> InterRow]
         /\ sess' \in [Sessions -> SessionRow]
         /\ pending' \in [Tasks -> Nat]
<1> DEFINE s == ts[t].session
           closed == [ts EXCEPT ![t] = Closed(ts[t], outcome)]
           home == IF sess[s].active = t THEN [sess EXCEPT ![s] = UserDrives] ELSE sess
           oldest == NextQueued(closed, ProjectOf[s])
           startable == {u \in oldest : home[closed[u].session] = UserDrives}
<1>1. closed \in [Tasks -> TaskRow]
  BY ClosedType
<1>2. home \in [Sessions -> SessionRow]
  BY DEF TypeOK, SessionRow, UserDrives
<1>3. inter' \in [Inters -> InterRow]
  <2>1. inter' = Withdrawn(is, t)
    BY DEF Terminate
  <2>2. \A i \in Inters : is[i].status \in {"pending", "lapsed"} =>
          [is[i] EXCEPT !.status = "cancelled"] \in InterRow
    BY InterStatusType DEF InterStates, NoInterRow
  <2> QED
    BY <2>1, <2>2 DEF Withdrawn
<1>4. startable \subseteq Tasks
  BY DEF NextQueued, QueuedIn
<1>5. \/ task' = closed /\ sess' = home /\ pending' = pending
      \/ \E u \in startable :
           /\ task' = [closed EXCEPT ![u] = [Cas(@) EXCEPT !.queued = FALSE]]
           /\ sess' = [home EXCEPT ![closed[u].session] = [wheel |-> "advisor", active |-> u]]
           /\ pending' = [pending EXCEPT ![u] = @ + 1]
  BY DEF Terminate
<1> HIDE DEF closed, home, startable
<1>6. CASE task' = closed /\ sess' = home /\ pending' = pending
  BY <1>1, <1>2, <1>3, <1>6 DEF TypeOK
<1>7. ASSUME NEW u \in startable,
             task' = [closed EXCEPT ![u] = [Cas(@) EXCEPT !.queued = FALSE]],
             sess' = [home EXCEPT ![closed[u].session] = [wheel |-> "advisor", active |-> u]],
             pending' = [pending EXCEPT ![u] = @ + 1]
      PROVE  /\ task' \in [Tasks -> TaskRow]
             /\ sess' \in [Sessions -> SessionRow]
             /\ pending' \in [Tasks -> Nat]
  <2>1. u \in Tasks
    BY <1>4
  <2>2. Cas(closed[u]) \in TaskRow
    BY <1>1, <2>1, CasType
  <2>3. [Cas(closed[u]) EXCEPT !.queued = FALSE] \in TaskRow
    BY <2>2 DEF TaskRow
  <2>4. task' \in [Tasks -> TaskRow]
    BY <1>1, <1>7, <2>3, Zenon
  <2>5. [wheel |-> "advisor", active |-> u] \in SessionRow
    BY <2>1 DEF SessionRow
  <2>6. sess' \in [Sessions -> SessionRow]
    BY <1>2, <1>7, <2>5, Zenon
  <2>7. pending \in [Tasks -> Nat] /\ pending[u] + 1 \in Nat
    BY <2>1 DEF TypeOK
  <2>8. pending' \in [Tasks -> Nat]
    BY <1>7, <2>7
  <2> QED
    BY <2>4, <2>6, <2>8
<1> QED
  BY <1>3, <1>5, <1>6, <1>7

-----------------------------------------------------------------------------
(* Type correctness, one lemma per action of Next. *)

\* TypeOK of the tables an action leaves alone.
LEMMA HandoverReadType ==
  ASSUME TypeOK, NEW t \in Tasks, NEW s \in Sessions, NEW limit \in Limits,
         HandoverRead(t, s, limit)
  PROVE  TypeOK'
<1>1. [task |-> t, session |-> s, busy |-> ActiveIn(task, ProjectOf[s]) # {}, limit |-> limit]
        \in Handover
  BY LedgerAssumption DEF Handover
<1>2. handing' \in [Projects -> Handover]
  BY <1>1, Zenon DEF HandoverRead, TypeOK
<1> QED
  BY <1>2, Zenon DEF HandoverRead, TypeOK

LEMMA HandoverCommitType ==
  ASSUME TypeOK, NEW p \in Projects, HandoverCommit(p)
  PROVE  TypeOK'
<1> DEFINE h == handing[p]
<1>1. h \in Handover
  BY DEF TypeOK
<1>2. NewTask(h) \in TaskRow
  BY <1>1, NewTaskType
<1>3. [wheel |-> "advisor", active |-> h.task] \in SessionRow
  BY <1>1 DEF Handover, SessionRow
<1>4. NoHandover \in Handover
  BY DEF NoHandover, Handover
<1>5. handing' \in [Projects -> Handover]
  BY <1>4, Zenon DEF HandoverCommit, TypeOK
<1>6. task' \in [Tasks -> TaskRow]
  BY <1>2, Zenon DEF HandoverCommit, TypeOK
<1>7. sess' \in [Sessions -> SessionRow]
  BY <1>3, Zenon DEF HandoverCommit, TypeOK
<1> QED
  BY <1>5, <1>6, <1>7, Zenon DEF HandoverCommit, TypeOK

LEMMA TransitionType ==
  ASSUME TypeOK, NEW t \in Tasks, NEW to \in TaskStates, NEW why \in Reasons \cup {""},
         Transition(t, to, why)
  PROVE  TypeOK'
<1>1. task \in [Tasks -> TaskRow] /\ inter \in [Inters -> InterRow]
  BY DEF TypeOK
<1>2. CASE Terminate(task, inter, t, to)
  BY <1>1, <1>2, TerminateType, Zenon DEF Transition, TypeOK
<1>3. CASE /\ task' = [task EXCEPT ![t] = MovedTo(@, to, why)]
           /\ UNCHANGED <<inter, sess, pending>>
  <2>1. task' \in [Tasks -> TaskRow]
    BY <1>1, <1>3, MovedToType, Zenon
  <2> QED
    BY <1>3, <2>1, Zenon DEF Transition, TypeOK
<1> QED
  BY <1>2, <1>3, Zenon DEF Transition

LEMMA ResumeEnvironmentType ==
  ASSUME TypeOK, NEW t \in Tasks, ResumeEnvironment(t)
  PROVE  TypeOK'
<1>1. "QUEUED" \in TaskStates /\ "" \in Reasons \cup {""}
  BY DEF TaskStates
<1>2. task' \in [Tasks -> TaskRow]
  BY <1>1, MovedToType, Zenon DEF ResumeEnvironment, TypeOK
<1>3. pending \in [Tasks -> Nat] /\ pending[t] + 1 \in Nat
  BY DEF TypeOK
<1>4. pending' \in [Tasks -> Nat]
  BY <1>3, Zenon DEF ResumeEnvironment
<1> QED
  BY <1>2, <1>4, Zenon DEF ResumeEnvironment, TypeOK

LEMMA RequestCancelType ==
  ASSUME TypeOK, NEW t \in Tasks, RequestCancel(t)
  PROVE  TypeOK'
<1> DEFINE wished == [task EXCEPT ![t] = [Cas(@) EXCEPT !.cancel = TRUE]]
<1>1. task \in [Tasks -> TaskRow] /\ inter \in [Inters -> InterRow]
  BY DEF TypeOK
<1>2. Cas(task[t]) \in TaskRow
  BY <1>1, CasType
<1>3. [Cas(task[t]) EXCEPT !.cancel = TRUE] \in TaskRow
  BY <1>2 DEF TaskRow
<1>4. wished \in [Tasks -> TaskRow]
  BY <1>1, <1>3, Zenon
<1>5. "CANCELLED" \in TaskStates
  BY DEF TaskStates, Terminal
<1>6. \/ task' = wished /\ UNCHANGED <<inter, sess, pending>>
      \/ Terminate(wished, inter, t, "CANCELLED")
  BY Zenon DEF RequestCancel
<1> HIDE DEF wished
<1>7. CASE task' = wished /\ UNCHANGED <<inter, sess, pending>>
  BY <1>4, <1>7, Zenon DEF RequestCancel, TypeOK
<1>8. CASE Terminate(wished, inter, t, "CANCELLED")
  BY <1>1, <1>4, <1>5, <1>8, TerminateType, Zenon DEF RequestCancel, TypeOK
<1> QED
  BY <1>6, <1>7, <1>8

LEMMA OpenAttemptType ==
  ASSUME TypeOK, NEW t \in Tasks, NEW a \in Attempts, NEW r \in Nat, OpenAttempt(t, a, r)
  PROVE  TypeOK'
<1> DEFINE row == [Cas(task[t]) EXCEPT !.attempt = a, !.reserved = task[t].reserved + r]
<1>1. task[t] \in TaskRow /\ Cas(task[t]) \in TaskRow
  BY CasType DEF TypeOK
<1>2. task[t].reserved \in Nat
  BY <1>1 DEF TaskRow
<1>3. task[t].reserved + r \in Nat
  BY <1>2
<1>4. row \in TaskRow
  <2>1. \A n \in Nat : [Cas(task[t]) EXCEPT !.attempt = a, !.reserved = n] \in TaskRow
    BY <1>1 DEF TaskRow
  <2> QED
    BY <1>3, <2>1, Zenon
<1>5. task' = [task EXCEPT ![t] =
        IF task[t].state = "QUEUED" THEN MovedTo(row, "RUNNING", "") ELSE row]
  BY Zenon DEF OpenAttempt
<1> HIDE DEF row
<1>6. MovedTo(row, "RUNNING", "") \in TaskRow
  BY <1>4, MovedToType DEF TaskStates
<1>7. task' \in [Tasks -> TaskRow]
  BY <1>4, <1>5, <1>6, Zenon DEF TypeOK
<1>8. [status |-> "CREATED", task |-> t, allocated |-> r] \in AttemptRow
  BY DEF AttemptRow, AttemptStates
<1>9. attempt' \in [Attempts -> AttemptRow]
  BY <1>8, Zenon DEF OpenAttempt, TypeOK
<1> QED
  BY <1>7, <1>9, Zenon DEF OpenAttempt, TypeOK

LEMMA AttemptTransitionType ==
  ASSUME TypeOK, NEW a \in Attempts, NEW to \in AttemptStates, NEW cost \in Nat,
         NEW i \in Inters \cup {NoInter}, AttemptTransition(a, to, cost, i)
  PROVE  TypeOK'
<1> DEFINE t == attempt[a].task
           charged == Charged(task[t], attempt[a].allocated, to, cost)
<1>1. attempt[a] \in AttemptRow
  BY DEF TypeOK
<1>2. attempt[a].status # "NONE"
  BY DEF AttemptTransition, CanMoveAttempt, AttemptMoves
<1>3. [attempt[a] EXCEPT !.status = to] \in AttemptRow /\ t \in Tasks /\ attempt[a].allocated \in Nat
  BY <1>1, <1>2, AttemptStatusType
<1>4. attempt' \in [Attempts -> AttemptRow]
  BY <1>3, Zenon DEF AttemptTransition, TypeOK
<1>5. /\ task' = [task EXCEPT ![t] = WaitingFor(charged, i, "resource")]
         \/ task' = [task EXCEPT ![t] = charged]
      /\ inter' = [inter EXCEPT ![i] = Asked(t, "resource")] \/ inter' = inter
  BY Zenon DEF AttemptTransition
<1>6. charged \in TaskRow
  BY <1>3, ChargedType DEF TypeOK
<1> HIDE DEF t, charged
<1>7. WaitingFor(charged, i, "resource") \in TaskRow
  BY <1>6, WaitingForType DEF Kinds
<1>8. task' \in [Tasks -> TaskRow]
  BY <1>5, <1>6, <1>7, Zenon DEF TypeOK
<1>9. inter' \in [Inters -> InterRow]
  <2>1. Asked(t, "resource") \in InterRow
    BY <1>3, AskedType DEF Kinds
  <2> QED
    BY <1>5, <2>1, Zenon DEF TypeOK
<1> QED
  BY <1>4, <1>8, <1>9, Zenon DEF AttemptTransition, TypeOK

LEMMA OpenInteractionType ==
  ASSUME TypeOK, NEW t \in Tasks, NEW i \in Inters, NEW kind \in Kinds,
         OpenInteraction(t, i, kind)
  PROVE  TypeOK'
<1>1. Asked(t, kind) \in InterRow
  BY AskedType
<1>2. inter' \in [Inters -> InterRow]
  BY <1>1, Zenon DEF OpenInteraction, TypeOK
<1>3. task' \in [Tasks -> TaskRow]
  BY WaitingForType, Zenon DEF OpenInteraction, TypeOK
<1> QED
  BY <1>2, <1>3, Zenon DEF OpenInteraction, TypeOK

LEMMA RespondType ==
  ASSUME TypeOK, NEW i \in Inters, NEW decision, NEW amount \in Nat,
         Respond(i, decision, amount)
  PROVE  TypeOK'
<1> DEFINE t == inter[i].task
           row == IF decision = "topup" THEN ToppedUp(task[t], amount) ELSE task[t]
           answered == [task EXCEPT ![t] = Answered(row)]
<1>1. t \in Tasks => Answered(row) \in TaskRow
  BY AnsweredType, ToppedUpType, Zenon DEF TypeOK
<1>2. answered \in [Tasks -> TaskRow]
  BY <1>1, Zenon DEF TypeOK
<1>3. [inter[i] EXCEPT !.status = "consumed"] \in InterRow
  BY InterStatusType DEF Respond, Answerable, TypeOK, InterStates
<1>4. Consumed(i) \in [Inters -> InterRow]
  BY <1>3, Zenon DEF Consumed, TypeOK
<1>5. "FAILED" \in TaskStates /\ "QUEUED" \in TaskStates
  BY DEF TaskStates, Terminal
<1>6. \/ Terminate(answered, Consumed(i), t, "FAILED")
      \/ /\ task' = [answered EXCEPT ![t] = MovedTo(@, "QUEUED", "")]
         /\ inter' = Consumed(i)
         /\ UNCHANGED <<sess, pending>>
  BY Zenon DEF Respond
<1> HIDE DEF answered, t
<1>7. CASE Terminate(answered, Consumed(i), t, "FAILED")
  BY <1>2, <1>4, <1>5, <1>7, TerminateType, Zenon DEF Respond, TypeOK
<1>8. CASE /\ task' = [answered EXCEPT ![t] = MovedTo(@, "QUEUED", "")]
           /\ inter' = Consumed(i)
           /\ UNCHANGED <<sess, pending>>
  <2>1. \A r \in TaskRow : MovedTo(r, "QUEUED", "") \in TaskRow
    BY <1>5, MovedToType
  <2>2. task' \in [Tasks -> TaskRow]
    BY <1>2, <1>8, <2>1, Zenon
  <2> QED
    BY <1>4, <1>8, <2>2, Zenon DEF Respond, TypeOK
<1> QED
  BY <1>6, <1>7, <1>8

LEMMA LapseType ==
  ASSUME TypeOK, NEW i \in Inters, Lapse(i)
  PROVE  TypeOK'
<1>1. [inter[i] EXCEPT !.status = "lapsed"] \in InterRow
  BY InterStatusType DEF Lapse, TypeOK, InterStates
<1> QED
  BY <1>1, Zenon DEF Lapse, TypeOK

LEMMA TakeOverType ==
  ASSUME TypeOK, NEW idle \in SUBSET Tasks, TakeOver(idle)
  PROVE  TypeOK'
<1>1. \A i \in Inters : inter[i].status # "NONE" =>
        [inter[i] EXCEPT !.status = "expired"] \in InterRow
  BY InterStatusType DEF TypeOK, InterStates
<1>2. inter' \in [Inters -> InterRow]
  BY <1>1 DEF TakeOver, TypeOK
<1>3. pending' \in [Tasks -> Nat]
  BY DEF TakeOver, TypeOK
<1> QED
  BY <1>2, <1>3, Zenon DEF TakeOver, TypeOK

LEMMA SurroundingsType ==
  /\ \A p \in Projects : TypeOK /\ SetOnline(p) => TypeOK'
  /\ \A t \in Tasks : TypeOK /\ (TakeDrive(t) \/ EnqueueDrive(t) \/ Touch(t)) => TypeOK'
<1>1. ASSUME NEW p \in Projects, TypeOK, SetOnline(p)
      PROVE  TypeOK'
  BY <1>1 DEF SetOnline, TypeOK
<1>2. ASSUME NEW t \in Tasks, TypeOK, TakeDrive(t)
      PROVE  TypeOK'
  <2>1. pending \in [Tasks -> Nat] /\ pending[t] > 0
    BY <1>2 DEF TakeDrive, TypeOK
  <2>2. pending[t] - 1 \in Nat
    BY <2>1
  <2>3. pending' \in [Tasks -> Nat]
    BY <1>2, <2>1, <2>2, Zenon DEF TakeDrive
  <2> QED
    BY <1>2, <2>3, Zenon DEF TakeDrive, TypeOK
<1>3. ASSUME NEW t \in Tasks, TypeOK, EnqueueDrive(t)
      PROVE  TypeOK'
  <2>1. pending \in [Tasks -> Nat] /\ pending[t] + 1 \in Nat
    BY <1>3 DEF TypeOK
  <2>2. pending' \in [Tasks -> Nat]
    BY <1>3, <2>1, Zenon DEF EnqueueDrive
  <2> QED
    BY <1>3, <2>2, Zenon DEF EnqueueDrive, TypeOK
<1>4. ASSUME NEW t \in Tasks, TypeOK, Touch(t)
      PROVE  TypeOK'
  <2>1. Cas(task[t]) \in TaskRow
    BY <1>4, CasType DEF TypeOK
  <2> QED
    BY <1>4, <2>1, Zenon DEF Touch, TypeOK
<1> QED
  BY <1>1, <1>2, <1>3, <1>4

LEMMA InitType == Init => TypeOK
<1>1. NoRow \in TaskRow
  BY DEF NoRow, TaskRow
<1>2. NoAttemptRow \in AttemptRow /\ NoInterRow \in InterRow
  BY DEF NoAttemptRow, AttemptRow, NoInterRow, InterRow
<1>3. UserDrives \in SessionRow /\ NoHandover \in Handover
  BY DEF UserDrives, SessionRow, NoHandover, Handover
<1> QED
  BY <1>1, <1>2, <1>3 DEF Init, TypeOK

LEMMA StepType == TypeOK /\ [Next]_ledgerVars => TypeOK'
<1> SUFFICES ASSUME TypeOK, [Next]_ledgerVars PROVE TypeOK'
  OBVIOUS
<1>1. ASSUME NEW t \in Tasks, NEW s \in Sessions, NEW limit \in Limits, HandoverRead(t, s, limit)
      PROVE  TypeOK'
  BY <1>1, HandoverReadType
<1>2. ASSUME NEW p \in Projects, HandoverCommit(p) \/ SetOnline(p)
      PROVE  TypeOK'
  BY <1>2, HandoverCommitType, SurroundingsType
<1>3. ASSUME NEW t \in Tasks, NEW to \in TaskStates, DriverMove(t, to)
      PROVE  TypeOK'
  BY <1>3, TransitionType DEF DriverMove
<1>4. ASSUME NEW t \in Tasks, EnvironmentLost(t) \/ ResumeEnvironment(t)
      PROVE  TypeOK'
  BY <1>4, TransitionType, ResumeEnvironmentType DEF EnvironmentLost, TaskStates, Reasons
<1>5. ASSUME NEW t \in Tasks, RequestCancel(t) \/ TakeDrive(t) \/ EnqueueDrive(t) \/ Touch(t)
      PROVE  TypeOK'
  BY <1>5, RequestCancelType, SurroundingsType
<1>6. ASSUME NEW t \in Tasks, NEW a \in Attempts, NEW r \in Reserves, DriverOpensAttempt(t, a, r)
      PROVE  TypeOK'
  BY <1>6, OpenAttemptType, LedgerAssumption DEF DriverOpensAttempt
<1>7. ASSUME NEW a \in Attempts, NEW to \in AttemptStates, NEW c \in Costs \cup {0},
             NEW i \in Inters \cup {NoInter}, AttemptMove(a, to, c, i)
      PROVE  TypeOK'
  BY <1>7, AttemptTransitionType, LedgerAssumption DEF AttemptMove
<1>8. ASSUME NEW t \in Tasks, NEW i \in Inters, NEW kind \in Kinds, DriverOrTurnAsks(t, i, kind)
      PROVE  TypeOK'
  BY <1>8, OpenInteractionType DEF DriverOrTurnAsks
<1>9. ASSUME NEW i \in Inters, NEW d, NEW amount \in TopUps \cup {0}, Respond(i, d, amount)
      PROVE  TypeOK'
  BY <1>9, RespondType, LedgerAssumption
<1>10. ASSUME NEW i \in Inters, Lapse(i)
       PROVE  TypeOK'
  BY <1>10, LapseType
<1>11. ASSUME NEW idle \in SUBSET Drivable, TakeOver(idle)
       PROVE  TypeOK'
  <2>1. idle \in SUBSET Tasks
    BY DEF Drivable
  <2> QED
    BY <1>11, <2>1, TakeOverType
<1>12. CASE UNCHANGED ledgerVars
  BY <1>12 DEF ledgerVars, TypeOK
<1> QED
  BY <1>1, <1>2, <1>3, <1>4, <1>5, <1>6, <1>7, <1>8, <1>9, <1>10, <1>11, <1>12 DEF Next

\* Every row of every table keeps its shape; in particular no charge, release
\* or top-up drives a budget below zero, whatever the turns cost.
THEOREM TypeCorrect == Spec => []TypeOK
<1> QED
  BY InitType, StepType, PTL DEF Spec

-----------------------------------------------------------------------------
(* The wheel and the tasks agree. *)

\* What an action may do to the rows without touching the wheel: no task starts,
\* ends, changes session or leaves the line.
Quiet ==
  /\ sess' = sess /\ handing' = handing
  /\ \A u \in Tasks :
       /\ task'[u].session = task[u].session /\ task'[u].queued = task[u].queued
       /\ Exists(u)' <=> Exists(u)
       /\ Live(u)' <=> Live(u)
       /\ task[u].queued => task'[u].state = task[u].state

LEMMA QuietKeepsWheel ==
  ASSUME WheelInv, Quiet
  PROVE  WheelInv'
<1>1. WheelMatchesTask'
  BY DEF WheelInv, WheelMatchesTask, Quiet, UserDrives
<1>2. RowsInLine'
  BY DEF WheelInv, RowsInLine, Quiet
<1>3. HandoverHoldsRows'
  BY DEF WheelInv, HandoverHoldsRows, Quiet
<1>4. ASSUME NEW p \in Projects
      PROVE  UniqueActive(task', p)
  <2>1. \A u \in Tasks : u \in ActiveIn(task', p) => u \in ActiveIn(task, p)
    BY DEF ActiveIn, Project, Quiet, Live, WheelInv, RowsInLine, Exists
  <2>2. UniqueActive(task, p)
    BY DEF WheelInv
  <2> QED
    BY <2>1, <2>2 DEF UniqueActive, ActiveIn
<1> QED
  BY <1>1, <1>2, <1>3, <1>4 DEF WheelInv

\* An action that rewrites one row is quiet if that row keeps its standing.
LEMMA OneRowIsQuiet ==
  ASSUME WheelInv, sess' = sess, handing' = handing, NEW t, NEW row,
         task \in [Tasks -> TaskRow],
         task' = [task EXCEPT ![t] = row],
         t \in Tasks =>
           /\ row.session = task[t].session /\ row.queued = task[t].queued
           /\ \/ row.state = task[t].state
              \/ /\ ~task[t].queued /\ Live(t)
                 /\ row.state \in TaskStates \ Terminal
  PROVE  Quiet
BY DEF Quiet, Exists, Live, TaskStates, Terminal

\* What the row operators do to the columns the wheel depends on.
LEMMA RowFields ==
  ASSUME NEW row \in TaskRow
  PROVE  /\ \A to, why : /\ MovedTo(row, to, why).state = to
                         /\ MovedTo(row, to, why).session = row.session
                         /\ MovedTo(row, to, why).queued = row.queued
                         /\ MovedTo(row, to, why).ask = row.ask
         /\ \A outcome : /\ Closed(row, outcome).state = outcome
                         /\ Closed(row, outcome).session = row.session
                         /\ Closed(row, outcome).queued = row.queued
         /\ \A i, kind : /\ WaitingFor(row, i, kind).state = "WAITING"
                         /\ WaitingFor(row, i, kind).session = row.session
                         /\ WaitingFor(row, i, kind).queued = row.queued
                         /\ WaitingFor(row, i, kind).ask = i
         /\ /\ Answered(row).state = row.state
            /\ Answered(row).session = row.session
            /\ Answered(row).queued = row.queued
         /\ \A n : /\ ToppedUp(row, n).state = row.state
                   /\ ToppedUp(row, n).session = row.session
                   /\ ToppedUp(row, n).queued = row.queued
         /\ /\ Cas(row).state = row.state
            /\ Cas(row).session = row.session
            /\ Cas(row).queued = row.queued
            /\ Cas(row).ask = row.ask
BY DEF MovedTo, Closed, WaitingFor, Answered, ToppedUp, Cas, TaskRow

LEMMA MovedToFields ==
  ASSUME NEW row \in TaskRow, NEW to, NEW why
  PROVE  /\ MovedTo(row, to, why).state = to
         /\ MovedTo(row, to, why).session = row.session
         /\ MovedTo(row, to, why).queued = row.queued
BY RowFields

LEMMA QueuedFields ==
  ASSUME NEW row \in TaskRow
  PROVE  LET new == MovedTo(row, "QUEUED", "") IN
         new.state = "QUEUED" /\ new.session = row.session /\ new.queued = row.queued
BY DEF MovedTo, Cas, TaskRow

LEMMA WaitingForFields ==
  ASSUME NEW row \in TaskRow, NEW i, NEW kind
  PROVE  /\ WaitingFor(row, i, kind).state = "WAITING"
         /\ WaitingFor(row, i, kind).session = row.session
         /\ WaitingFor(row, i, kind).queued = row.queued
BY RowFields

LEMMA ChargedFields ==
  ASSUME NEW row \in TaskRow, NEW allocated, NEW to, NEW cost
  PROVE  /\ Charged(row, allocated, to, cost).state = row.state
         /\ Charged(row, allocated, to, cost).session = row.session
         /\ Charged(row, allocated, to, cost).queued = row.queued
         /\ Charged(row, allocated, to, cost).ask = row.ask
<1>1. \A x, y : LET r == [Cas(row) EXCEPT !.used = x, !.attempt = NoAttempt, !.reserved = y] IN
        r.state = row.state /\ r.session = row.session /\ r.queued = row.queued /\ r.ask = row.ask
  BY DEF Cas, TaskRow
<1>2. \A x, y : LET r == [Cas(row) EXCEPT !.used = x, !.reserved = y] IN
        r.state = row.state /\ r.session = row.session /\ r.queued = row.queued /\ r.ask = row.ask
  BY DEF Cas, TaskRow
<1> QED
  BY <1>1, <1>2, Zenon DEF Charged

LEMMA MovesAreLive ==
  ASSUME NEW from, NEW to, CanMove(from, to)
  PROVE  /\ from \in TaskStates \ Terminal /\ to \in TaskStates
         /\ to \notin Terminal => from # "RECEIVED" \/ to = "VALIDATING"
BY DEF CanMove, TaskMoves, TaskStates, Terminal

\* A terminal transition hands the wheel back and starts at most the next task
\* of the same project, never one whose session is busy or locked.
LEMMA TerminateKeepsWheel ==
  ASSUME TypeOK, WheelInv,
         NEW ts \in [Tasks -> TaskRow], NEW is, NEW t \in Tasks, NEW outcome \in Terminal,
         \A u \in Tasks : /\ ts[u].state = task[u].state
                          /\ ts[u].session = task[u].session
                          /\ ts[u].queued = task[u].queued,
         Live(t), Terminate(ts, is, t, outcome), handing' = handing
  PROVE  WheelInv'
<1> DEFINE s == ts[t].session
           p == ProjectOf[s]
           closed == [ts EXCEPT ![t] = Closed(ts[t], outcome)]
           home == IF sess[s].active = t THEN [sess EXCEPT ![s] = UserDrives] ELSE sess
           oldest == NextQueued(closed, p)
           startable == {u \in oldest : home[closed[u].session] = UserDrives}
           WheelOf(ss) ==
             /\ \A x \in Sessions :
                  \/ ss[x] = UserDrives
                  \/ /\ ss[x].wheel = "advisor" /\ ss[x].active \in Tasks \ {t}
                     /\ LET u == ss[x].active IN
                        Live(u) /\ ~task[u].queued /\ task[u].session = x
             /\ \A u \in Tasks \ {t} : Live(u) /\ ~task[u].queued => ss[task[u].session].active = u
<1>1. /\ closed \in [Tasks -> TaskRow]
      /\ closed[t].state = outcome
      /\ \A u \in Tasks : /\ closed[u].session = task[u].session
                          /\ closed[u].queued = task[u].queued
                          /\ u # t => closed[u].state = task[u].state
  <2>1. closed \in [Tasks -> TaskRow]
    BY ClosedType DEF TaskStates, Terminal
  <2> QED
    BY <2>1, RowFields
<1>2. s \in Sessions /\ s = task[t].session
  BY DEF WheelInv, RowsInLine, Live, Exists, TaskStates, Terminal
<1>3. /\ sess \in [Sessions -> SessionRow] /\ home \in [Sessions -> SessionRow]
      /\ \A x \in Sessions : home[x] = sess[x] \/ (x = s /\ home[x] = UserDrives)
      /\ sess[s].active = t => home[s] = UserDrives
      /\ sess[s].active # t => home = sess
  BY <1>2 DEF TypeOK, SessionRow, UserDrives
<1>4. WheelOf(home)
  BY <1>2, <1>3, LedgerAssumption DEF WheelInv, WheelMatchesTask, UserDrives, SessionRow
<1>5. /\ ~Locked(s)
      /\ \A u \in oldest : ~Locked(closed[u].session)
      /\ \/ task' = closed /\ sess' = home
         \/ \E u \in startable :
              /\ task' = [closed EXCEPT ![u] = [Cas(@) EXCEPT !.queued = FALSE]]
              /\ UniqueActive(task', p)
              /\ sess' = [home EXCEPT ![closed[u].session] = [wheel |-> "advisor", active |-> u]]
  BY Zenon DEF Terminate
<1>6. \A u \in oldest : /\ u \in Tasks \ {t} /\ task[u].state = "RECEIVED" /\ task[u].queued
                        /\ ProjectOf[task[u].session] = p
                        /\ task[u].session \in Sessions
  <2> SUFFICES ASSUME NEW u \in oldest
               PROVE  /\ u \in Tasks \ {t} /\ task[u].state = "RECEIVED" /\ task[u].queued
                      /\ ProjectOf[task[u].session] = p
                      /\ task[u].session \in Sessions
    OBVIOUS
  <2>1. u \in Tasks /\ closed[u].state = "RECEIVED" /\ closed[u].queued
        /\ ProjectOf[closed[u].session] = p
    BY DEF NextQueued, QueuedIn, Project
  <2> QED
    BY <1>1, <2>1 DEF Terminal, WheelInv, RowsInLine, Exists
<1>7. \A q \in Projects : handing[q] # NoHandover =>
        handing[q].session # s /\ \A u \in oldest : handing[q].session # task[u].session
  <2>1. ASSUME NEW q \in Projects, handing[q] # NoHandover
        PROVE  Locked(handing[q].session)
    BY <2>1 DEF WheelInv, HandoverHoldsRows, Locked
  <2> HIDE DEF s, oldest, closed
  <2> QED
    BY <1>1, <1>5, <1>6, <2>1
<1> HIDE DEF closed, home, oldest, s, p
<1>8. CASE task' = closed /\ sess' = home
  <2>1. \A u \in Tasks : /\ task'[u].session = task[u].session /\ task'[u].queued = task[u].queued
                         /\ u # t => task'[u].state = task[u].state
                         /\ Live(u)' <=> (u # t /\ Live(u))
                         /\ Exists(u)' <=> Exists(u)
    BY <1>1, <1>8 DEF Live, Exists, Terminal, TaskStates
  <2>2. WheelMatchesTask'
    BY <1>4, <1>8, <2>1 DEF WheelMatchesTask, UserDrives
  <2>3. RowsInLine'
    BY <2>1 DEF WheelInv, RowsInLine
  <2>4. HandoverHoldsRows'
    BY <1>3, <1>7, <1>8, <2>1 DEF WheelInv, HandoverHoldsRows
  <2>5. ASSUME NEW q \in Projects PROVE UniqueActive(task', q)
    <3>1. \A u \in Tasks : u \in ActiveIn(task', q) => u \in ActiveIn(task, q)
      BY <2>1 DEF ActiveIn, Project, Live
    <3> QED
      BY <3>1 DEF WheelInv, UniqueActive, ActiveIn
  <2> QED
    BY <2>2, <2>3, <2>4, <2>5 DEF WheelInv
<1>9. ASSUME NEW v \in startable,
             task' = [closed EXCEPT ![v] = [Cas(@) EXCEPT !.queued = FALSE]],
             UniqueActive(task', p),
             sess' = [home EXCEPT ![closed[v].session] = [wheel |-> "advisor", active |-> v]]
      PROVE  WheelInv'
  <2> DEFINE x == task[v].session
  <2>1. /\ v \in oldest /\ v \in Tasks /\ v # t /\ task[v].state = "RECEIVED" /\ task[v].queued
        /\ ProjectOf[x] = p /\ x \in Sessions /\ closed[v].session = x /\ home[x] = UserDrives
    BY <1>1, <1>6
  <2>2. /\ task'[v].state = "RECEIVED" /\ task'[v].session = x /\ ~task'[v].queued
        /\ \A u \in Tasks \ {v} : task'[u] = closed[u]
    <3>1. Cas(closed[v]) \in TaskRow /\ Cas(closed[v]).state = closed[v].state
          /\ Cas(closed[v]).session = closed[v].session
      BY <1>1, <2>1, RowFields, CasType
    <3>2. LET r == [Cas(closed[v]) EXCEPT !.queued = FALSE] IN
          /\ r.state = closed[v].state /\ r.session = closed[v].session /\ ~r.queued
      BY <3>1 DEF TaskRow
    <3> QED
      BY <1>1, <1>9, <2>1, <3>2
  <2>3. /\ sess'[x] = [wheel |-> "advisor", active |-> v]
        /\ \A y \in Sessions \ {x} : sess'[y] = home[y]
    BY <1>3, <1>9, <2>1
  <2>4. \A u \in Tasks : /\ task'[u].session = task[u].session
                         /\ u # v => task'[u].queued = task[u].queued
                         /\ u # t => task'[u].state = task[u].state
                         /\ Live(u)' <=> (u # t /\ Live(u))
                         /\ Exists(u)' <=> Exists(u)
    BY <1>1, <2>1, <2>2 DEF Live, Exists, Terminal, TaskStates
  <2>5. Live(v)
    BY <2>1 DEF Live, TaskStates, Terminal
  <2> HIDE DEF x
  <2>6. WheelMatchesTask'
    <3>1. ASSUME NEW y \in Sessions, sess'[y] # UserDrives
          PROVE  /\ sess'[y].wheel = "advisor"
                 /\ \E u \in Tasks : /\ sess'[y].active = u
                                     /\ Live(u)' /\ ~task'[u].queued /\ task'[u].session = y
      <4>1. CASE y = x
        <5>1. sess'[y].wheel = "advisor" /\ sess'[y].active = v
          BY <2>3, <4>1
        <5> QED
          BY <2>1, <2>2, <2>4, <2>5, <4>1, <5>1
      <4>2. CASE y # x
        <5>1. sess'[y] = home[y]
          BY <2>3, <4>2
        <5>2. PICK u \in Tasks \ {t} : /\ home[y].wheel = "advisor" /\ home[y].active = u
                                      /\ Live(u) /\ ~task[u].queued /\ task[u].session = y
          BY <1>4, <3>1, <5>1
        <5>3. u # v
          BY <2>1, <5>2
        <5> QED
          BY <2>4, <5>1, <5>2, <5>3
      <4> QED
        BY <4>1, <4>2
    <3>2. ASSUME NEW u \in Tasks, Live(u)', ~task'[u].queued
          PROVE  sess'[task'[u].session].active = u
      <4>1. CASE u = v
        BY <2>2, <2>3, <4>1
      <4>2. CASE u # v
        <5>1. u # t /\ Live(u) /\ ~task[u].queued
          BY <2>4, <3>2, <4>2
        <5>2. home[task[u].session].active = u
          BY <1>4, <5>1
        <5>3. task[u].session # x /\ task[u].session \in Sessions
          BY <2>1, <5>1, <5>2, LedgerAssumption
          DEF UserDrives, WheelInv, RowsInLine, Live, Exists, TaskStates
        <5> QED
          BY <2>3, <2>4, <5>2, <5>3
      <4> QED
        BY <4>1, <4>2
    <3> QED
      BY <3>1, <3>2 DEF WheelMatchesTask, UserDrives
  <2>7. RowsInLine'
    BY <2>2, <2>4 DEF WheelInv, RowsInLine
  <2>8. HandoverHoldsRows'
    BY <1>3, <1>7, <2>1, <2>3, <2>4 DEF WheelInv, HandoverHoldsRows, x
  <2>9. ASSUME NEW q \in Projects PROVE UniqueActive(task', q)
    <3>1. CASE q = p
      BY <1>9, <3>1
    <3>2. CASE q # p
      <4>1. \A u \in Tasks : u \in ActiveIn(task', q) => u \in ActiveIn(task, q)
        BY <2>1, <2>4, <3>2 DEF ActiveIn, Project, Live, x
      <4> QED
        BY <4>1 DEF WheelInv, UniqueActive, ActiveIn
    <3> QED
      BY <3>1, <3>2
  <2> QED
    BY <2>6, <2>7, <2>8, <2>9 DEF WheelInv
<1> QED
  BY <1>5, <1>8, <1>9

\* A handover takes its locks on an idle session and an unused identifier.
LEMMA HandoverReadKeepsWheel ==
  ASSUME TypeOK, WheelInv, NEW t \in Tasks, NEW s \in Sessions, NEW limit \in Limits,
         HandoverRead(t, s, limit)
  PROVE  WheelInv'
<1> DEFINE p == ProjectOf[s]
           row == [task |-> t, session |-> s, busy |-> ActiveIn(task, p) # {}, limit |-> limit]
<1>1. p \in Projects
  BY LedgerAssumption
<1>2. /\ task' = task /\ sess' = sess /\ sess[s] = UserDrives /\ ~Exists(t)
      /\ \A q \in Projects : handing[q].task # t
      /\ handing' = [handing EXCEPT ![p] = row]
  BY DEF HandoverRead
<1>3. row.task = t /\ row.session = s
  OBVIOUS
<1> HIDE DEF p, row
<1>4. /\ handing'[p] = row
      /\ \A q \in Projects \ {p} : handing'[q] = handing[q]
  BY <1>1, <1>2 DEF TypeOK
<1>5. HandoverHoldsRows'
  BY <1>1, <1>2, <1>3, <1>4 DEF WheelInv, HandoverHoldsRows, Exists, p
<1>6. WheelMatchesTask' /\ RowsInLine' /\ \A q \in Projects : UniqueActive(task', q)
  BY <1>2 DEF WheelInv, WheelMatchesTask, RowsInLine, Exists, Live
<1> QED
  BY <1>5, <1>6 DEF WheelInv

\* The row a handover inserts is received, in its session, and in line exactly
\* when the handover found the session busy (ledger.py:129-165).
LEMMA NewTaskRow ==
  ASSUME NEW h
  PROVE  /\ NewTask(h).state = "RECEIVED"
         /\ NewTask(h).session = h.session
         /\ NewTask(h).queued = h.busy
<1> DEFINE before == {u \in Tasks : Exists(u) /\ Project(task, u) = ProjectOf[h.session]}
<1>1. NewTask(h) = [NoRow EXCEPT !.state = "RECEIVED", !.session = h.session, !.queued = h.busy,
                                 !.limit = h.limit, !.ahead = before]
  BY Zenon DEF NewTask
<1> HIDE DEF before
<1> QED
  BY <1>1 DEF NoRow

\* The insert is refused, or the new task drives its idle session, or it is in
\* line and drives nothing.
LEMMA HandoverCommitKeepsWheel ==
  ASSUME TypeOK, WheelInv, NEW p \in Projects, HandoverCommit(p)
  PROVE  WheelInv'
<1> SUFFICES ASSUME NEW h, h = handing[p], NEW t, t = h.task, NEW s, s = h.session
             PROVE  WheelInv'
  OBVIOUS
<1> DEFINE row == NewTask(h)
           inserted == [task EXCEPT ![t] = row]
<1>1. /\ h \in Handover /\ t \in Tasks /\ ~Exists(t) /\ s \in Sessions /\ ProjectOf[s] = p
      /\ sess[s] = UserDrives
      /\ \A q \in Projects \ {p} : handing[q].task # t
  BY DEF HandoverCommit, WheelInv, HandoverHoldsRows, TypeOK
<1>2. /\ handing' = [handing EXCEPT ![p] = NoHandover]
      /\ \/ /\ UniqueActive(inserted, p) /\ task' = inserted
            /\ sess' = IF h.busy THEN sess
                       ELSE [sess EXCEPT ![s] = [wheel |-> "advisor", active |-> t]]
         \/ task' = task /\ sess' = sess
  BY Zenon DEF HandoverCommit
<1>3. row.state = "RECEIVED" /\ row.session = s /\ row.queued = h.busy
  BY NewTaskRow
<1> HIDE DEF row, inserted
<1>4. /\ inserted[t] = row
      /\ \A u \in Tasks \ {t} : inserted[u] = task[u]
  BY <1>1 DEF inserted, TypeOK
<1>5. ASSUME NEW q \in Projects, handing'[q] # NoHandover
      PROVE  /\ q # p /\ handing'[q] = handing[q]
             /\ \A r \in Projects \ {q} : handing'[r].task # handing[q].task
  <2>1. q # p /\ handing'[q] = handing[q]
    BY <1>2, <1>5 DEF TypeOK
  <2>2. handing[q].task \in Tasks /\ \A r \in Projects \ {q} : handing[r].task # handing[q].task
    BY <1>5, <2>1 DEF WheelInv, HandoverHoldsRows
  <2>3. \A r \in Projects : handing'[r] = handing[r] \/ handing'[r] = NoHandover
    BY <1>2 DEF TypeOK
  <2> QED
    BY <2>1, <2>2, <2>3, LedgerAssumption DEF NoHandover
<1>6. CASE task' = task /\ sess' = sess
  <2>1. HandoverHoldsRows'
    BY <1>5, <1>6 DEF WheelInv, HandoverHoldsRows, Exists
  <2>2. WheelMatchesTask' /\ RowsInLine' /\ \A q \in Projects : UniqueActive(task', q)
    BY <1>6 DEF WheelInv, WheelMatchesTask, RowsInLine, Exists, Live
  <2> QED
    BY <2>1, <2>2 DEF WheelInv
<1>7. ASSUME UniqueActive(inserted, p), task' = inserted,
             sess' = IF h.busy THEN sess ELSE [sess EXCEPT ![s] = [wheel |-> "advisor", active |-> t]]
      PROVE  WheelInv'
  <2>1. /\ Live(t)' /\ Exists(t)' /\ task'[t].session = s /\ task'[t].queued = h.busy
        /\ task'[t].state = "RECEIVED"
        /\ \A u \in Tasks \ {t} : task'[u] = task[u]
    BY <1>1, <1>3, <1>4, <1>7 DEF Live, Exists, TaskStates, Terminal
  <2>2. \A x \in Sessions : sess'[x] = sess[x] \/ (x = s /\ ~h.busy)
    BY <1>1, <1>7 DEF TypeOK
  <2>3. ~h.busy => sess'[s] = [wheel |-> "advisor", active |-> t]
    BY <1>1, <1>7 DEF TypeOK
  <2>4. \A u \in Tasks \ {t} : (Live(u)' <=> Live(u)) /\ (Exists(u)' <=> Exists(u))
    BY <2>1 DEF Live, Exists
  <2>5. ~Live(t)
    BY <1>1 DEF Live, Exists, TaskStates, Terminal
  <2>6. WheelMatchesTask'
    <3>1. ASSUME NEW x \in Sessions, sess'[x] # UserDrives
          PROVE  /\ sess'[x].wheel = "advisor"
                 /\ \E u \in Tasks : /\ sess'[x].active = u
                                     /\ Live(u)' /\ ~task'[u].queued /\ task'[u].session = x
      <4>1. CASE sess'[x] = sess[x]
        <5>1. PICK u \in Tasks : /\ sess[x].wheel = "advisor" /\ sess[x].active = u
                                 /\ Live(u) /\ ~task[u].queued /\ task[u].session = x
          BY <3>1, <4>1 DEF WheelInv, WheelMatchesTask
        <5> QED
          BY <2>1, <2>4, <2>5, <4>1, <5>1
      <4>2. CASE x = s /\ ~h.busy
        <5>1. sess'[x].wheel = "advisor" /\ sess'[x].active = t
          BY <2>3, <4>2
        <5> QED
          BY <1>1, <2>1, <4>2, <5>1
      <4> QED
        BY <2>2, <4>1, <4>2
    <3>2. ASSUME NEW u \in Tasks, Live(u)', ~task'[u].queued
          PROVE  sess'[task'[u].session].active = u
      <4>1. CASE u = t
        BY <2>1, <2>3, <3>2, <4>1
      <4>2. CASE u # t
        <5>1. Live(u) /\ ~task[u].queued /\ task'[u] = task[u]
          BY <2>1, <2>4, <3>2, <4>2
        <5>2. task[u].session \in Sessions /\ sess[task[u].session].active = u
          BY <5>1 DEF WheelInv, WheelMatchesTask, RowsInLine, Live, Exists, TaskStates
        <5>3. task[u].session # s
          BY <1>1, <5>2, LedgerAssumption DEF UserDrives
        <5> QED
          BY <2>2, <5>1, <5>2, <5>3
      <4> QED
        BY <4>1, <4>2
    <3> QED
      BY <3>1, <3>2 DEF WheelMatchesTask, UserDrives
  <2>7. RowsInLine'
    BY <1>1, <2>1, <2>4 DEF WheelInv, RowsInLine
  <2>8. HandoverHoldsRows'
    <3>1. ASSUME NEW q \in Projects, handing'[q] # NoHandover
          PROVE  /\ q # p /\ handing'[q] = handing[q] /\ handing[q].session # s /\ handing[q].task # t
                 /\ sess'[handing[q].session] = sess[handing[q].session]
      <4>1. q # p /\ handing'[q] = handing[q]
        BY <1>5, <3>1
      <4>2. handing[q].session \in Sessions /\ ProjectOf[handing[q].session] = q
        BY <3>1, <4>1 DEF WheelInv, HandoverHoldsRows
      <4> QED
        BY <1>1, <2>2, <4>1, <4>2
    <3> QED
      BY <1>5, <2>4, <3>1 DEF WheelInv, HandoverHoldsRows
  <2>9. ASSUME NEW q \in Projects PROVE UniqueActive(task', q)
    <3>1. CASE q = p
      BY <1>7, <3>1
    <3>2. CASE q # p
      <4>1. \A u \in Tasks : u \in ActiveIn(task', q) => u \in ActiveIn(task, q)
        BY <1>1, <2>1, <3>2 DEF ActiveIn, Project
      <4> QED
        BY <4>1 DEF WheelInv, UniqueActive, ActiveIn
    <3> QED
      BY <3>1, <3>2
  <2> QED
    BY <2>6, <2>7, <2>8, <2>9 DEF WheelInv
<1> QED
  BY <1>2, <1>6, <1>7

LEMMA TransitionKeepsWheel ==
  ASSUME TypeOK, WheelInv, NEW t \in Tasks, NEW to \in TaskStates, NEW why,
         ~task[t].queued, Transition(t, to, why)
  PROVE  WheelInv'
<1>1. task \in [Tasks -> TaskRow] /\ task[t] \in TaskRow /\ handing' = handing
  BY DEF TypeOK, Transition
<1>2. Live(t)
  BY MovesAreLive DEF Transition, Live
<1>3. CASE to \in Terminal /\ Terminate(task, inter, t, to)
  BY <1>1, <1>2, <1>3, TerminateKeepsWheel
<1>4. CASE /\ to \notin Terminal
           /\ task' = [task EXCEPT ![t] = MovedTo(task[t], to, why)]
           /\ UNCHANGED <<inter, sess, pending>>
  <2> DEFINE row == MovedTo(task[t], to, why)
  <2>1. row.state = to /\ row.session = task[t].session /\ row.queued = task[t].queued
    BY <1>1, MovedToFields
  <2>2. Quiet
    BY <1>1, <1>2, <1>4, <2>1, OneRowIsQuiet
  <2> QED
    BY <2>2, QuietKeepsWheel
<1> QED
  BY <1>3, <1>4, Zenon DEF Transition

LEMMA ResumeEnvironmentKeepsWheel ==
  ASSUME TypeOK, WheelInv, NEW t \in Tasks, ResumeEnvironment(t)
  PROVE  WheelInv'
<1>1. /\ task \in [Tasks -> TaskRow] /\ task[t] \in TaskRow
      /\ task' = [task EXCEPT ![t] = MovedTo(task[t], "QUEUED", "")]
      /\ sess' = sess /\ handing' = handing /\ task[t].state = "WAITING"
  BY DEF TypeOK, ResumeEnvironment
<1>2. Live(t)
  BY <1>1 DEF Live, TaskStates, Terminal
<1>3. ~task[t].queued /\ "QUEUED" \in TaskStates \ Terminal
  BY <1>1, <1>2 DEF WheelInv, RowsInLine, Exists, TaskStates, Terminal
<1>4. task[t] \in TaskRow
  BY <1>1
<1>5. PICK row : /\ task' = [task EXCEPT ![t] = row] /\ row.state = "QUEUED"
                 /\ row.session = task[t].session /\ row.queued = task[t].queued
  <2> DEFINE new == MovedTo(task[t], "QUEUED", "")
  <2>2. new.state = "QUEUED" /\ new.session = task[t].session /\ new.queued = task[t].queued
    BY <1>4, QueuedFields
  <2>3. task' = [task EXCEPT ![t] = new]
    BY <1>1
  <2> HIDE DEF new
  <2> QED
    BY <2>2, <2>3
<1>6. Quiet
  BY ZenonT(40), <1>1, <1>2, <1>3, <1>5, OneRowIsQuiet
<1> QED
  BY <1>6, QuietKeepsWheel

LEMMA RequestCancelKeepsWheel ==
  ASSUME TypeOK, WheelInv, NEW t \in Tasks, RequestCancel(t)
  PROVE  WheelInv'
<1> DEFINE row == [Cas(task[t]) EXCEPT !.cancel = TRUE]
           wished == [task EXCEPT ![t] = row]
<1>1. task \in [Tasks -> TaskRow] /\ task[t] \in TaskRow /\ Cas(task[t]) \in TaskRow
  BY CasType DEF TypeOK
<1>2. /\ row \in TaskRow /\ row.state = task[t].state
      /\ row.session = task[t].session /\ row.queued = task[t].queued
  <2>1. \A r \in TaskRow : LET x == [r EXCEPT !.cancel = TRUE] IN
          x \in TaskRow /\ x.state = r.state /\ x.session = r.session /\ x.queued = r.queued
    BY ZenonT(40) DEF TaskRow
  <2>2. LET r == Cas(task[t]) IN
        r.state = task[t].state /\ r.session = task[t].session /\ r.queued = task[t].queued
    BY <1>1, RowFields, Zenon
  <2> QED
    BY <1>1, <2>1, <2>2, Zenon
<1>3. /\ Live(t) /\ handing' = handing
      /\ \/ task' = wished /\ UNCHANGED <<inter, sess, pending>>
         \/ Terminate(wished, inter, t, "CANCELLED")
  BY Zenon DEF RequestCancel
<1> HIDE DEF row
<1>4. /\ wished \in [Tasks -> TaskRow]
      /\ \A u \in Tasks : /\ wished[u].state = task[u].state
                          /\ wished[u].session = task[u].session
                          /\ wished[u].queued = task[u].queued
  BY <1>1, <1>2
<1>5. CASE task' = wished /\ UNCHANGED <<inter, sess, pending>>
  <2>1. Quiet
    BY <1>1, <1>2, <1>3, <1>5, OneRowIsQuiet
  <2> QED
    BY <2>1, QuietKeepsWheel
<1> HIDE DEF wished
<1>6. CASE Terminate(wished, inter, t, "CANCELLED")
  BY <1>3, <1>4, <1>6, TerminateKeepsWheel DEF Terminal
<1> QED
  BY <1>3, <1>5, <1>6

LEMMA OpenAttemptKeepsWheel ==
  ASSUME TypeOK, WheelInv, NEW t \in Tasks, NEW a \in Attempts, NEW r \in Nat,
         OpenAttempt(t, a, r)
  PROVE  WheelInv'
<1> DEFINE row == [Cas(task[t]) EXCEPT !.attempt = a, !.reserved = task[t].reserved + r]
           new == IF task[t].state = "QUEUED" THEN MovedTo(row, "RUNNING", "") ELSE row
<1>1. /\ task \in [Tasks -> TaskRow] /\ task[t] \in TaskRow /\ Cas(task[t]) \in TaskRow
      /\ task[t].reserved + r \in Nat
  <2>1. task[t] \in TaskRow
    BY DEF TypeOK
  <2>2. task[t].reserved \in Nat
    BY <2>1 DEF TaskRow
  <2> QED
    BY <2>1, <2>2, CasType DEF TypeOK
<1>2. \A n \in Nat : LET x == [Cas(task[t]) EXCEPT !.attempt = a, !.reserved = n] IN
        /\ x \in TaskRow /\ x.state = Cas(task[t]).state
        /\ x.session = Cas(task[t]).session /\ x.queued = Cas(task[t]).queued
  BY <1>1 DEF TaskRow
<1>3. /\ row \in TaskRow /\ row.state = task[t].state
      /\ row.session = task[t].session /\ row.queued = task[t].queued
  BY ZenonT(40), <1>1, <1>2, RowFields
<1>4. task' = [task EXCEPT ![t] = new] /\ sess' = sess /\ handing' = handing
  BY Zenon DEF OpenAttempt
<1> HIDE DEF row
<1>5. task[t].state = "QUEUED" => ~task[t].queued /\ Live(t)
  BY DEF WheelInv, RowsInLine, Exists, Live, TaskStates, Terminal
<1>6. /\ new.session = task[t].session /\ new.queued = task[t].queued
      /\ new.state = IF task[t].state = "QUEUED" THEN "RUNNING" ELSE task[t].state
  <2>1. \A to, why : LET x == MovedTo(row, to, why) IN
          x.state = to /\ x.session = row.session /\ x.queued = row.queued
    BY <1>3, MovedToFields
  <2> QED
    BY <1>3, <2>1
<1> HIDE DEF new
<1>7. Quiet
  BY <1>1, <1>4, <1>5, <1>6, OneRowIsQuiet DEF TaskStates, Terminal
<1> QED
  BY <1>7, QuietKeepsWheel

LEMMA AttemptTransitionKeepsWheel ==
  ASSUME TypeOK, WheelInv, NEW a \in Attempts, NEW to \in AttemptStates, NEW cost \in Nat,
         NEW i \in Inters \cup {NoInter}, AttemptTransition(a, to, cost, i)
  PROVE  WheelInv'
<1> SUFFICES ASSUME NEW t, t = attempt[a].task,
                    NEW charged, charged = Charged(task[t], attempt[a].allocated, to, cost)
             PROVE  WheelInv'
  OBVIOUS
<1>1. task \in [Tasks -> TaskRow] /\ sess' = sess /\ handing' = handing
  BY DEF TypeOK, AttemptTransition
<1>2. \/ task' = [task EXCEPT ![t] = charged]
      \/ /\ task' = [task EXCEPT ![t] = WaitingFor(charged, i, "resource")]
         /\ CanMove(task[t].state, "WAITING")
  BY Zenon DEF AttemptTransition
<1>3. /\ t \in Tasks
      /\ charged \in TaskRow /\ charged.state = task[t].state
      /\ charged.session = task[t].session /\ charged.queued = task[t].queued
  <2>1. attempt[a] \in AttemptRow /\ attempt[a].status # "NONE"
    BY DEF TypeOK, AttemptTransition, CanMoveAttempt, AttemptMoves
  <2>2. t \in Tasks /\ attempt[a].allocated \in Nat
    BY <2>1, AttemptStatusType
  <2> QED
    BY <1>1, <2>2, ChargedType, ChargedFields
<1>4. CASE task' = [task EXCEPT ![t] = charged]
  <2>1. Quiet
    BY <1>1, <1>3, <1>4, OneRowIsQuiet
  <2> QED
    BY <2>1, QuietKeepsWheel
<1>5. CASE /\ task' = [task EXCEPT ![t] = WaitingFor(charged, i, "resource")]
           /\ CanMove(task[t].state, "WAITING")
  <2>1. LET row == WaitingFor(charged, i, "resource") IN
        /\ row.state = "WAITING" /\ row.session = task[t].session
        /\ row.queued = task[t].queued
    BY <1>3, RowFields
  <2>2. ~task[t].queued /\ Live(t)
    BY <1>3, <1>5 DEF CanMove, TaskMoves, WheelInv, RowsInLine, Live, Exists, TaskStates, Terminal
  <2>3. Quiet
    BY <1>1, <1>3, <1>5, <2>1, <2>2, OneRowIsQuiet DEF TaskStates, Terminal
  <2> QED
    BY <2>3, QuietKeepsWheel
<1> QED
  BY <1>2, <1>4, <1>5

LEMMA OpenInteractionKeepsWheel ==
  ASSUME TypeOK, WheelInv, NEW t \in Tasks, NEW i \in Inters, NEW kind \in Kinds,
         OpenInteraction(t, i, kind)
  PROVE  WheelInv'
<1>1. /\ task \in [Tasks -> TaskRow] /\ task[t] \in TaskRow
      /\ task' = [task EXCEPT ![t] = WaitingFor(task[t], i, kind)]
      /\ sess' = sess /\ handing' = handing /\ CanMove(task[t].state, "WAITING")
  BY DEF TypeOK, OpenInteraction
<1>2. ~task[t].queued /\ Live(t)
  BY <1>1 DEF CanMove, TaskMoves, WheelInv, RowsInLine, Live, Exists, TaskStates, Terminal
<1> DEFINE row == WaitingFor(task[t], i, kind)
<1>3. row.state = "WAITING" /\ row.session = task[t].session /\ row.queued = task[t].queued
  BY <1>1, WaitingForFields
<1>4. Quiet
  BY <1>1, <1>2, <1>3, OneRowIsQuiet DEF TaskStates, Terminal
<1> QED
  BY <1>4, QuietKeepsWheel

\* An interaction that can be answered belongs to a task that waits.
LEMMA RespondKeepsWheel ==
  ASSUME TypeOK, WheelInv, NEW i \in Inters, NEW decision, NEW amount \in Nat,
         Respond(i, decision, amount)
  PROVE  WheelInv'
<1> SUFFICES ASSUME NEW t, t = inter[i].task,
                    NEW row, row = Answered(IF decision = "topup" THEN ToppedUp(task[t], amount)
                                            ELSE task[t]),
                    NEW answered, answered = [task EXCEPT ![t] = row]
             PROVE  WheelInv'
  OBVIOUS
<1>1. task \in [Tasks -> TaskRow] /\ handing' = handing /\ t \in Tasks
  BY InterStatusType DEF TypeOK, Respond, Answerable, InterStates
<1>2. \/ /\ CanMove(task[t].state, "FAILED")
         /\ Terminate(answered, Consumed(i), t, "FAILED")
      \/ /\ CanMove(task[t].state, "QUEUED")
         /\ task' = [answered EXCEPT ![t] = MovedTo(answered[t], "QUEUED", "")]
         /\ sess' = sess
  BY Zenon DEF Respond
<1>3. task[t] \in TaskRow /\ ToppedUp(task[t], amount) \in TaskRow
  BY <1>1, ToppedUpType
<1>4. /\ row \in TaskRow /\ row.state = task[t].state
      /\ row.session = task[t].session /\ row.queued = task[t].queued
  <2>1. CASE decision = "topup"
    <3>1. row = Answered(ToppedUp(task[t], amount))
      BY <2>1, Zenon
    <3> QED
      BY <1>3, <3>1, RowFields, AnsweredType
  <2>2. CASE decision # "topup"
    <3>1. row = Answered(task[t])
      BY <2>2, Zenon
    <3> QED
      BY <1>3, <3>1, RowFields, AnsweredType
  <2> QED
    BY <2>1, <2>2
<1>5. /\ answered \in [Tasks -> TaskRow] /\ answered[t] = row
      /\ \A u \in Tasks : /\ answered[u].state = task[u].state
                          /\ answered[u].session = task[u].session
                          /\ answered[u].queued = task[u].queued
  BY <1>1, <1>4
<1>6. Live(t)
  BY <1>2, MovesAreLive DEF Live
<1>7. CASE Terminate(answered, Consumed(i), t, "FAILED")
  BY <1>1, <1>5, <1>6, <1>7, TerminateKeepsWheel DEF Terminal
<1>8. CASE /\ CanMove(task[t].state, "QUEUED")
           /\ task' = [answered EXCEPT ![t] = MovedTo(row, "QUEUED", "")]
           /\ sess' = sess
  <2> DEFINE new == MovedTo(row, "QUEUED", "")
  <2>1. row \in TaskRow
    BY <1>4
  <2>3. new.state = "QUEUED" /\ new.session = row.session /\ new.queued = row.queued
    BY <2>1, QueuedFields
  <2>4. task' = [answered EXCEPT ![t] = new]
    BY <1>8
  <2> HIDE DEF new
  <2>5. task' = [task EXCEPT ![t] = new]
    BY <1>1, <2>4
  <2>6. task[t].queued => task[t].state = "RECEIVED"
    BY <1>1, <1>6 DEF WheelInv, RowsInLine, Live, Exists, TaskStates
  <2>7. ~task[t].queued
    BY <1>8, <2>6 DEF CanMove, TaskMoves
  <2>8. new.session = task[t].session /\ new.queued = task[t].queued
    BY <1>4, <2>3
  <2>9. new.state \in TaskStates \ Terminal
    BY <2>3 DEF TaskStates, Terminal
  <2>10. sess' = sess /\ handing' = handing /\ task \in [Tasks -> TaskRow]
    BY <1>1, <1>8
  <2>11. Quiet
    BY <1>6, <2>5, <2>7, <2>8, <2>9, <2>10, OneRowIsQuiet, Zenon
  <2> QED
    BY <2>11, QuietKeepsWheel
<1> QED
  BY <1>2, <1>5, <1>7, <1>8

LEMMA SurroundingsKeepWheel ==
  ASSUME WheelInv, task' = task, sess' = sess, handing' = handing
  PROVE  WheelInv'
<1>1. Quiet
  BY DEF Quiet, Exists, Live
<1> QED
  BY <1>1, QuietKeepsWheel

LEMMA TouchKeepsWheel ==
  ASSUME TypeOK, WheelInv, NEW t \in Tasks, Touch(t)
  PROVE  WheelInv'
<1>1. /\ task \in [Tasks -> TaskRow]
      /\ task' = [task EXCEPT ![t] = Cas(task[t])]
      /\ sess' = sess /\ handing' = handing
  BY Zenon DEF TypeOK, Touch
<1> task[t] \in TaskRow
  BY <1>1
<1>2. /\ Cas(task[t]).session = task[t].session
      /\ Cas(task[t]).queued = task[t].queued
      /\ Cas(task[t]).state = task[t].state
  BY RowFields
<1> HIDE DEF Cas
<1>3. Quiet
  BY <1>1, <1>2, OneRowIsQuiet
<1> QED
  BY <1>3, QuietKeepsWheel

LEMMA InitWheel == Init => WheelInv
<1> SUFFICES ASSUME Init PROVE WheelInv
  OBVIOUS
<1>1. \A t \in Tasks : task[t].state = "NONE"
  BY DEF Init, NoRow
<1>2. \A t \in Tasks : ~Live(t) /\ ~Exists(t)
  BY <1>1 DEF Live, Exists, TaskStates, Terminal
<1>3. \A p \in Projects : UniqueActive(task, p)
  BY <1>2 DEF UniqueActive, ActiveIn, Live
<1>4. WheelMatchesTask
  BY <1>2 DEF Init, WheelMatchesTask
<1>5. RowsInLine /\ HandoverHoldsRows
  BY <1>2 DEF Init, RowsInLine, HandoverHoldsRows
<1> QED
  BY <1>3, <1>4, <1>5 DEF WheelInv

LEMMA StepWheel == TypeOK /\ WheelInv /\ [Next]_ledgerVars => WheelInv'
<1> SUFFICES ASSUME TypeOK, WheelInv, [Next]_ledgerVars PROVE WheelInv'
  OBVIOUS
<1>1. ASSUME NEW t \in Tasks, NEW s \in Sessions, NEW limit \in Limits, HandoverRead(t, s, limit)
      PROVE  WheelInv'
  BY <1>1, HandoverReadKeepsWheel
<1>2. ASSUME NEW p \in Projects, HandoverCommit(p) \/ SetOnline(p)
      PROVE  WheelInv'
  BY <1>2, HandoverCommitKeepsWheel, SurroundingsKeepWheel DEF SetOnline
<1>3. ASSUME NEW t \in Tasks, NEW to \in TaskStates, DriverMove(t, to)
      PROVE  WheelInv'
  BY <1>3, TransitionKeepsWheel DEF DriverMove
<1>4. ASSUME NEW t \in Tasks, EnvironmentLost(t) \/ ResumeEnvironment(t)
      PROVE  WheelInv'
  <2>1. task[t].state \in {"QUEUED", "RUNNING"} => ~task[t].queued
    BY DEF WheelInv, RowsInLine, Live, Exists, TaskStates, Terminal
  <2> QED
    BY <1>4, <2>1, TransitionKeepsWheel, ResumeEnvironmentKeepsWheel
    DEF EnvironmentLost, TaskStates
<1>5. ASSUME NEW t \in Tasks, RequestCancel(t) \/ TakeDrive(t) \/ EnqueueDrive(t) \/ Touch(t)
      PROVE  WheelInv'
  BY <1>5, RequestCancelKeepsWheel, SurroundingsKeepWheel, TouchKeepsWheel
  DEF TakeDrive, EnqueueDrive
<1>6. ASSUME NEW t \in Tasks, NEW a \in Attempts, NEW r \in Reserves, DriverOpensAttempt(t, a, r)
      PROVE  WheelInv'
  BY <1>6, OpenAttemptKeepsWheel, LedgerAssumption DEF DriverOpensAttempt
<1>7. ASSUME NEW a \in Attempts, NEW to \in AttemptStates, NEW c \in Costs \cup {0},
             NEW i \in Inters \cup {NoInter}, AttemptMove(a, to, c, i)
      PROVE  WheelInv'
  BY <1>7, AttemptTransitionKeepsWheel, LedgerAssumption DEF AttemptMove
<1>8. ASSUME NEW t \in Tasks, NEW i \in Inters, NEW kind \in Kinds, DriverOrTurnAsks(t, i, kind)
      PROVE  WheelInv'
  BY <1>8, OpenInteractionKeepsWheel DEF DriverOrTurnAsks
<1>9. ASSUME NEW i \in Inters, NEW d, NEW amount \in TopUps \cup {0}, Respond(i, d, amount)
      PROVE  WheelInv'
  BY <1>9, RespondKeepsWheel, LedgerAssumption
<1>10. ASSUME NEW i \in Inters, Lapse(i)
       PROVE  WheelInv'
  BY <1>10, SurroundingsKeepWheel DEF Lapse
<1>11. ASSUME NEW idle \in SUBSET Drivable, TakeOver(idle)
       PROVE  WheelInv'
  BY <1>11, SurroundingsKeepWheel DEF TakeOver
<1>12. CASE UNCHANGED ledgerVars
  BY <1>12, SurroundingsKeepWheel DEF ledgerVars
<1> QED
  BY <1>1, <1>2, <1>3, <1>4, <1>5, <1>6, <1>7, <1>8, <1>9, <1>10, <1>11, <1>12 DEF Next

\* The strengthened invariant holds in every reachable state: sessions and tasks
\* agree, tasks in line are untouched, an open handover holds its rows.
THEOREM WheelInvariant == Spec => []WheelInv
<1> QED
  BY InitType, StepType, InitWheel, StepWheel, PTL DEF Spec

\* The session table and the task table never disagree about who is driving,
\* for any number of conversations, projects and tasks.
THEOREM WheelAgrees == Spec => []WheelMatchesTask
<1>1. WheelInv => WheelMatchesTask
  BY DEF WheelInv
<1> QED
  BY <1>1, WheelInvariant, PTL

\* However handovers, endings and dequeues interleave, no project has two
\* experts at work.
THEOREM OneExpert == Spec => []OneExpertPerProject
<1>1. TypeOK /\ WheelInv => OneExpertPerProject
  <2> SUFFICES ASSUME TypeOK, WheelInv, NEW t \in Tasks, NEW u \in Tasks,
                      Live(t), ~task[t].queued, Live(u), ~task[u].queued,
                      Project(task, t) = Project(task, u)
               PROVE  t = u
    BY DEF OneExpertPerProject
  <2>1. task[t].session \in Sessions
    BY DEF WheelInv, RowsInLine, Live, Exists, TaskStates
  <2>2. Project(task, t) \in Projects
    BY <2>1, LedgerAssumption DEF Project
  <2>3. {t, u} \subseteq ActiveIn(task, Project(task, t))
    BY DEF ActiveIn, Live
  <2> QED
    BY <2>2, <2>3 DEF WheelInv, UniqueActive
<1> QED
  BY <1>1, TypeCorrect, WheelInvariant, PTL

-----------------------------------------------------------------------------
(***************************************************************************)
(* What belongs to a task: a question that is open belongs to the wait     *)
(* that is on, and what has been answered or withdrawn stays so; what a    *)
(* task has reserved is what its one attempt holds; and a task that has    *)
(* ended stays as it ended.                                                *)
(***************************************************************************)

\* Neither answered nor withdrawn; its deadline may have passed.
OpenQuestion(i) == inter[i].status \in {"pending", "lapsed"}

-----------------------------------------------------------------------------
(* Steps that keep every open question with its wait. *)

\* A question that stays open stays with a task whose wait does not change.
LEMMA KeptQuestions ==
  ASSUME PendingIsCurrentWait,
         \A i \in Inters : OpenQuestion(i)' =>
           /\ OpenQuestion(i) /\ inter'[i].task = inter[i].task
           /\ task'[inter[i].task].state = task[inter[i].task].state
           /\ task'[inter[i].task].ask = task[inter[i].task].ask
  PROVE  PendingIsCurrentWait'
BY DEF PendingIsCurrentWait, OpenQuestion

\* One row changes and no question does: the row keeps its wait, or it has none
\* that a question could belong to.
LEMMA OneRowKeepsQuestions ==
  ASSUME TypeOK, PendingIsCurrentWait, inter' = inter, NEW t, NEW row,
         task' = [task EXCEPT ![t] = row],
         t \in Tasks /\ task[t].state = "WAITING" /\ task[t].ask \in Inters =>
           row.state = "WAITING" /\ row.ask = task[t].ask
  PROVE  PendingIsCurrentWait'
<1>1. ASSUME NEW i \in Inters, OpenQuestion(i)
      PROVE  /\ task'[inter[i].task].state = task[inter[i].task].state
             /\ task'[inter[i].task].ask = task[inter[i].task].ask
  <2>1. task[inter[i].task].state = "WAITING" /\ task[inter[i].task].ask = i
    BY <1>1 DEF PendingIsCurrentWait, OpenQuestion
  <2>2. inter[i].task \in Tasks
    BY <1>1, InterStatusType DEF OpenQuestion, TypeOK, InterStates
  <2> QED
    BY <2>1, <2>2 DEF TypeOK
<1> QED
  BY <1>1, KeptQuestions DEF OpenQuestion

\* A task that does not wait yet puts a question.
LEMMA AskingKeepsQuestions ==
  ASSUME TypeOK, PendingIsCurrentWait, NEW t \in Tasks, NEW i, NEW kind \in Kinds,
         NEW row, row.state = "WAITING", row.ask = i,
         CanMove(task[t].state, "WAITING"),
         task' = [task EXCEPT ![t] = row],
         inter' = [inter EXCEPT ![i] = Asked(t, kind)]
  PROVE  PendingIsCurrentWait'
<1>1. task[t].state # "WAITING"
  BY DEF CanMove, TaskMoves
<1>2. ASSUME NEW j \in Inters, OpenQuestion(j)'
      PROVE  task'[inter'[j].task].state = "WAITING" /\ task'[inter'[j].task].ask = j
  <2>1. CASE j = i
    <3>1. inter'[j].task = t
      BY <2>1 DEF Asked, TypeOK
    <3> QED
      BY <2>1, <3>1 DEF TypeOK
  <2>2. CASE j # i
    <3>1. inter'[j] = inter[j]
      BY <2>2 DEF TypeOK
    <3>2. task[inter[j].task].state = "WAITING" /\ task[inter[j].task].ask = j
      BY <1>2, <3>1 DEF PendingIsCurrentWait, OpenQuestion
    <3> QED
      BY <1>1, <3>1, <3>2 DEF TypeOK
  <2> QED
    BY <2>1, <2>2
<1> QED
  BY <1>2 DEF PendingIsCurrentWait, OpenQuestion

\* A task ends: its own questions are withdrawn, the task that starts after it
\* keeps its standing, and so do the questions of all others.
LEMMA TerminateKeepsQuestions ==
  ASSUME TypeOK, PendingIsCurrentWait,
         NEW ts \in [Tasks -> TaskRow], NEW is \in [Inters -> InterRow], NEW t \in Tasks,
         NEW outcome \in Terminal,
         \A u \in Tasks \ {t} : ts[u] = task[u],
         \A i \in Inters : is[i].status \in {"pending", "lapsed"} => is[i] = inter[i],
         Terminate(ts, is, t, outcome)
  PROVE  PendingIsCurrentWait'
<1> DEFINE s == ts[t].session
           closed == [ts EXCEPT ![t] = Closed(ts[t], outcome)]
           home == IF sess[s].active = t THEN [sess EXCEPT ![s] = UserDrives] ELSE sess
           oldest == NextQueued(closed, ProjectOf[s])
           startable == {u \in oldest : home[closed[u].session] = UserDrives}
<1>1. /\ inter' = Withdrawn(is, t)
      /\ \/ task' = closed
         \/ \E u \in startable : task' = [closed EXCEPT ![u] = [Cas(@) EXCEPT !.queued = FALSE]]
  BY Zenon DEF Terminate
<1>2. closed \in [Tasks -> TaskRow]
  BY ClosedType DEF TaskStates
<1>3. startable \subseteq Tasks
  BY DEF NextQueued, QueuedIn
<1>4. \A u \in Tasks \ {t} : closed[u] = task[u]
  OBVIOUS
<1> HIDE DEF closed, startable
<1>5. \A u \in Tasks \ {t} : task'[u].state = task[u].state /\ task'[u].ask = task[u].ask
  <2>1. CASE task' = closed
    BY <1>4, <2>1
  <2>2. ASSUME NEW v \in startable,
               task' = [closed EXCEPT ![v] = [Cas(@) EXCEPT !.queued = FALSE]]
        PROVE  \A u \in Tasks \ {t} : task'[u].state = task[u].state /\ task'[u].ask = task[u].ask
    <3>1. v \in Tasks /\ closed[v] \in TaskRow
      BY <1>2, <1>3
    <3>2. LET r == [Cas(closed[v]) EXCEPT !.queued = FALSE] IN
          r.state = closed[v].state /\ r.ask = closed[v].ask
      BY <3>1 DEF Cas, TaskRow
    <3> QED
      BY <1>2, <1>4, <2>2, <3>1, <3>2
  <2> QED
    BY <1>1, <2>1, <2>2
<1>6. ASSUME NEW i \in Inters, OpenQuestion(i)'
      PROVE  /\ OpenQuestion(i) /\ inter'[i] = inter[i]
             /\ inter[i].task \in Tasks \ {t}
  <2>1. inter'[i] = is[i] /\ is[i].task # t
    <3>1. is[i] \in InterRow
      OBVIOUS
    <3>2. is[i].status \in {"pending", "lapsed"} =>
            [is[i] EXCEPT !.status = "cancelled"].status = "cancelled"
      BY <3>1, InterStatusType DEF InterRow, NoInterRow
    <3> QED
      BY <1>1, <1>6, <3>2 DEF Withdrawn, OpenQuestion
  <2>2. OpenQuestion(i) /\ inter'[i] = inter[i]
    BY <1>6, <2>1 DEF OpenQuestion
  <2>3. inter[i].task \in Tasks
    BY <2>2, InterStatusType DEF OpenQuestion, TypeOK, InterStates
  <2> QED
    BY <2>1, <2>2, <2>3
<1> QED
  BY <1>5, <1>6, KeptQuestions

-----------------------------------------------------------------------------
(* One lemma per action that touches a row that waits, or a question. *)

\* A new task takes the row of a task that did not exist, so nothing asked for it.
LEMMA HandoverCommitKeepsQuestions ==
  ASSUME TypeOK, WheelInv, PendingIsCurrentWait, NEW p \in Projects, HandoverCommit(p)
  PROVE  PendingIsCurrentWait'
<1> DEFINE t == handing[p].task
<1>1. inter' = inter /\ (task' = task \/ task' = [task EXCEPT ![t] = NewTask(handing[p])])
  BY Zenon DEF HandoverCommit
<1>2. task[t].state # "WAITING"
  BY DEF HandoverCommit, WheelInv, HandoverHoldsRows, Exists
<1>3. CASE task' = task
  BY <1>1, <1>3 DEF PendingIsCurrentWait
<1>4. CASE task' = [task EXCEPT ![t] = NewTask(handing[p])]
  BY <1>1, <1>2, <1>4, OneRowKeepsQuestions
<1> QED
  BY <1>1, <1>3, <1>4

\* Only an ending leaves WAITING through a plain transition of a task that has a
\* question: the interpreter never moves such a task on.
LEMMA TransitionKeepsQuestions ==
  ASSUME TypeOK, PendingIsCurrentWait, NEW t \in Tasks, NEW to \in TaskStates, NEW why,
         to \in Terminal \/ task[t].state # "WAITING",
         Transition(t, to, why)
  PROVE  PendingIsCurrentWait'
<1>1. task \in [Tasks -> TaskRow] /\ inter \in [Inters -> InterRow]
  BY DEF TypeOK
<1>2. CASE to \in Terminal /\ Terminate(task, inter, t, to)
  BY <1>1, <1>2, TerminateKeepsQuestions
<1>3. CASE /\ to \notin Terminal /\ inter' = inter
           /\ task' = [task EXCEPT ![t] = MovedTo(task[t], to, why)]
  BY <1>3, OneRowKeepsQuestions
<1> QED
  BY <1>2, <1>3, Zenon DEF Transition

LEMMA RequestCancelKeepsQuestions ==
  ASSUME TypeOK, PendingIsCurrentWait, NEW t \in Tasks, RequestCancel(t)
  PROVE  PendingIsCurrentWait'
<1> DEFINE row == [Cas(task[t]) EXCEPT !.cancel = TRUE]
           wished == [task EXCEPT ![t] = row]
<1>1. task \in [Tasks -> TaskRow] /\ task[t] \in TaskRow /\ inter \in [Inters -> InterRow]
  BY DEF TypeOK
<1>2. row \in TaskRow
  BY <1>1 DEF Cas, TaskRow
<1>3. \/ /\ task[t].state = "RUNNING" /\ task' = wished /\ inter' = inter
      \/ Terminate(wished, inter, t, "CANCELLED")
  BY Zenon DEF RequestCancel
<1> HIDE DEF row
<1>4. wished \in [Tasks -> TaskRow] /\ \A u \in Tasks \ {t} : wished[u] = task[u]
  BY <1>1, <1>2
<1>5. CASE task[t].state = "RUNNING" /\ task' = wished /\ inter' = inter
  BY <1>5, OneRowKeepsQuestions
<1> HIDE DEF wished
<1>6. CASE Terminate(wished, inter, t, "CANCELLED")
  BY <1>1, <1>4, <1>6, TerminateKeepsQuestions DEF Terminal
<1> QED
  BY <1>3, <1>5, <1>6

\* An attempt is opened even for a task that waits, and leaves its wait alone.
LEMMA OpenAttemptKeepsQuestions ==
  ASSUME TypeOK, PendingIsCurrentWait, NEW t \in Tasks, NEW a, NEW r, OpenAttempt(t, a, r)
  PROVE  PendingIsCurrentWait'
<1> DEFINE row == [Cas(task[t]) EXCEPT !.attempt = a, !.reserved = task[t].reserved + r]
           new == IF task[t].state = "QUEUED" THEN MovedTo(row, "RUNNING", "") ELSE row
<1>1. inter' = inter /\ task' = [task EXCEPT ![t] = new]
  BY Zenon DEF OpenAttempt
<1>2. \A n : LET x == [Cas(task[t]) EXCEPT !.attempt = a, !.reserved = n] IN
        x.state = task[t].state /\ x.ask = task[t].ask
  <2>1. task[t] \in TaskRow
    BY DEF TypeOK
  <2> QED
    BY <2>1 DEF Cas, TaskRow
<1>3. row.state = task[t].state /\ row.ask = task[t].ask
  BY <1>2
<1> HIDE DEF row
<1>4. task[t].state = "WAITING" => new.state = "WAITING" /\ new.ask = task[t].ask
  BY <1>3
<1> HIDE DEF new
<1> QED
  BY <1>1, <1>4, OneRowKeepsQuestions

\* A charge leaves the wait of the row alone; a hard stop puts a question of its
\* own for a task that does not wait yet.
LEMMA AttemptTransitionKeepsQuestions ==
  ASSUME TypeOK, PendingIsCurrentWait, NEW a \in Attempts, NEW to \in AttemptStates,
         NEW cost \in Nat,
         NEW i \in Inters \cup {NoInter}, AttemptTransition(a, to, cost, i)
  PROVE  PendingIsCurrentWait'
<1> SUFFICES ASSUME NEW t, t = attempt[a].task,
                    NEW charged, charged = Charged(task[t], attempt[a].allocated, to, cost)
             PROVE  PendingIsCurrentWait'
  OBVIOUS
<1>1. \/ task' = [task EXCEPT ![t] = charged] /\ inter' = inter
      \/ /\ CanMove(task[t].state, "WAITING")
         /\ task' = [task EXCEPT ![t] = WaitingFor(charged, i, "resource")]
         /\ inter' = [inter EXCEPT ![i] = Asked(t, "resource")]
  BY Zenon DEF AttemptTransition
<1>2. t \in Tasks /\ attempt[a].allocated \in Nat /\ task[t] \in TaskRow
  <2>1. attempt[a] \in AttemptRow /\ attempt[a].status # "NONE"
    BY DEF TypeOK, AttemptTransition, CanMoveAttempt, AttemptMoves
  <2>2. t \in Tasks /\ attempt[a].allocated \in Nat
    BY <2>1, AttemptStatusType
  <2> QED
    BY <2>2 DEF TypeOK
<1>3. charged \in TaskRow /\ charged.state = task[t].state /\ charged.ask = task[t].ask
  BY <1>2, ChargedType, ChargedFields
<1>4. CASE task' = [task EXCEPT ![t] = charged] /\ inter' = inter
  BY <1>3, <1>4, OneRowKeepsQuestions
<1>5. CASE /\ CanMove(task[t].state, "WAITING")
           /\ task' = [task EXCEPT ![t] = WaitingFor(charged, i, "resource")]
           /\ inter' = [inter EXCEPT ![i] = Asked(t, "resource")]
  <2>1. LET row == WaitingFor(charged, i, "resource") IN row.state = "WAITING" /\ row.ask = i
    BY <1>3, RowFields
  <2> QED
    BY <1>2, <1>5, <2>1, AskingKeepsQuestions DEF Kinds
<1> QED
  BY <1>1, <1>4, <1>5

LEMMA OpenInteractionKeepsQuestions ==
  ASSUME TypeOK, PendingIsCurrentWait, NEW t \in Tasks, NEW i \in Inters, NEW kind \in Kinds,
         OpenInteraction(t, i, kind)
  PROVE  PendingIsCurrentWait'
<1>1. task[t] \in TaskRow
  BY DEF TypeOK
<1>2. LET row == WaitingFor(task[t], i, kind) IN row.state = "WAITING" /\ row.ask = i
  BY <1>1, RowFields
<1>3. /\ CanMove(task[t].state, "WAITING")
      /\ task' = [task EXCEPT ![t] = WaitingFor(task[t], i, kind)]
      /\ inter' = [inter EXCEPT ![i] = Asked(t, kind)]
  BY Zenon DEF OpenInteraction
<1> QED
  BY <1>2, <1>3, AskingKeepsQuestions

\* The question that is answered was the only one its task could have open.
LEMMA RespondKeepsQuestions ==
  ASSUME TypeOK, PendingIsCurrentWait, NEW i \in Inters, NEW decision, NEW amount \in Nat,
         Respond(i, decision, amount)
  PROVE  PendingIsCurrentWait'
<1> SUFFICES ASSUME NEW t, t = inter[i].task,
                    NEW row, row = Answered(IF decision = "topup" THEN ToppedUp(task[t], amount)
                                            ELSE task[t]),
                    NEW answered, answered = [task EXCEPT ![t] = row]
             PROVE  PendingIsCurrentWait'
  OBVIOUS
<1>1. /\ task \in [Tasks -> TaskRow] /\ inter \in [Inters -> InterRow]
      /\ inter[i].status = "pending" /\ task[t].ask = i /\ t \in Tasks
  BY InterStatusType DEF TypeOK, Respond, Answerable, InterStates
<1>2. \/ Terminate(answered, Consumed(i), t, "FAILED")
      \/ /\ task' = [answered EXCEPT ![t] = MovedTo(answered[t], "QUEUED", "")]
         /\ inter' = Consumed(i)
  BY Zenon DEF Respond
<1>3. row \in TaskRow
  BY <1>1, ToppedUpType, AnsweredType
<1>4. answered \in [Tasks -> TaskRow] /\ \A u \in Tasks \ {t} : answered[u] = task[u]
  BY <1>1, <1>3
<1>5. /\ Consumed(i) \in [Inters -> InterRow]
      /\ \A j \in Inters : Consumed(i)[j].status \in {"pending", "lapsed"} =>
           j # i /\ Consumed(i)[j] = inter[j]
  <2>1. [inter[i] EXCEPT !.status = "consumed"] \in InterRow
    BY <1>1, InterStatusType DEF InterStates
  <2>2. \A r \in [status: InterStates, kind: Kinds, task: Tasks] :
          [r EXCEPT !.status = "consumed"].status = "consumed"
    OBVIOUS
  <2>3. inter[i] \in InterRow /\ inter[i] # NoInterRow
    <3>1. NoInterRow.status = "NONE"
      BY DEF NoInterRow
    <3>2. inter[i] # NoInterRow
      BY <1>1, <3>1
    <3> QED
      BY <1>1, <3>2
  <2>4. [inter[i] EXCEPT !.status = "consumed"].status = "consumed"
    BY <2>2, <2>3 DEF InterRow
  <2> QED
    BY <1>1, <2>1, <2>4 DEF Consumed
<1>6. CASE Terminate(answered, Consumed(i), t, "FAILED")
  <2>1. "FAILED" \in Terminal
    BY DEF Terminal
  <2>2. \A is \in [Inters -> InterRow] :
          /\ \A j \in Inters : is[j].status \in {"pending", "lapsed"} => is[j] = inter[j]
          /\ Terminate(answered, is, t, "FAILED")
          => PendingIsCurrentWait'
    BY ZenonT(40), <1>1, <1>4, <2>1, TerminateKeepsQuestions
  <2> QED
    BY <1>5, <1>6, <2>2
<1>7. CASE /\ task' = [answered EXCEPT ![t] = MovedTo(answered[t], "QUEUED", "")]
           /\ inter' = Consumed(i)
  <2>1. \A u \in Tasks \ {t} : task'[u] = task[u]
    BY <1>4, <1>7
  <2>2. ASSUME NEW j \in Inters, OpenQuestion(j)'
        PROVE  /\ OpenQuestion(j) /\ inter'[j] = inter[j]
               /\ inter[j].task \in Tasks \ {t}
    <3>1. j # i /\ inter'[j] = inter[j] /\ OpenQuestion(j)
      BY <1>5, <1>7, <2>2 DEF OpenQuestion
    <3>2. inter[j].task \in Tasks
      BY <1>1, <3>1, InterStatusType DEF OpenQuestion, InterStates
    <3>3. task[inter[j].task].ask = j
      BY <3>1 DEF OpenQuestion, PendingIsCurrentWait
    <3> QED
      BY <1>1, <3>1, <3>2, <3>3
  <2> QED
    BY <2>1, <2>2, KeptQuestions
<1> QED
  BY <1>2, <1>6, <1>7

\* A deadline passes, or a take-over expires what it finds: no question is opened.
LEMMA LapseKeepsQuestions ==
  ASSUME TypeOK, PendingIsCurrentWait, NEW i \in Inters, Lapse(i)
  PROVE  PendingIsCurrentWait'
<1>1. inter[i] \in InterRow /\ inter[i].status = "pending"
  BY DEF Lapse, TypeOK
<1>2. [inter[i] EXCEPT !.status = "lapsed"].task = inter[i].task
  BY <1>1 DEF InterRow, NoInterRow
<1>3. \A j \in Inters : OpenQuestion(j)' => OpenQuestion(j) /\ inter'[j].task = inter[j].task
  BY <1>1, <1>2 DEF Lapse, OpenQuestion, TypeOK
<1> QED
  BY <1>3, KeptQuestions DEF Lapse

LEMMA TakeOverKeepsQuestions ==
  ASSUME TypeOK, PendingIsCurrentWait, NEW idle, TakeOver(idle)
  PROVE  PendingIsCurrentWait'
<1>1. ASSUME NEW j \in Inters, OpenQuestion(j)'
      PROVE  inter'[j] = inter[j]
  <2>1. inter[j] \in InterRow
    BY DEF TypeOK
  <2>2. OpenQuestion(j) => [inter[j] EXCEPT !.status = "expired"].status = "expired"
    BY <2>1 DEF InterRow, NoInterRow, OpenQuestion
  <2>3. inter'[j] = IF inter[j].kind = "tool_approval" /\ OpenQuestion(j)
                    THEN [inter[j] EXCEPT !.status = "expired"] ELSE inter[j]
    BY DEF TakeOver, OpenQuestion
  <2> QED
    BY <1>1, <2>2, <2>3 DEF OpenQuestion
<1>2. task' = task
  BY DEF TakeOver
<1> QED
  BY <1>1, <1>2, KeptQuestions DEF OpenQuestion

-----------------------------------------------------------------------------
(* The invariant. *)

LEMMA StepQuestions ==
  TypeOK /\ WheelInv /\ PendingIsCurrentWait /\ [Next]_ledgerVars => PendingIsCurrentWait'
<1> SUFFICES ASSUME TypeOK, WheelInv, PendingIsCurrentWait, [Next]_ledgerVars
             PROVE  PendingIsCurrentWait'
  OBVIOUS
<1>1. ASSUME task' = task, inter' = inter
      PROVE  PendingIsCurrentWait'
  BY <1>1 DEF PendingIsCurrentWait
<1>2. ASSUME NEW p \in Projects, HandoverCommit(p) \/ SetOnline(p)
      PROVE  PendingIsCurrentWait'
  BY <1>1, <1>2, HandoverCommitKeepsQuestions DEF SetOnline
<1>3. ASSUME NEW t \in Tasks, NEW to \in TaskStates, DriverMove(t, to)
      PROVE  PendingIsCurrentWait'
  <2>1. to \in Terminal \/ task[t].state # "WAITING"
    BY <1>3 DEF DriverMove, DriverMoves, Terminal
  <2> QED
    BY <1>3, <2>1, TransitionKeepsQuestions DEF DriverMove
<1>4. ASSUME NEW t \in Tasks, EnvironmentLost(t)
      PROVE  PendingIsCurrentWait'
  BY <1>4, TransitionKeepsQuestions DEF EnvironmentLost, TaskStates
<1>5. ASSUME NEW t \in Tasks, ResumeEnvironment(t)
      PROVE  PendingIsCurrentWait'
  <2>1. /\ inter' = inter /\ task[t].ask = NoInter
        /\ task' = [task EXCEPT ![t] = MovedTo(task[t], "QUEUED", "")]
    BY <1>5, Zenon DEF ResumeEnvironment
  <2> QED
    BY <2>1, OneRowKeepsQuestions, LedgerAssumption
<1>6. ASSUME NEW t \in Tasks, Touch(t)
      PROVE  PendingIsCurrentWait'
  <2>1. task[t] \in TaskRow
    BY DEF TypeOK
  <2>2. Cas(task[t]).state = task[t].state /\ Cas(task[t]).ask = task[t].ask
    BY <2>1, RowFields
  <2>3. inter' = inter /\ task' = [task EXCEPT ![t] = Cas(task[t])]
    BY <1>6, Zenon DEF Touch
  <2> QED
    BY <2>2, <2>3, OneRowKeepsQuestions
<1>7. ASSUME NEW t \in Tasks, RequestCancel(t) \/ TakeDrive(t) \/ EnqueueDrive(t)
      PROVE  PendingIsCurrentWait'
  BY <1>1, <1>7, RequestCancelKeepsQuestions DEF TakeDrive, EnqueueDrive
<1>8. ASSUME NEW t \in Tasks, NEW a \in Attempts, NEW r \in Reserves, DriverOpensAttempt(t, a, r)
      PROVE  PendingIsCurrentWait'
  BY <1>8, OpenAttemptKeepsQuestions DEF DriverOpensAttempt
<1>9. ASSUME NEW a \in Attempts, NEW to \in AttemptStates, NEW c \in Costs \cup {0},
             NEW i \in Inters \cup {NoInter}, AttemptMove(a, to, c, i)
      PROVE  PendingIsCurrentWait'
  BY <1>9, AttemptTransitionKeepsQuestions, LedgerAssumption DEF AttemptMove
<1>10. ASSUME NEW t \in Tasks, NEW i \in Inters, NEW kind \in Kinds, DriverOrTurnAsks(t, i, kind)
       PROVE  PendingIsCurrentWait'
  BY <1>10, OpenInteractionKeepsQuestions DEF DriverOrTurnAsks
<1>11. ASSUME NEW i \in Inters, NEW d, NEW amount \in TopUps \cup {0}, Respond(i, d, amount)
       PROVE  PendingIsCurrentWait'
  BY <1>11, RespondKeepsQuestions, LedgerAssumption
<1>12. ASSUME NEW i \in Inters, Lapse(i)
       PROVE  PendingIsCurrentWait'
  BY <1>12, LapseKeepsQuestions
<1>13. ASSUME NEW idle \in SUBSET Drivable, TakeOver(idle)
       PROVE  PendingIsCurrentWait'
  BY <1>13, TakeOverKeepsQuestions
<1>14. ASSUME NEW t \in Tasks, NEW s \in Sessions, NEW limit \in Limits, HandoverRead(t, s, limit)
       PROVE  PendingIsCurrentWait'
  BY <1>1, <1>14 DEF HandoverRead
<1>15. CASE UNCHANGED ledgerVars
  BY <1>1, <1>15 DEF ledgerVars
<1> QED
  BY <1>2, <1>3, <1>4, <1>5, <1>6, <1>7, <1>8, <1>9, <1>10, <1>11, <1>12, <1>13, <1>14, <1>15
  DEF Next

\* Whatever ends, restarts, is cancelled or taken over, an answer can only ever
\* reach the wait it was asked for: a question that is still open is the one its
\* task is waiting for, for any number of tasks and questions.
THEOREM QuestionsAreCurrent == Spec => []PendingIsCurrentWait
<1>1. Init => PendingIsCurrentWait
  <2> SUFFICES ASSUME Init, NEW i \in Inters
               PROVE  inter[i].status \notin {"pending", "lapsed"}
    BY DEF PendingIsCurrentWait
  <2>1. inter[i] = NoInterRow
    BY DEF Init
  <2>2. NoInterRow.status = "NONE"
    BY DEF NoInterRow
  <2> QED
    BY <2>1, <2>2
<1> QED
  BY <1>1, StepQuestions, TypeCorrect, WheelInvariant, PTL DEF Spec

-----------------------------------------------------------------------------
(* What has been answered or withdrawn stays so. *)

AnswerKept(i) ==
  /\ inter[i].status \in {"consumed", "cancelled", "expired"} => inter'[i] = inter[i]
  /\ inter[i].status = "lapsed" => inter'[i].status # "consumed"

LEMMA InterStatusSet ==
  ASSUME NEW row \in InterRow, row.status # "NONE", NEW st
  PROVE  [row EXCEPT !.status = st].status = st
<1>1. NoInterRow.status = "NONE"
  BY DEF NoInterRow
<1>2. row \in [status: InterStates, kind: Kinds, task: Tasks]
  BY <1>1 DEF InterRow
<1> QED
  BY <1>2

\* A new question takes a row that holds none.
LEMMA AskingKeepsAnswers ==
  ASSUME TypeOK, NEW i, inter[i].status = "NONE", NEW row,
         inter' = [inter EXCEPT ![i] = row], NEW j \in Inters
  PROVE  AnswerKept(j)
BY DEF TypeOK, AnswerKept

LEMMA TerminateKeepsAnswers ==
  ASSUME TypeOK, NEW ts, NEW t, NEW outcome, NEW j \in Inters,
         Terminate(ts, inter, t, outcome)
  PROVE  AnswerKept(j)
<1>1. inter' = Withdrawn(inter, t)
  BY Zenon DEF Terminate
<1>2. inter[j] \in InterRow
  BY DEF TypeOK
<1>3. inter[j].status = "lapsed" => [inter[j] EXCEPT !.status = "cancelled"].status = "cancelled"
  BY <1>2, InterStatusSet
<1> QED
  BY <1>1, <1>3 DEF Withdrawn, AnswerKept

\* Only a question that is pending is answered; the end of the task that the
\* answer may bring withdraws the others.
LEMMA RespondKeepsAnswers ==
  ASSUME TypeOK, NEW i \in Inters, NEW d, NEW amount, Respond(i, d, amount), NEW j \in Inters
  PROVE  AnswerKept(j)
<1>1. \/ inter' = Withdrawn(Consumed(i), inter[i].task)
      \/ inter' = Consumed(i)
  BY Zenon DEF Respond, Terminate
<1>2. inter[i].status = "pending" /\ inter[j] \in InterRow /\ inter \in [Inters -> InterRow]
  BY DEF Respond, Answerable, TypeOK
<1>3. j # i => Consumed(i)[j] = inter[j]
  BY <1>2 DEF Consumed
<1>4. inter[j].status = "lapsed" => [inter[j] EXCEPT !.status = "cancelled"].status = "cancelled"
  BY <1>2, InterStatusSet
<1>5. j # i => inter'[j] = inter[j] \/ inter'[j] = Withdrawn(inter, inter[i].task)[j]
  BY <1>1, <1>3 DEF Withdrawn
<1> QED
  BY <1>2, <1>4, <1>5 DEF Withdrawn, AnswerKept

LEMMA LapsingKeepsAnswers ==
  ASSUME TypeOK, NEW j \in Inters,
         (\E i \in Inters : Lapse(i)) \/ (\E idle : TakeOver(idle))
  PROVE  AnswerKept(j)
<1>1. inter[j] \in InterRow /\ inter \in [Inters -> InterRow]
  BY DEF TypeOK
<1>2. inter[j].status = "lapsed" => [inter[j] EXCEPT !.status = "expired"].status = "expired"
  BY <1>1, InterStatusSet
<1>3. ASSUME NEW i \in Inters, Lapse(i)
      PROVE  AnswerKept(j)
  BY <1>1, <1>3 DEF Lapse, AnswerKept
<1>4. ASSUME NEW idle, TakeOver(idle)
      PROVE  AnswerKept(j)
  BY <1>1, <1>2, <1>4 DEF TakeOver, AnswerKept
<1> QED
  BY <1>3, <1>4

LEMMA StepAnswers ==
  ASSUME TypeOK, [Next]_ledgerVars, NEW j \in Inters
  PROVE  AnswerKept(j)
<1>1. ASSUME inter' = inter
      PROVE  AnswerKept(j)
  BY <1>1 DEF AnswerKept
<1>2. CASE UNCHANGED ledgerVars
  BY <1>1, <1>2 DEF ledgerVars
<1>3. ASSUME NEW t \in Tasks, NEW s \in Sessions, NEW limit \in Limits, HandoverRead(t, s, limit)
      PROVE  AnswerKept(j)
  BY <1>1, <1>3 DEF HandoverRead
<1>4. ASSUME NEW p \in Projects, HandoverCommit(p) \/ SetOnline(p)
      PROVE  AnswerKept(j)
  BY <1>1, <1>4, Zenon DEF HandoverCommit, SetOnline
<1>5. ASSUME NEW t \in Tasks, NEW to, NEW why, Transition(t, to, why)
      PROVE  AnswerKept(j)
  BY <1>1, <1>5, TerminateKeepsAnswers, Zenon DEF Transition
<1>6. ASSUME NEW t \in Tasks, RequestCancel(t)
      PROVE  AnswerKept(j)
  BY <1>1, <1>6, TerminateKeepsAnswers, Zenon DEF RequestCancel
<1>7. ASSUME NEW t \in Tasks,
             ResumeEnvironment(t) \/ TakeDrive(t) \/ EnqueueDrive(t) \/ Touch(t)
      PROVE  AnswerKept(j)
  BY <1>1, <1>7, Zenon DEF ResumeEnvironment, TakeDrive, EnqueueDrive, Touch
<1>8. ASSUME NEW t \in Tasks, NEW a \in Attempts, NEW r \in Reserves, DriverOpensAttempt(t, a, r)
      PROVE  AnswerKept(j)
  BY <1>1, <1>8, Zenon DEF DriverOpensAttempt, OpenAttempt
<1>9. ASSUME NEW a \in Attempts, NEW to, NEW c, NEW i \in Inters \cup {NoInter}, AttemptMove(a, to, c, i)
      PROVE  AnswerKept(j)
  <2>1. \/ inter' = inter
        \/ inter[i].status = "NONE" /\ inter' = [inter EXCEPT ![i] = Asked(attempt[a].task, "resource")]
    BY <1>9, Zenon DEF AttemptMove, AttemptTransition
  <2> QED
    BY <1>1, <2>1, AskingKeepsAnswers
<1>10. ASSUME NEW t \in Tasks, NEW i \in Inters, NEW kind \in Kinds, DriverOrTurnAsks(t, i, kind)
       PROVE  AnswerKept(j)
  BY <1>10, AskingKeepsAnswers DEF DriverOrTurnAsks, OpenInteraction
<1> QED
  BY <1>2, <1>3, <1>4, <1>5, <1>6, <1>7, <1>8, <1>9, <1>10, RespondKeepsAnswers,
     LapsingKeepsAnswers DEF Next, DriverMove, EnvironmentLost

\* No step of anybody, for any number of tasks and questions, changes an answer
\* that was given or withdrawn, or lets one in after its deadline.
THEOREM AnswersAreFinal == Spec => AnsweredOnce
<1>1. TypeOK /\ [Next]_ledgerVars =>
        [\A i \in Inters :
           /\ inter[i].status \in {"consumed", "cancelled", "expired"} => inter'[i] = inter[i]
           /\ inter[i].status = "lapsed" => inter'[i].status # "consumed"]_ledgerVars
  BY StepAnswers DEF AnswerKept
<1> QED
  BY <1>1, TypeCorrect, PTL DEF Spec, AnsweredOnce

-----------------------------------------------------------------------------
(* Attempts, reservations and endings. *)

\* No caller suspends an attempt.
NoneSuspended == \A a \in Attempts : attempt[a].status # "SUSPENDED"

\* Every attempt was opened for a task that is there.
AttemptsHaveTasks ==
  \A a \in Attempts : attempt[a].status # "NONE" =>
    attempt[a].task \in Tasks /\ Exists(attempt[a].task)

\* What has ended gives no reason to wait.
EndedHasNoWhy == \A t \in Tasks : task[t].state \in Terminal => task[t].why = ""

HeldInv ==
  /\ NoneSuspended
  /\ AttemptsHaveTasks
  /\ OneAttemptPerTask
  /\ ReservedIsHeld
  /\ EndedHasNoWhy

-----------------------------------------------------------------------------
(* Steps that leave the attempts and the reservations of live tasks alone. *)

\* Task u keeps what it holds while it lives, and keeps its ending once it has.
Steady(u) ==
  /\ Exists(u) => Exists(u)'
  /\ Live(u)' => /\ Live(u)
                 /\ task'[u].attempt = task[u].attempt
                 /\ task'[u].reserved = task[u].reserved
  /\ task[u].state \in Terminal => task'[u].state = task[u].state /\ task'[u].why = task[u].why
  /\ task'[u].state \in Terminal /\ task[u].state \notin Terminal => task'[u].why = ""

\* The transition of a task that has ended changes neither its state nor its reason.
EndingKept(u) ==
  task[u].state \in Terminal => task'[u].state = task[u].state /\ task'[u].why = ""

LEMMA SteadyKeepsHeld ==
  ASSUME HeldInv, attempt' = attempt, \A u \in Tasks : Steady(u)
  PROVE  HeldInv' /\ \A u \in Tasks : EndingKept(u)
<1>1. NoneSuspended'
  BY DEF HeldInv, NoneSuspended
<1>2. AttemptsHaveTasks'
  BY DEF HeldInv, AttemptsHaveTasks, Steady, Exists
<1>3. OneAttemptPerTask'
  <2> SUFFICES ASSUME NEW u \in Tasks, Live(u)', NEW a \in Attempts
               PROVE  (LiveAttempt(a)' /\ attempt'[a].task = u) <=> task'[u].attempt = a
    BY DEF OneAttemptPerTask
  <2>1. Live(u) /\ task'[u].attempt = task[u].attempt
    BY DEF Steady
  <2>2. LiveAttempt(a)' <=> LiveAttempt(a)
    BY DEF LiveAttempt
  <2> QED
    BY <2>1, <2>2 DEF HeldInv, OneAttemptPerTask
<1>4. ReservedIsHeld'
  BY DEF HeldInv, ReservedIsHeld, Steady
<1>5. EndedHasNoWhy' /\ \A u \in Tasks : EndingKept(u)
  BY DEF HeldInv, EndedHasNoWhy, Steady, EndingKept
<1> QED
  BY <1>1, <1>2, <1>3, <1>4, <1>5 DEF HeldInv

\* What the changes of a row leave as it is.
LEMMA CasHolds ==
  ASSUME NEW row \in TaskRow
  PROVE  /\ Cas(row).state = row.state /\ Cas(row).why = row.why
         /\ Cas(row).attempt = row.attempt /\ Cas(row).reserved = row.reserved
BY DEF Cas, TaskRow

LEMMA MovedToHolds ==
  ASSUME NEW row \in TaskRow, NEW to, NEW why
  PROVE  /\ MovedTo(row, to, why).state = to /\ MovedTo(row, to, why).why = why
         /\ MovedTo(row, to, why).attempt = row.attempt
         /\ MovedTo(row, to, why).reserved = row.reserved
BY DEF MovedTo, Cas, TaskRow

LEMMA QueuedHolds ==
  ASSUME NEW row \in TaskRow
  PROVE  /\ MovedTo(row, "QUEUED", "").state = "QUEUED"
         /\ MovedTo(row, "QUEUED", "").attempt = row.attempt
         /\ MovedTo(row, "QUEUED", "").reserved = row.reserved
BY DEF MovedTo, Cas, TaskRow

LEMMA ClosedHolds ==
  ASSUME NEW row \in TaskRow, NEW outcome
  PROVE  Closed(row, outcome).state = outcome /\ Closed(row, outcome).why = ""
BY DEF Closed, MovedTo, Cas, TaskRow

LEMMA WaitingForHolds ==
  ASSUME NEW row \in TaskRow, NEW i, NEW kind
  PROVE  /\ WaitingFor(row, i, kind).state = "WAITING"
         /\ WaitingFor(row, i, kind).attempt = row.attempt
         /\ WaitingFor(row, i, kind).reserved = row.reserved
BY DEF WaitingFor, TaskRow

LEMMA AnsweredHolds ==
  ASSUME NEW row \in TaskRow
  PROVE  /\ Answered(row).state = row.state /\ Answered(row).why = row.why
         /\ Answered(row).attempt = row.attempt /\ Answered(row).reserved = row.reserved
BY DEF Answered, Cas, TaskRow

LEMMA ToppedUpHolds ==
  ASSUME NEW row \in TaskRow, NEW n
  PROVE  /\ ToppedUp(row, n).state = row.state /\ ToppedUp(row, n).why = row.why
         /\ ToppedUp(row, n).attempt = row.attempt /\ ToppedUp(row, n).reserved = row.reserved
BY DEF ToppedUp, TaskRow

\* One row changes: it keeps what it holds, and it is live or stays as it is.
LEMMA OneRowIsSteady ==
  ASSUME task \in [Tasks -> TaskRow], NEW t, NEW row, task' = [task EXCEPT ![t] = row],
         t \in Tasks =>
           /\ row.state # "NONE"
           /\ row.attempt = task[t].attempt /\ row.reserved = task[t].reserved
           /\ \/ row.state = task[t].state /\ row.why = task[t].why
              \/ Live(t) /\ row.state \notin Terminal
  PROVE  \A u \in Tasks : Steady(u)
<1>1. ASSUME NEW u \in Tasks, u # t PROVE Steady(u)
  BY <1>1 DEF Steady, Exists, Live
<1>2. ASSUME t \in Tasks PROVE Steady(t)
  BY <1>2 DEF Steady, Exists, Live, TaskStates, Terminal
<1> QED
  BY <1>1, <1>2

\* A task ends, and at most one other is taken out of the line.
LEMMA TerminateIsSteady ==
  ASSUME TypeOK,
         NEW ts \in [Tasks -> TaskRow], NEW is, NEW t \in Tasks, NEW outcome \in Terminal,
         \A u \in Tasks : /\ ts[u].state = task[u].state /\ ts[u].why = task[u].why
                          /\ ts[u].attempt = task[u].attempt
                          /\ ts[u].reserved = task[u].reserved,
         Live(t), Terminate(ts, is, t, outcome)
  PROVE  \A u \in Tasks : Steady(u)
<1> DEFINE s == ts[t].session
           closed == [ts EXCEPT ![t] = Closed(ts[t], outcome)]
           home == IF sess[s].active = t THEN [sess EXCEPT ![s] = UserDrives] ELSE sess
           oldest == NextQueued(closed, ProjectOf[s])
           startable == {u \in oldest : home[closed[u].session] = UserDrives}
           Kept(new, old) == /\ new.state = old.state /\ new.why = old.why
                             /\ new.attempt = old.attempt /\ new.reserved = old.reserved
<1>1. \/ task' = closed
      \/ \E u \in startable : task' = [closed EXCEPT ![u] = [Cas(closed[u]) EXCEPT !.queued = FALSE]]
  BY Zenon DEF Terminate
<1>2. closed \in [Tasks -> TaskRow]
  BY ClosedType DEF TaskStates
<1>3. /\ closed[t].state = outcome /\ closed[t].why = ""
      /\ \A u \in Tasks \ {t} : Kept(closed[u], task[u])
  BY ZenonT(40), ClosedHolds
<1>4. startable \subseteq Tasks
  BY DEF NextQueued, QueuedIn
<1> HIDE DEF closed, startable
<1>5. \A u \in Tasks : Kept(task'[u], closed[u])
  <2>1. CASE task' = closed
    BY <2>1
  <2>2. ASSUME NEW v \in startable,
               task' = [closed EXCEPT ![v] = [Cas(closed[v]) EXCEPT !.queued = FALSE]]
        PROVE  \A u \in Tasks : Kept(task'[u], closed[u])
    <3>1. closed[v] \in TaskRow
      BY <1>2, <1>4
    <3>2. Kept([Cas(closed[v]) EXCEPT !.queued = FALSE], closed[v])
      BY <3>1 DEF Cas, TaskRow
    <3> QED
      BY <1>2, <1>4, <2>2, <3>2
  <2> QED
    BY <1>1, <2>1, <2>2
<1>6. \A u \in Tasks \ {t} : Steady(u)
  BY <1>3, <1>5 DEF Steady, Exists, Live
<1>7. Steady(t)
  BY <1>3, <1>5 DEF Steady, Exists, Live, Terminal, TaskStates
<1> QED
  BY <1>6, <1>7

-----------------------------------------------------------------------------
(* Action by action. *)

LEMMA TransitionIsSteady ==
  ASSUME TypeOK, NEW t \in Tasks, NEW to, NEW why, Transition(t, to, why)
  PROVE  \A u \in Tasks : Steady(u)
<1>1. task \in [Tasks -> TaskRow] /\ task[t] \in TaskRow /\ Live(t) /\ to \in TaskStates
  BY MovesAreLive DEF TypeOK, Transition, Live
<1>2. CASE to \in Terminal /\ Terminate(task, inter, t, to)
  BY <1>1, <1>2, TerminateIsSteady
<1>3. CASE to \notin Terminal /\ task' = [task EXCEPT ![t] = MovedTo(task[t], to, why)]
  <2> DEFINE new == MovedTo(task[t], to, why)
  <2>1. to # "NONE"
    BY <1>1 DEF TaskStates, Terminal
  <2>2. new.state = to /\ new.attempt = task[t].attempt /\ new.reserved = task[t].reserved
    BY <1>1, MovedToHolds
  <2>3. task' = [task EXCEPT ![t] = new]
    BY <1>3
  <2> HIDE DEF new
  <2> QED
    BY <1>1, <1>3, <2>1, <2>2, <2>3, OneRowIsSteady
<1> QED
  BY <1>2, <1>3 DEF Transition

LEMMA ResumeEnvironmentIsSteady ==
  ASSUME TypeOK, NEW t \in Tasks, ResumeEnvironment(t)
  PROVE  \A u \in Tasks : Steady(u)
<1>1. /\ task \in [Tasks -> TaskRow] /\ task[t] \in TaskRow /\ task[t].state = "WAITING"
      /\ task' = [task EXCEPT ![t] = MovedTo(task[t], "QUEUED", "")]
  BY DEF TypeOK, ResumeEnvironment
<1>2. Live(t) /\ "QUEUED" \notin Terminal
  BY <1>1 DEF Live, TaskStates, Terminal
<1> DEFINE new == MovedTo(task[t], "QUEUED", "")
<1>3. new.state = "QUEUED" /\ new.attempt = task[t].attempt /\ new.reserved = task[t].reserved
  BY <1>1, QueuedHolds
<1>4. task \in [Tasks -> TaskRow] /\ task' = [task EXCEPT ![t] = new]
  BY <1>1
<1> HIDE DEF new
<1> QED
  BY <1>2, <1>3, <1>4, OneRowIsSteady

LEMMA TouchIsSteady ==
  ASSUME TypeOK, NEW t \in Tasks, Touch(t)
  PROVE  \A u \in Tasks : Steady(u)
<1>1. /\ task \in [Tasks -> TaskRow] /\ task[t] \in TaskRow /\ task[t].state # "NONE"
      /\ task' = [task EXCEPT ![t] = Cas(task[t])]
  BY Zenon DEF TypeOK, Touch, Exists
<1> QED
  BY <1>1, CasHolds, OneRowIsSteady

LEMMA RequestCancelIsSteady ==
  ASSUME TypeOK, NEW t \in Tasks, RequestCancel(t)
  PROVE  \A u \in Tasks : Steady(u)
<1> DEFINE row == [Cas(task[t]) EXCEPT !.cancel = TRUE]
           wished == [task EXCEPT ![t] = row]
<1>1. task \in [Tasks -> TaskRow] /\ task[t] \in TaskRow /\ Live(t)
  BY DEF TypeOK, RequestCancel
<1>2. /\ row \in TaskRow /\ row.state = task[t].state /\ row.why = task[t].why
      /\ row.attempt = task[t].attempt /\ row.reserved = task[t].reserved
  BY <1>1 DEF Cas, TaskRow
<1>3. task' = wished \/ Terminate(wished, inter, t, "CANCELLED")
  BY Zenon DEF RequestCancel
<1>4. row.state # "NONE"
  BY <1>1, <1>2 DEF Live, TaskStates, Terminal
<1> HIDE DEF row
<1>5. CASE task' = wished
  BY <1>1, <1>2, <1>4, <1>5, OneRowIsSteady
<1>6. CASE Terminate(wished, inter, t, "CANCELLED")
  <2>1. /\ wished \in [Tasks -> TaskRow] /\ "CANCELLED" \in Terminal
        /\ \A u \in Tasks : /\ wished[u].state = task[u].state /\ wished[u].why = task[u].why
                            /\ wished[u].attempt = task[u].attempt
                            /\ wished[u].reserved = task[u].reserved
    BY <1>1, <1>2 DEF Terminal
  <2> HIDE DEF wished
  <2> QED
    BY <1>1, <1>6, <2>1, TerminateIsSteady
<1> QED
  BY <1>3, <1>5, <1>6

LEMMA OpenInteractionIsSteady ==
  ASSUME TypeOK, NEW t \in Tasks, NEW i, NEW kind, OpenInteraction(t, i, kind)
  PROVE  \A u \in Tasks : Steady(u)
<1>1. /\ task \in [Tasks -> TaskRow] /\ task[t] \in TaskRow
      /\ task' = [task EXCEPT ![t] = WaitingFor(task[t], i, kind)]
      /\ CanMove(task[t].state, "WAITING")
  BY DEF TypeOK, OpenInteraction
<1>2. Live(t) /\ "WAITING" \notin Terminal
  BY <1>1, MovesAreLive DEF Live, Terminal
<1> DEFINE new == WaitingFor(task[t], i, kind)
<1>3. new.state = "WAITING" /\ new.attempt = task[t].attempt /\ new.reserved = task[t].reserved
  BY <1>1, WaitingForHolds
<1>4. task \in [Tasks -> TaskRow] /\ task' = [task EXCEPT ![t] = new]
  BY <1>1
<1> HIDE DEF new
<1> QED
  BY <1>2, <1>3, <1>4, OneRowIsSteady

LEMMA RespondIsSteady ==
  ASSUME TypeOK, NEW i \in Inters, NEW decision, NEW amount \in Nat,
         Respond(i, decision, amount)
  PROVE  \A u \in Tasks : Steady(u)
<1> SUFFICES ASSUME NEW t, t = inter[i].task,
                    NEW row, row = Answered(IF decision = "topup" THEN ToppedUp(task[t], amount)
                                            ELSE task[t]),
                    NEW answered, answered = [task EXCEPT ![t] = row]
             PROVE  \A u \in Tasks : Steady(u)
  OBVIOUS
<1>1. task \in [Tasks -> TaskRow] /\ t \in Tasks
  BY InterStatusType DEF TypeOK, Respond, Answerable, InterStates
<1>2. \/ /\ CanMove(task[t].state, "FAILED")
         /\ Terminate(answered, Consumed(i), t, "FAILED")
      \/ /\ CanMove(task[t].state, "QUEUED")
         /\ task' = [answered EXCEPT ![t] = MovedTo(answered[t], "QUEUED", "")]
  BY Zenon DEF Respond
<1>3. /\ row \in TaskRow /\ row.state = task[t].state /\ row.why = task[t].why
      /\ row.attempt = task[t].attempt /\ row.reserved = task[t].reserved
  <2>1. task[t] \in TaskRow /\ ToppedUp(task[t], amount) \in TaskRow
    BY <1>1, ToppedUpType
  <2>2. CASE decision = "topup"
    <3>1. row = Answered(ToppedUp(task[t], amount))
      BY <2>2, Zenon
    <3> QED
      BY <2>1, <3>1, AnsweredHolds, ToppedUpHolds, AnsweredType
  <2>3. CASE decision # "topup"
    <3>1. row = Answered(task[t])
      BY <2>3, Zenon
    <3> QED
      BY <2>1, <3>1, AnsweredHolds, AnsweredType
  <2> QED
    BY <2>2, <2>3
<1>4. /\ answered \in [Tasks -> TaskRow] /\ answered[t] = row
      /\ \A u \in Tasks : /\ answered[u].state = task[u].state /\ answered[u].why = task[u].why
                          /\ answered[u].attempt = task[u].attempt
                          /\ answered[u].reserved = task[u].reserved
  BY <1>1, <1>3
<1>5. Live(t)
  BY <1>2, MovesAreLive DEF Live
<1>6. CASE Terminate(answered, Consumed(i), t, "FAILED")
  BY <1>1, <1>4, <1>5, <1>6, TerminateIsSteady DEF Terminal
<1>7. CASE task' = [answered EXCEPT ![t] = MovedTo(row, "QUEUED", "")]
  <2> DEFINE new == MovedTo(row, "QUEUED", "")
  <2>1. new.state = "QUEUED" /\ new.attempt = task[t].attempt /\ new.reserved = task[t].reserved
    BY <1>3, QueuedHolds, Zenon
  <2>2. task' = [answered EXCEPT ![t] = new]
    BY <1>7
  <2> HIDE DEF new
  <2>3. task' = [task EXCEPT ![t] = new]
    BY <1>1, <2>2
  <2>4. new.state # "NONE" /\ new.state \notin Terminal
    BY <2>1 DEF Terminal
  <2> QED
    BY <1>1, <1>5, <2>1, <2>3, <2>4, OneRowIsSteady
<1> QED
  BY <1>2, <1>4, <1>6, <1>7

-----------------------------------------------------------------------------
(* Steps that change what a task holds. *)

\* A new task holds nothing, and no attempt was opened for it before it was there.
LEMMA HandoverCommitHeld ==
  ASSUME TypeOK, WheelInv, HeldInv, NEW p \in Projects, HandoverCommit(p)
  PROVE  HeldInv' /\ \A u \in Tasks : EndingKept(u)
<1> SUFFICES ASSUME NEW h, h = handing[p], NEW t, t = h.task
             PROVE  HeldInv' /\ \A u \in Tasks : EndingKept(u)
  OBVIOUS
<1> DEFINE row == NewTask(h)
<1>1. /\ task \in [Tasks -> TaskRow] /\ t \in Tasks /\ ~Exists(t) /\ attempt' = attempt
  BY DEF HandoverCommit, WheelInv, HandoverHoldsRows, TypeOK
<1>2. task' = task \/ task' = [task EXCEPT ![t] = row]
  BY Zenon DEF HandoverCommit
<1>3. row.state = "RECEIVED" /\ row.attempt = NoAttempt /\ row.reserved = 0
  BY DEF NewTask, NoRow
<1> HIDE DEF row
<1>4. CASE task' = task
  <2>1. \A u \in Tasks : Steady(u)
    BY <1>4 DEF Steady, Exists, Live
  <2> QED
    BY <1>1, <2>1, SteadyKeepsHeld
<1>5. CASE task' = [task EXCEPT ![t] = row]
  <2>1. task'[t] = row /\ \A u \in Tasks \ {t} : task'[u] = task[u]
    BY <1>1, <1>5
  <2>2. \A a \in Attempts : ~(LiveAttempt(a) /\ attempt[a].task = t)
    BY <1>1 DEF HeldInv, AttemptsHaveTasks, LiveAttempt, AttemptStates, AttemptTerminal
  <2>3. NoneSuspended'
    BY <1>1 DEF HeldInv, NoneSuspended
  <2>4. AttemptsHaveTasks'
    BY <1>1, <1>3, <2>1 DEF HeldInv, AttemptsHaveTasks, Exists
  <2>5. OneAttemptPerTask'
    <3>1. ASSUME NEW u \in Tasks \ {t}, Live(u)', NEW a \in Attempts
          PROVE  (LiveAttempt(a)' /\ attempt'[a].task = u) <=> task'[u].attempt = a
      BY <1>1, <2>1, <3>1 DEF HeldInv, OneAttemptPerTask, Live, LiveAttempt
    <3>2. ASSUME NEW a \in Attempts
          PROVE  (LiveAttempt(a)' /\ attempt'[a].task = t) <=> task'[t].attempt = a
      BY <1>1, <1>3, <2>1, <2>2, LedgerAssumption DEF LiveAttempt
    <3> QED
      BY <3>1, <3>2 DEF OneAttemptPerTask
  <2>6. ReservedIsHeld'
    BY <1>1, <1>3, <2>1 DEF HeldInv, ReservedIsHeld, Live
  <2>7. EndedHasNoWhy' /\ \A u \in Tasks : EndingKept(u)
    BY <1>1, <1>3, <2>1 DEF HeldInv, EndedHasNoWhy, EndingKept, Exists, Terminal
  <2> QED
    BY <2>3, <2>4, <2>5, <2>6, <2>7 DEF HeldInv
<1> QED
  BY <1>2, <1>4, <1>5

\* One attempt of task t changes together with the task: the task names it while
\* it is live, and has reserved what it holds.
LEMMA AttemptChangeHeld ==
  ASSUME TypeOK, HeldInv, NEW t \in Tasks, NEW a \in Attempts, NEW row, NEW opened,
         task' = [task EXCEPT ![t] = row], attempt' = [attempt EXCEPT ![a] = opened],
         Exists(t), row.state # "NONE",
         opened.task = t, opened.status \notin {"SUSPENDED", "NONE"},
         attempt[a].status = "NONE" \/ attempt[a].task = t,
         ~Live(t) => row.state = task[t].state /\ row.why = task[t].why,
         Live(t) =>
           /\ row.state \notin Terminal
           /\ \A b \in Attempts \ {a} : ~(LiveAttempt(b) /\ attempt[b].task = t)
           /\ IF opened.status \in AttemptStates \ AttemptTerminal
              THEN row.attempt = a /\ row.reserved = opened.allocated
              ELSE row.attempt = NoAttempt /\ row.reserved = 0
  PROVE  HeldInv' /\ \A u \in Tasks : EndingKept(u)
<1>1. /\ task'[t] = row /\ \A u \in Tasks \ {t} : task'[u] = task[u]
      /\ attempt'[a] = opened /\ \A b \in Attempts \ {a} : attempt'[b] = attempt[b]
  BY DEF TypeOK
<1>2. Live(t)' => Live(t)
  BY <1>1 DEF Live, Exists
<1>3. ~LiveAttempt(a) \/ attempt[a].task = t
  BY DEF LiveAttempt, AttemptStates, AttemptTerminal
<1>4. NoneSuspended'
  BY <1>1 DEF HeldInv, NoneSuspended
<1>5. AttemptsHaveTasks'
  BY <1>1 DEF HeldInv, AttemptsHaveTasks, Exists
<1>6. OneAttemptPerTask'
  <2>1. ASSUME NEW u \in Tasks \ {t}, Live(u)', NEW b \in Attempts
        PROVE  (LiveAttempt(b)' /\ attempt'[b].task = u) <=> task'[u].attempt = b
    <3>1. (LiveAttempt(b) /\ attempt[b].task = u) <=> task[u].attempt = b
      BY <1>1, <2>1 DEF HeldInv, OneAttemptPerTask, Live
    <3>2. CASE b = a
      BY <1>1, <1>3, <3>1, <3>2
    <3>3. CASE b # a
      BY <1>1, <3>1, <3>3 DEF LiveAttempt
    <3> QED
      BY <3>2, <3>3
  <2>2. ASSUME Live(t)', NEW b \in Attempts
        PROVE  (LiveAttempt(b)' /\ attempt'[b].task = t) <=> task'[t].attempt = b
    <3>1. CASE b = a
      BY <1>1, <1>2, <2>2, <3>1, LedgerAssumption DEF LiveAttempt
    <3>2. CASE b # a
      BY <1>1, <1>2, <2>2, <3>2, LedgerAssumption DEF LiveAttempt
    <3> QED
      BY <3>1, <3>2
  <2> QED
    BY <2>1, <2>2 DEF OneAttemptPerTask
<1>7. ReservedIsHeld'
  <2>1. ASSUME NEW u \in Tasks \ {t}, Live(u)'
        PROVE  task'[u].reserved = IF task'[u].attempt = NoAttempt THEN 0
                                   ELSE attempt'[task'[u].attempt].allocated
    <3>1. Live(u)
      BY <1>1, <2>1 DEF Live
    <3>2. task[u].attempt # a
      BY <1>3, <3>1 DEF HeldInv, OneAttemptPerTask
    <3>3. task[u].attempt \in Attempts \cup {NoAttempt}
      BY DEF TypeOK, TaskRow
    <3> QED
      BY <1>1, <3>1, <3>2, <3>3 DEF HeldInv, ReservedIsHeld
  <2>2. ASSUME Live(t)'
        PROVE  task'[t].reserved = IF task'[t].attempt = NoAttempt THEN 0
                                   ELSE attempt'[task'[t].attempt].allocated
    BY <1>1, <1>2, <2>2, LedgerAssumption
  <2> QED
    BY <2>1, <2>2 DEF ReservedIsHeld
<1>8. EndedHasNoWhy' /\ \A u \in Tasks : EndingKept(u)
  <2>1. task[t].state \in Terminal => ~Live(t)
    BY DEF Live
  <2>2. task[t].state \in TaskStates
    BY DEF TypeOK, TaskRow, Exists
  <2>3. row.state \in Terminal => task[t].state \in Terminal /\ row.state = task[t].state /\ row.why = task[t].why
    BY <2>2 DEF Live
  <2> QED
    BY <1>1, <2>1, <2>3 DEF HeldInv, EndedHasNoWhy, EndingKept
<1> QED
  BY <1>4, <1>5, <1>6, <1>7, <1>8 DEF HeldInv

\* A task without an attempt has nothing reserved: it then holds its first.
LEMMA OpenAttemptHeld ==
  ASSUME TypeOK, HeldInv, NEW t \in Tasks, NEW a \in Attempts, NEW r \in Nat,
         OpenAttempt(t, a, r)
  PROVE  HeldInv' /\ \A u \in Tasks : EndingKept(u)
<1> DEFINE n == task[t].reserved + r
           held == [Cas(task[t]) EXCEPT !.attempt = a, !.reserved = n]
           row == IF task[t].state = "QUEUED" THEN MovedTo(held, "RUNNING", "") ELSE held
           opened == [status |-> "CREATED", task |-> t, allocated |-> r]
<1>1. /\ task[t] \in TaskRow /\ Exists(t) /\ attempt[a].status = "NONE" /\ task[t].attempt = NoAttempt
  BY DEF TypeOK, OpenAttempt
<1>2. n \in Nat /\ (Live(t) => n = r)
  <2>1. task[t].reserved \in Nat
    BY <1>1 DEF TaskRow
  <2>2. Live(t) => task[t].reserved = 0
    BY <1>1 DEF HeldInv, ReservedIsHeld
  <2> QED
    BY <2>1, <2>2
<1>3. task' = [task EXCEPT ![t] = row] /\ attempt' = [attempt EXCEPT ![a] = opened]
  BY Zenon DEF OpenAttempt
<1> HIDE DEF n
<1>4. /\ held \in TaskRow /\ held.state = task[t].state /\ held.why = task[t].why
      /\ held.attempt = a /\ held.reserved = n
  BY <1>1, <1>2 DEF Cas, TaskRow
<1> HIDE DEF held
<1>5. /\ row.attempt = a /\ row.reserved = n
      /\ \/ row.state = task[t].state /\ row.why = task[t].why
         \/ task[t].state = "QUEUED" /\ row.state = "RUNNING"
  <2>1. CASE task[t].state = "QUEUED"
    <3> DEFINE new == MovedTo(held, "RUNNING", "")
    <3>1. new.state = "RUNNING" /\ new.attempt = held.attempt /\ new.reserved = held.reserved
      BY <1>4 DEF MovedTo, Cas, TaskRow
    <3>2. row = new
      BY <2>1
    <3> HIDE DEF new
    <3> QED
      BY <1>4, <2>1, <3>1, <3>2
  <2>2. CASE task[t].state # "QUEUED"
    <3>1. row = held
      BY <2>2, Zenon
    <3> HIDE DEF row
    <3> QED
      BY <1>4, <3>1, Zenon
  <2> QED
    BY <2>1, <2>2
<1> HIDE DEF row
<1>6. \A b \in Attempts : Live(t) => ~(LiveAttempt(b) /\ attempt[b].task = t)
  BY <1>1, LedgerAssumption DEF HeldInv, OneAttemptPerTask
<1>7. Live(t) => row.state \notin Terminal
  BY <1>5 DEF Live, Terminal
<1>8. ~Live(t) => row.state = task[t].state /\ row.why = task[t].why
  BY <1>5 DEF Live, TaskStates, Terminal
<1>9. row.state # "NONE"
  BY <1>1, <1>5 DEF Exists
<1>10. /\ opened.task = t /\ opened.status \notin {"SUSPENDED", "NONE"} /\ opened.allocated = r
       /\ opened.status \in AttemptStates \ AttemptTerminal
  BY DEF AttemptStates, AttemptTerminal
<1> HIDE DEF opened
<1> QED
  BY <1>1, <1>2, <1>3, <1>5, <1>6, <1>7, <1>8, <1>9, <1>10, AttemptChangeHeld

\* Whatever the turn cost, a finished attempt leaves nothing of its reservation,
\* and one that only starts leaves all of it.
LEMMA ReserveGoesBack ==
  ASSUME NEW held \in Nat, NEW cost \in Nat
  PROVE  /\ AfterRelease(AfterConsume(held, held, cost), held, cost) = 0
         /\ AfterConsume(held, held, 0) = held
BY DEF AfterConsume, AfterRelease, Lesser, Greater

LEMMA ChargedHolds ==
  ASSUME NEW row \in TaskRow, NEW allocated \in Nat, NEW to, NEW cost \in Nat,
         NEW left, left = AfterConsume(row.reserved, allocated, cost)
  PROVE  /\ Charged(row, allocated, to, cost).state = row.state
         /\ Charged(row, allocated, to, cost).why = row.why
         /\ IF to \in AttemptTerminal
            THEN /\ Charged(row, allocated, to, cost).attempt = NoAttempt
                 /\ Charged(row, allocated, to, cost).reserved = AfterRelease(left, allocated, cost)
            ELSE /\ Charged(row, allocated, to, cost).attempt = row.attempt
                 /\ Charged(row, allocated, to, cost).reserved = left
<1>1. \A x, y : LET r == [Cas(row) EXCEPT !.used = x, !.attempt = NoAttempt, !.reserved = y] IN
        r.state = row.state /\ r.why = row.why /\ r.attempt = NoAttempt /\ r.reserved = y
  BY DEF Cas, TaskRow
<1>2. \A x, y : LET r == [Cas(row) EXCEPT !.used = x, !.reserved = y] IN
        r.state = row.state /\ r.why = row.why /\ r.attempt = row.attempt /\ r.reserved = y
  BY DEF Cas, TaskRow
<1> DEFINE spent == Cas(row).used + cost
           rest == AfterRelease(left, allocated, cost)
           ended == [Cas(row) EXCEPT !.used = spent, !.attempt = NoAttempt, !.reserved = rest]
           going == [Cas(row) EXCEPT !.used = spent, !.reserved = left]
<1>3. Charged(row, allocated, to, cost) = IF to \in AttemptTerminal THEN ended ELSE going
  BY Zenon DEF Charged
<1>4. /\ ended.state = row.state /\ ended.why = row.why
      /\ ended.attempt = NoAttempt /\ ended.reserved = rest
  BY <1>1
<1>5. /\ going.state = row.state /\ going.why = row.why
      /\ going.attempt = row.attempt /\ going.reserved = left
  BY <1>2
<1> HIDE DEF ended, going
<1> QED
  BY <1>3, <1>4, <1>5

\* An attempt that ends gives back what it held; one that starts keeps it.
LEMMA AttemptMoveHeld ==
  ASSUME TypeOK, HeldInv, NEW a \in Attempts, NEW to \in AttemptStates, NEW c \in Nat,
         NEW i \in Inters \cup {NoInter}, AttemptMove(a, to, c, i)
  PROVE  HeldInv' /\ \A u \in Tasks : EndingKept(u)
<1> SUFFICES ASSUME NEW t, t = attempt[a].task, NEW held, held = attempt[a].allocated,
                    NEW charged, charged = Charged(task[t], held, to, c),
                    NEW opened, opened = [attempt[a] EXCEPT !.status = to]
             PROVE  HeldInv' /\ \A u \in Tasks : EndingKept(u)
  OBVIOUS
<1>1. /\ LiveAttempt(a) /\ to \in {"RUNNING", "COMPLETED", "FAILED", "BUDGET_EXCEEDED", "CANCELLED"}
      /\ attempt[a].status = "CREATED" => to \in {"RUNNING", "CANCELLED"} /\ c = 0
      /\ CanMoveAttempt(attempt[a].status, to)
  BY DEF AttemptMove, AttemptTransition
<1>2. /\ attempt' = [attempt EXCEPT ![a] = opened]
      /\ \/ task' = [task EXCEPT ![t] = charged]
         \/ /\ to = "BUDGET_EXCEEDED" /\ CanMove(task[t].state, "WAITING")
            /\ task' = [task EXCEPT ![t] = WaitingFor(charged, i, "resource")]
  BY Zenon DEF AttemptMove, AttemptTransition
<1>3. attempt[a] \in AttemptRow /\ attempt[a].status # "NONE" /\ attempt[a].status # "SUSPENDED"
  BY <1>1 DEF TypeOK, LiveAttempt, AttemptStates, AttemptTerminal, HeldInv, NoneSuspended
<1>4. t \in Tasks /\ held \in Nat /\ Exists(t) /\ task[t] \in TaskRow
  BY <1>3, AttemptStatusType DEF TypeOK, HeldInv, AttemptsHaveTasks
<1>5. opened.status = to /\ opened.task = t /\ opened.allocated = held
  BY <1>3 DEF AttemptRow, NoAttemptRow
<1>6. \/ to = "RUNNING" /\ c = 0 /\ to \in AttemptStates \ AttemptTerminal
      \/ to \in AttemptTerminal
  <2>1. to = "RUNNING" => attempt[a].status = "CREATED"
    BY <1>1, <1>3 DEF CanMoveAttempt, AttemptMoves
  <2> QED
    BY <1>1, <2>1 DEF AttemptStates, AttemptTerminal
<1>7. Live(t) => task[t].attempt = a /\ task[t].reserved = held
  BY <1>1, <1>4, LedgerAssumption DEF HeldInv, OneAttemptPerTask, ReservedIsHeld
<1>8. Live(t) => \A b \in Attempts \ {a} : ~(LiveAttempt(b) /\ attempt[b].task = t)
  BY <1>4, <1>7 DEF HeldInv, OneAttemptPerTask
<1>9. /\ charged \in TaskRow /\ charged.state = task[t].state /\ charged.why = task[t].why
      /\ Live(t) => IF to \in AttemptTerminal
                    THEN charged.attempt = NoAttempt /\ charged.reserved = 0
                    ELSE charged.attempt = a /\ charged.reserved = held
  <2> DEFINE left == AfterConsume(task[t].reserved, held, c)
  <2>1. /\ charged.state = task[t].state /\ charged.why = task[t].why
        /\ IF to \in AttemptTerminal
           THEN charged.attempt = NoAttempt /\ charged.reserved = AfterRelease(left, held, c)
           ELSE charged.attempt = task[t].attempt /\ charged.reserved = left
    BY <1>4, ChargedHolds
  <2>2. Live(t) => AfterRelease(left, held, c) = 0 /\ (c = 0 => left = held)
    BY <1>4, <1>7, ReserveGoesBack
  <2>3. charged \in TaskRow
    BY <1>4, ChargedType
  <2> HIDE DEF left
  <2> QED
    BY <1>6, <1>7, <2>1, <2>2, <2>3
<1>10. CASE task' = [task EXCEPT ![t] = charged]
  <2>1. task[t].state # "NONE" /\ charged.state # "NONE"
    BY <1>4, <1>9 DEF Exists
  <2>2. Live(t) => charged.state \notin Terminal
    BY <1>9 DEF Live
  <2>3. opened.status \notin {"SUSPENDED", "NONE"}
    BY <1>1, <1>5
  <2>4. IF opened.status \in AttemptStates \ AttemptTerminal
        THEN Live(t) => charged.attempt = a /\ charged.reserved = opened.allocated
        ELSE Live(t) => charged.attempt = NoAttempt /\ charged.reserved = 0
    BY <1>5, <1>6, <1>9
  <2> QED
    BY ZenonT(40), <1>2, <1>4, <1>5, <1>8, <1>9, <1>10, <2>1, <2>2, <2>3, <2>4, AttemptChangeHeld
<1>11. CASE /\ to = "BUDGET_EXCEEDED" /\ CanMove(task[t].state, "WAITING")
            /\ task' = [task EXCEPT ![t] = WaitingFor(charged, i, "resource")]
  <2> DEFINE row == WaitingFor(charged, i, "resource")
  <2>1. row.state = "WAITING" /\ row.attempt = charged.attempt /\ row.reserved = charged.reserved
    BY <1>9, WaitingForHolds
  <2>2. task' = [task EXCEPT ![t] = row]
    BY <1>11
  <2> HIDE DEF row
  <2>3. Live(t) /\ row.state # "NONE" /\ row.state \notin Terminal
    BY <1>4, <1>11, <2>1, MovesAreLive DEF Live, Terminal
  <2>4. to \in AttemptTerminal
    BY <1>11 DEF AttemptTerminal
  <2>5. row.attempt = NoAttempt /\ row.reserved = 0
    BY <1>9, <2>1, <2>3, <2>4
  <2>6. opened.status \notin {"SUSPENDED", "NONE"} /\ opened.status \notin AttemptStates \ AttemptTerminal
    BY <1>1, <1>5, <2>4
  <2> QED
    BY <1>2, <1>4, <1>5, <1>8, <2>2, <2>3, <2>5, <2>6, AttemptChangeHeld
<1> QED
  BY <1>2, <1>10, <1>11

-----------------------------------------------------------------------------
(* The invariant, and what follows from it. *)

LEMMA InitHeld == Init => HeldInv
<1> SUFFICES ASSUME Init PROVE HeldInv
  OBVIOUS
<1>1. /\ \A t \in Tasks : task[t].state = "NONE" /\ task[t].why = ""
      /\ \A a \in Attempts : attempt[a].status = "NONE"
  BY DEF Init, NoRow, NoAttemptRow
<1>2. \A t \in Tasks : ~Live(t) /\ task[t].state \notin Terminal
  BY <1>1 DEF Live, TaskStates, Terminal
<1> QED
  BY <1>1, <1>2 DEF HeldInv, NoneSuspended, AttemptsHaveTasks, OneAttemptPerTask,
                    ReservedIsHeld, EndedHasNoWhy

LEMMA StepHeld ==
  TypeOK /\ WheelInv /\ HeldInv /\ [Next]_ledgerVars =>
    HeldInv' /\ \A u \in Tasks : EndingKept(u)
<1> SUFFICES ASSUME TypeOK, WheelInv, HeldInv, [Next]_ledgerVars
             PROVE  HeldInv' /\ \A u \in Tasks : EndingKept(u)
  OBVIOUS
<1> DEFINE Good == HeldInv' /\ \A u \in Tasks : EndingKept(u)
           Calm == attempt' = attempt /\ \A u \in Tasks : Steady(u)
<1>0. Calm => Good
  BY SteadyKeepsHeld
<1>1. attempt' = attempt /\ task' = task => Good
  <2>1. task' = task => \A u \in Tasks : Steady(u)
    BY DEF Steady, Exists, Live
  <2> QED
    BY <1>0, <2>1
<1> SUFFICES Good
  OBVIOUS
<1> HIDE DEF Good
<1>2. ASSUME NEW t \in Tasks, NEW to, NEW why, Transition(t, to, why)
      PROVE  Good
  <2>1. attempt' = attempt
    BY <1>2 DEF Transition
  <2> QED
    BY <1>0, <1>2, <2>1, TransitionIsSteady
<1>3. ASSUME NEW t \in Tasks, ResumeEnvironment(t) \/ RequestCancel(t) \/ Touch(t)
      PROVE  Good
  <2>1. attempt' = attempt
    BY <1>3 DEF ResumeEnvironment, RequestCancel, Touch
  <2> QED
    BY <1>0, <1>3, <2>1, ResumeEnvironmentIsSteady, RequestCancelIsSteady, TouchIsSteady
<1>4. ASSUME NEW t \in Tasks, NEW i, NEW kind, OpenInteraction(t, i, kind)
      PROVE  Good
  <2>1. attempt' = attempt
    BY <1>4 DEF OpenInteraction
  <2> QED
    BY <1>0, <1>4, <2>1, OpenInteractionIsSteady
<1>5. ASSUME NEW i \in Inters, NEW d, NEW n \in Nat, Respond(i, d, n)
      PROVE  Good
  <2>1. attempt' = attempt
    BY <1>5 DEF Respond
  <2> QED
    BY <1>0, <1>5, <2>1, RespondIsSteady
<1>6. ASSUME NEW p \in Projects, HandoverCommit(p)
      PROVE  Good
  BY <1>6, HandoverCommitHeld DEF Good
<1>7. ASSUME NEW t \in Tasks, NEW a \in Attempts, NEW r \in Nat, OpenAttempt(t, a, r)
      PROVE  Good
  BY <1>7, OpenAttemptHeld DEF Good
<1>8. ASSUME NEW a \in Attempts, NEW to \in AttemptStates, NEW c \in Nat,
             NEW i \in Inters \cup {NoInter}, AttemptMove(a, to, c, i)
      PROVE  Good
  BY <1>8, AttemptMoveHeld DEF Good
<1>9. CASE Next
  <2>1. CASE \E t \in Tasks, s \in Sessions, limit \in Limits : HandoverRead(t, s, limit)
    BY <1>1, <2>1 DEF HandoverRead
  <2>2. CASE \E p \in Projects : HandoverCommit(p) \/ SetOnline(p)
    BY <1>1, <1>6, <2>2 DEF SetOnline
  <2>3. CASE \E t \in Tasks, to \in TaskStates : DriverMove(t, to)
    BY <1>2, <2>3 DEF DriverMove
  <2>4. CASE \E t \in Tasks : EnvironmentLost(t) \/ ResumeEnvironment(t)
    BY <1>2, <1>3, <2>4 DEF EnvironmentLost
  <2>5. CASE \E t \in Tasks : RequestCancel(t) \/ TakeDrive(t) \/ EnqueueDrive(t) \/ Touch(t)
    BY <1>1, <1>3, <2>5 DEF TakeDrive, EnqueueDrive
  <2>6. CASE \E t \in Tasks, a \in Attempts, r \in Reserves : DriverOpensAttempt(t, a, r)
    BY <1>7, <2>6, LedgerAssumption DEF DriverOpensAttempt
  <2>7. CASE \E a \in Attempts, to \in AttemptStates, c \in Costs \cup {0}, i \in Inters \cup {NoInter} :
               AttemptMove(a, to, c, i)
    BY <1>8, <2>7, LedgerAssumption
  <2>8. CASE \E t \in Tasks, i \in Inters, kind \in Kinds : DriverOrTurnAsks(t, i, kind)
    BY <1>4, <2>8 DEF DriverOrTurnAsks
  <2>9. CASE \/ \E i \in Inters, d \in {"decline", "stop", "go"} : Respond(i, d, 0)
             \/ \E i \in Inters, amount \in TopUps : Respond(i, "topup", amount)
    BY <1>5, <2>9, LedgerAssumption
  <2>10. CASE \E i \in Inters : Lapse(i)
    BY <1>1, <2>10 DEF Lapse
  <2>11. CASE \E idle \in SUBSET Drivable : TakeOver(idle)
    BY <1>1, <2>11 DEF TakeOver
  <2> QED
    BY <1>9, <2>1, <2>2, <2>3, <2>4, <2>5, <2>6, <2>7, <2>8, <2>9, <2>10, <2>11, Zenon DEF Next
<1>10. CASE UNCHANGED ledgerVars
  BY <1>1, <1>10 DEF ledgerVars
<1> QED
  BY <1>9, <1>10

\* The strengthened invariant holds in every reachable state: attempts belong to
\* tasks that are there, none is suspended, and a live task names its one attempt.
THEOREM HeldInvariant == Spec => []HeldInv
<1> QED
  BY InitType, StepType, InitWheel, StepWheel, InitHeld, StepHeld, PTL DEF Spec

\* No interleaving of drivers, cancellations and late results ever runs two
\* attempts of one live task, or leaves it naming an attempt that is over.
THEOREM OneAttempt == Spec => []OneAttemptPerTask
<1>1. HeldInv => OneAttemptPerTask
  BY DEF HeldInv
<1> QED
  BY <1>1, HeldInvariant, PTL

\* Whatever the turns cost and however they end, what a live task has reserved
\* of its budget is exactly what its running attempt was given.
THEOREM ReservationsAreHeld == Spec => []ReservedIsHeld
<1>1. HeldInv => ReservedIsHeld
  BY DEF HeldInv
<1> QED
  BY <1>1, HeldInvariant, PTL

\* A late answer, a late result, a cancellation or a take-over never moves a
\* task that has ended, nor gives it back a reason to wait.
THEOREM EndingsAreFinal == Spec => EndedForGood
<1>1. TypeOK /\ WheelInv /\ HeldInv /\ [Next]_ledgerVars =>
        [\A t \in Tasks : task[t].state \in Terminal =>
           task'[t].state = task[t].state /\ task'[t].why = ""]_ledgerVars
  BY StepHeld DEF EndingKept
<1> QED
  BY <1>1, TypeCorrect, WheelInvariant, HeldInvariant, PTL DEF Spec, EndedForGood

=============================================================================
