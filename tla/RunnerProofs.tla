---------------------------- MODULE RunnerProofs ----------------------------
(***************************************************************************)
(* Theorems about Runner.tla: whatever the web process, the runners and    *)
(* the drivers of the tasks do, the tables move only as Ledger.tla lets    *)
(* them, so that what is proved of the ledger holds under the runner; and  *)
(* what the drivers promise one another.                                   *)
(***************************************************************************)
EXTENDS Runner, LedgerProofs

-----------------------------------------------------------------------------
(* Tasks only go on: the rows before and after a step of the ledger. *)

\* A row that goes on: it does not return to the line, nor to the states before a
\* task is accepted; a wish to cancel and a budget, once there, stay.
Onward(old, new) ==
  /\ new.state # "NONE"
  /\ new.queued => old.queued
  /\ new.state = "RECEIVED" => old.state = "RECEIVED"
  /\ new.state = "VALIDATING" => old.state \in {"RECEIVED", "VALIDATING"}
  /\ new.state = "REJECTED" => old.state \in {"VALIDATING", "REJECTED"}
  /\ old.cancel => new.cancel
  /\ old.limit # Unlimited => new.limit # Unlimited

TasksGoOn == \A t \in Tasks : Exists(t) => Onward(task[t], task'[t])

\* What else a row keeps when its state moves.
Kin(old, new) ==
  new.queued = old.queued /\ new.cancel = old.cancel /\ new.limit = old.limit

LEMMA KinOnward ==
  ASSUME NEW old \in TaskRow, NEW new, Kin(old, new), new.state # "NONE",
         new.state \in {"RECEIVED", "VALIDATING", "REJECTED"} => new.state = old.state
  PROVE  Onward(old, new)
BY DEF Kin, Onward

LEMMA CasKin ==
  ASSUME NEW row \in TaskRow
  PROVE  Kin(row, Cas(row)) /\ Cas(row).state = row.state
BY DEF Kin, Cas, TaskRow

LEMMA MovedToKin ==
  ASSUME NEW row \in TaskRow, NEW to, NEW why
  PROVE  Kin(row, MovedTo(row, to, why)) /\ MovedTo(row, to, why).state = to
BY DEF Kin, MovedTo, Cas, TaskRow

LEMMA ClosedKin ==
  ASSUME NEW row \in TaskRow, NEW outcome
  PROVE  Kin(row, Closed(row, outcome)) /\ Closed(row, outcome).state = outcome
BY DEF Kin, Closed, MovedTo, Cas, TaskRow

LEMMA WaitingForKin ==
  ASSUME NEW row \in TaskRow, NEW i, NEW kind
  PROVE  Kin(row, WaitingFor(row, i, kind)) /\ WaitingFor(row, i, kind).state = "WAITING"
BY DEF Kin, WaitingFor, TaskRow

LEMMA AnsweredKin ==
  ASSUME NEW row \in TaskRow
  PROVE  Kin(row, Answered(row)) /\ Answered(row).state = row.state
BY DEF Kin, Answered, Cas, TaskRow

LEMMA StartedKin ==
  ASSUME NEW row \in TaskRow
  PROVE  LET new == [Cas(row) EXCEPT !.queued = FALSE] IN
         /\ new.state = row.state /\ new.cancel = row.cancel
         /\ new.limit = row.limit /\ ~new.queued
BY DEF Cas, TaskRow

LEMMA ToppedUpOnward ==
  ASSUME NEW row \in TaskRow, row.state # "NONE", NEW amount \in Nat
  PROVE  Onward(row, ToppedUp(row, amount)) /\ ToppedUp(row, amount).state = row.state
<1> DEFINE limit == IF row.limit = Unlimited THEN amount ELSE row.limit + amount
<1>1. limit # Unlimited
  <2>1. row.limit \in Nat \/ row.limit = Unlimited
    BY DEF TaskRow
  <2> QED
    BY <2>1, LedgerAssumption
<1>2. ToppedUp(row, amount) = [row EXCEPT !.limit = limit]
  BY Zenon DEF ToppedUp
<1> HIDE DEF limit
<1> QED
  BY <1>1, <1>2 DEF Onward, TaskRow

LEMMA ChargedKin ==
  ASSUME NEW row \in TaskRow, NEW allocated, NEW to, NEW cost
  PROVE  Kin(row, Charged(row, allocated, to, cost))
         /\ Charged(row, allocated, to, cost).state = row.state
<1>1. \A x, y : LET r == [Cas(row) EXCEPT !.used = x, !.attempt = NoAttempt, !.reserved = y] IN
        Kin(row, r) /\ r.state = row.state
  BY DEF Kin, Cas, TaskRow
<1>2. \A x, y : LET r == [Cas(row) EXCEPT !.used = x, !.reserved = y] IN
        Kin(row, r) /\ r.state = row.state
  BY DEF Kin, Cas, TaskRow
<1> QED
  BY <1>1, <1>2, Zenon DEF Charged

\* One row changes, and it goes on.
LEMMA OneRowGoesOn ==
  ASSUME task \in [Tasks -> TaskRow], NEW t, NEW row, task' = [task EXCEPT ![t] = row],
         t \in Tasks /\ Exists(t) => Onward(task[t], row)
  PROVE  TasksGoOn
BY DEF TasksGoOn, Onward, Exists

\* A task ends and perhaps another leaves the line; `ts` is the table as the
\* caller has changed it.
LEMMA TerminateGoesOn ==
  ASSUME NEW ts \in [Tasks -> TaskRow], NEW is, NEW t \in Tasks, NEW outcome \in Terminal,
         \A u \in Tasks : Exists(u) => Onward(task[u], ts[u]),
         outcome = "REJECTED" => task[t].state = "VALIDATING",
         Terminate(ts, is, t, outcome)
  PROVE  TasksGoOn
<1> DEFINE s == ts[t].session
           closed == [ts EXCEPT ![t] = Closed(ts[t], outcome)]
           home == IF sess[s].active = t THEN [sess EXCEPT ![s] = UserDrives] ELSE sess
           oldest == NextQueued(closed, ProjectOf[s])
           startable == {u \in oldest : home[closed[u].session] = UserDrives}
<1>1. \/ task' = closed
      \/ \E u \in startable : task' = [closed EXCEPT ![u] = [Cas(closed[u]) EXCEPT !.queued = FALSE]]
  BY Zenon DEF Terminate
<1>2. closed \in [Tasks -> TaskRow]
  BY ClosedType DEF TaskStates
<1>3. \A u \in Tasks : Exists(u) => Onward(task[u], closed[u])
  <2>1. ASSUME NEW u \in Tasks, u # t, Exists(u) PROVE Onward(task[u], closed[u])
    BY <2>1
  <2>2. ASSUME Exists(t) PROVE Onward(task[t], closed[t])
    <3>1. Kin(ts[t], Closed(ts[t], outcome)) /\ Closed(ts[t], outcome).state = outcome
      BY ClosedKin
    <3>2. closed[t] = Closed(ts[t], outcome)
      OBVIOUS
    <3>3. Onward(task[t], ts[t])
      BY <2>2
    <3> HIDE DEF closed
    <3> QED
      BY <3>1, <3>2, <3>3 DEF Kin, Onward, Terminal
  <2> QED
    BY <2>1, <2>2
<1>4. startable \subseteq Tasks
  BY DEF NextQueued, QueuedIn
<1> HIDE DEF closed, startable
<1>5. ASSUME NEW u \in startable,
             task' = [closed EXCEPT ![u] = [Cas(closed[u]) EXCEPT !.queued = FALSE]]
      PROVE  TasksGoOn
  <2> DEFINE row == [Cas(closed[u]) EXCEPT !.queued = FALSE]
  <2>1. /\ row.state = closed[u].state /\ row.cancel = closed[u].cancel
        /\ row.limit = closed[u].limit /\ ~row.queued
    <3>1. closed[u] \in TaskRow
      BY <1>2, <1>4
    <3> QED
      BY <3>1, StartedKin
  <2>2. u \in Tasks /\ task'[u] = row /\ \A v \in Tasks \ {u} : task'[v] = closed[v]
    BY <1>2, <1>4, <1>5
  <2> HIDE DEF row
  <2> QED
    BY <1>3, <2>1, <2>2 DEF TasksGoOn, Onward
<1> QED
  BY <1>1, <1>3, <1>5 DEF TasksGoOn

LEMMA TransitionGoesOn ==
  ASSUME TypeOK, NEW t \in Tasks, NEW to, NEW why, Transition(t, to, why),
         to = "VALIDATING" => task[t].state = "RECEIVED"
  PROVE  TasksGoOn
<1>1. /\ task \in [Tasks -> TaskRow] /\ task[t] \in TaskRow
      /\ task[t].state \in TaskStates \ Terminal /\ to \in TaskStates
      /\ to # "RECEIVED" /\ (to = "REJECTED" => task[t].state = "VALIDATING")
  <2>1. CanMove(task[t].state, to)
    BY DEF Transition
  <2>2. to # "RECEIVED" /\ (to = "REJECTED" => task[t].state = "VALIDATING")
    BY <2>1 DEF CanMove, TaskMoves
  <2> QED
    BY <2>1, <2>2, MovesAreLive DEF TypeOK
<1>2. CASE to \in Terminal /\ Terminate(task, inter, t, to)
  <2>1. \A u \in Tasks : Exists(u) => Onward(task[u], task[u])
    BY DEF Onward, Exists
  <2> QED
    BY <1>1, <1>2, <2>1, TerminateGoesOn
<1>3. CASE to \notin Terminal /\ task' = [task EXCEPT ![t] = MovedTo(task[t], to, why)]
  <2> DEFINE new == MovedTo(task[t], to, why)
  <2>1. Kin(task[t], new) /\ new.state = to
    BY <1>1, MovedToKin
  <2>2. task' = [task EXCEPT ![t] = new]
    BY <1>3
  <2> HIDE DEF new
  <2>3. Onward(task[t], new)
    BY <1>1, <1>3, <2>1 DEF Kin, Onward, TaskStates, Terminal
  <2> QED
    BY <1>1, <2>2, <2>3, OneRowGoesOn
<1> QED
  BY <1>2, <1>3 DEF Transition

LEMMA ResumeGoesOn ==
  ASSUME TypeOK, NEW t \in Tasks, ResumeEnvironment(t)
  PROVE  TasksGoOn
<1>1. /\ task \in [Tasks -> TaskRow] /\ task[t] \in TaskRow
      /\ task' = [task EXCEPT ![t] = MovedTo(task[t], "QUEUED", "")]
  BY DEF TypeOK, ResumeEnvironment
<1> DEFINE new == MovedTo(task[t], "QUEUED", "")
<1>2. Kin(task[t], new) /\ new.state = "QUEUED"
  BY <1>1 DEF Kin, MovedTo, Cas, TaskRow
<1>3. task' = [task EXCEPT ![t] = new]
  BY <1>1
<1> HIDE DEF new
<1> QED
  BY <1>1, <1>2, <1>3, KinOnward, OneRowGoesOn

LEMMA RequestCancelGoesOn ==
  ASSUME TypeOK, NEW t \in Tasks, RequestCancel(t)
  PROVE  TasksGoOn
<1> DEFINE row == [Cas(task[t]) EXCEPT !.cancel = TRUE]
           wished == [task EXCEPT ![t] = row]
<1>1. task \in [Tasks -> TaskRow] /\ task[t] \in TaskRow /\ Live(t)
  BY DEF TypeOK, RequestCancel
<1>2. /\ row \in TaskRow /\ row.state = task[t].state /\ row.queued = task[t].queued
      /\ row.cancel /\ row.limit = task[t].limit
  BY <1>1 DEF Cas, TaskRow
<1>3. task' = wished \/ Terminate(wished, inter, t, "CANCELLED")
  BY Zenon DEF RequestCancel
<1> HIDE DEF row
<1>4. Exists(t) => Onward(task[t], row)
  BY <1>2 DEF Onward, Exists
<1>5. CASE task' = wished
  BY <1>1, <1>4, <1>5, OneRowGoesOn
<1>6. CASE Terminate(wished, inter, t, "CANCELLED")
  <2>1. /\ wished \in [Tasks -> TaskRow] /\ "CANCELLED" \in Terminal /\ "CANCELLED" # "REJECTED"
        /\ \A u \in Tasks : Exists(u) => Onward(task[u], wished[u])
    BY <1>1, <1>2, <1>4 DEF Terminal, Onward, Exists
  <2> HIDE DEF wished
  <2> QED
    BY <1>6, <2>1, TerminateGoesOn
<1> QED
  BY <1>3, <1>5, <1>6

LEMMA OpenInteractionGoesOn ==
  ASSUME TypeOK, NEW t \in Tasks, NEW i, NEW kind, OpenInteraction(t, i, kind)
  PROVE  TasksGoOn
<1>1. /\ task \in [Tasks -> TaskRow] /\ task[t] \in TaskRow
      /\ task' = [task EXCEPT ![t] = WaitingFor(task[t], i, kind)]
  BY DEF TypeOK, OpenInteraction
<1> DEFINE new == WaitingFor(task[t], i, kind)
<1>2. Kin(task[t], new) /\ new.state = "WAITING"
  BY <1>1, WaitingForKin
<1>3. task' = [task EXCEPT ![t] = new]
  BY <1>1
<1> HIDE DEF new
<1> QED
  BY <1>1, <1>2, <1>3, KinOnward, OneRowGoesOn

LEMMA RespondGoesOn ==
  ASSUME TypeOK, NEW i \in Inters, NEW decision, NEW amount \in Nat,
         Respond(i, decision, amount)
  PROVE  TasksGoOn
<1> SUFFICES ASSUME NEW t, t = inter[i].task,
                    NEW row, row = Answered(IF decision = "topup" THEN ToppedUp(task[t], amount)
                                            ELSE task[t]),
                    NEW answered, answered = [task EXCEPT ![t] = row]
             PROVE  TasksGoOn
  OBVIOUS
<1>1. task \in [Tasks -> TaskRow] /\ t \in Tasks /\ task[t] \in TaskRow
  BY InterStatusType DEF TypeOK, Respond, Answerable, InterStates
<1>2. \/ /\ CanMove(task[t].state, "FAILED")
         /\ Terminate(answered, Consumed(i), t, "FAILED")
      \/ /\ CanMove(task[t].state, "QUEUED")
         /\ task' = [answered EXCEPT ![t] = MovedTo(answered[t], "QUEUED", "")]
  BY Zenon DEF Respond
<1>3. task[t].state # "NONE"
  BY <1>2, MovesAreLive DEF TaskStates, Terminal
<1>4. /\ row \in TaskRow /\ row.state = task[t].state /\ Onward(task[t], row)
  <2>1. ToppedUp(task[t], amount) \in TaskRow
    BY <1>1, ToppedUpType
  <2>2. CASE decision = "topup"
    <3>1. row = Answered(ToppedUp(task[t], amount))
      BY <2>2, Zenon
    <3>2. Onward(task[t], ToppedUp(task[t], amount)) /\ ToppedUp(task[t], amount).state = task[t].state
      BY <1>1, <1>3, ToppedUpOnward
    <3>3. Kin(ToppedUp(task[t], amount), row) /\ row.state = task[t].state
      BY <2>1, <3>1, <3>2, AnsweredKin
    <3> QED
      BY <1>3, <2>1, <3>1, <3>2, <3>3, AnsweredType DEF Kin, Onward
  <2>3. CASE decision # "topup"
    <3>1. row = Answered(task[t])
      BY <2>3, Zenon
    <3> QED
      BY <1>1, <1>3, <3>1, AnsweredKin, AnsweredType, KinOnward
  <2> QED
    BY <2>2, <2>3
<1>5. /\ answered \in [Tasks -> TaskRow] /\ answered[t] = row
      /\ \A u \in Tasks : Exists(u) => Onward(task[u], answered[u])
  BY <1>1, <1>4 DEF Onward, Exists
<1>6. CASE Terminate(answered, Consumed(i), t, "FAILED")
  BY <1>5, <1>1, <1>6, TerminateGoesOn DEF Terminal
<1>7. CASE task' = [answered EXCEPT ![t] = MovedTo(row, "QUEUED", "")]
  <2> DEFINE new == MovedTo(row, "QUEUED", "")
  <2>1. Kin(row, new) /\ new.state = "QUEUED"
    BY <1>4 DEF Kin, MovedTo, Cas, TaskRow
  <2>2. task' = [answered EXCEPT ![t] = new]
    BY <1>7
  <2> HIDE DEF new
  <2>3. task' = [task EXCEPT ![t] = new]
    BY <1>1, <2>2
  <2>4. Onward(task[t], new)
    BY <1>4, <2>1 DEF Kin, Onward
  <2> QED
    BY <1>1, <2>3, <2>4, OneRowGoesOn
<1> QED
  BY <1>2, <1>5, <1>6, <1>7

LEMMA HandoverCommitGoesOn ==
  ASSUME TypeOK, WheelInv, NEW p \in Projects, HandoverCommit(p)
  PROVE  TasksGoOn
<1>1. task \in [Tasks -> TaskRow] /\ ~Exists(handing[p].task)
  BY DEF HandoverCommit, WheelInv, HandoverHoldsRows, TypeOK
<1>2. task' = task \/ task' = [task EXCEPT ![handing[p].task] = NewTask(handing[p])]
  BY Zenon DEF HandoverCommit
<1>3. task' = task => TasksGoOn
  BY DEF TasksGoOn, Onward, Exists
<1> QED
  BY <1>1, <1>2, <1>3, OneRowGoesOn

LEMMA OpenAttemptGoesOn ==
  ASSUME TypeOK, NEW t \in Tasks, NEW a \in Attempts, NEW r \in Nat, OpenAttempt(t, a, r)
  PROVE  TasksGoOn
<1> DEFINE n == task[t].reserved + r
           given == [Cas(task[t]) EXCEPT !.attempt = a, !.reserved = n]
           row == IF task[t].state = "QUEUED" THEN MovedTo(given, "RUNNING", "") ELSE given
<1>1. task \in [Tasks -> TaskRow] /\ task[t] \in TaskRow /\ Exists(t)
  BY DEF TypeOK, OpenAttempt
<1>2. n \in Nat
  <2>1. task[t].reserved \in Nat
    BY <1>1 DEF TaskRow
  <2> QED
    BY <2>1
<1>3. task' = [task EXCEPT ![t] = row]
  BY Zenon DEF OpenAttempt
<1> HIDE DEF n
<1>4. given \in TaskRow /\ Kin(task[t], given) /\ given.state = task[t].state
  BY <1>1, <1>2 DEF Kin, Cas, TaskRow
<1> HIDE DEF given
<1>5. Onward(task[t], row)
  <2>1. CASE row = given
    BY <1>1, <1>4, <2>1, KinOnward DEF Exists
  <2>2. CASE row = MovedTo(given, "RUNNING", "")
    <3> DEFINE new == MovedTo(given, "RUNNING", "")
    <3>1. Kin(given, new) /\ new.state = "RUNNING"
      BY <1>4 DEF Kin, MovedTo, Cas, TaskRow
    <3>2. row = new
      BY <2>2
    <3> HIDE DEF new, row
    <3> QED
      BY <1>4, <3>1, <3>2 DEF Kin, Onward
  <2> QED
    BY <2>1, <2>2, Zenon
<1> HIDE DEF row
<1> QED
  BY <1>1, <1>3, <1>5, OneRowGoesOn

LEMMA AttemptTransitionGoesOn ==
  ASSUME TypeOK, NEW a \in Attempts, NEW to \in AttemptStates, NEW cost \in Nat, NEW i,
         AttemptTransition(a, to, cost, i)
  PROVE  TasksGoOn
<1> SUFFICES ASSUME NEW t, t = attempt[a].task,
                    NEW charged, charged = Charged(task[t], attempt[a].allocated, to, cost)
             PROVE  TasksGoOn
  OBVIOUS
<1>1. \/ task' = [task EXCEPT ![t] = charged]
      \/ task' = [task EXCEPT ![t] = WaitingFor(charged, i, "resource")]
  BY Zenon DEF AttemptTransition
<1>2. task \in [Tasks -> TaskRow] /\ t \in Tasks /\ task[t] \in TaskRow /\ attempt[a].allocated \in Nat
  <2>1. attempt[a] \in AttemptRow /\ attempt[a].status # "NONE"
    BY DEF TypeOK, AttemptTransition, CanMoveAttempt, AttemptMoves
  <2>2. t \in Tasks /\ attempt[a].allocated \in Nat
    BY <2>1, AttemptStatusType
  <2> QED
    BY <2>2 DEF TypeOK
<1>3. Kin(task[t], charged) /\ charged.state = task[t].state
  BY <1>2, ChargedKin
<1>4. Exists(t) => Onward(task[t], charged)
  BY <1>2, <1>3, KinOnward DEF Exists
<1>5. CASE task' = [task EXCEPT ![t] = WaitingFor(charged, i, "resource")]
  <2> DEFINE new == WaitingFor(charged, i, "resource")
  <2>1. Kin(task[t], new) /\ new.state = "WAITING"
    <3>1. charged \in TaskRow
      BY <1>2, ChargedType
    <3>2. Kin(charged, new) /\ new.state = "WAITING"
      BY <3>1, WaitingForKin
    <3> QED
      BY <1>3, <3>2 DEF Kin
  <2>2. task' = [task EXCEPT ![t] = new]
    BY <1>5
  <2> HIDE DEF new
  <2> QED
    BY <1>2, <2>1, <2>2, KinOnward, OneRowGoesOn
<1> QED
  BY <1>1, <1>2, <1>4, <1>5, OneRowGoesOn

\* Whoever calls the ledger, every task that is there goes on.
LEMMA StepGoesOn ==
  ASSUME TypeOK, WheelInv, [Next]_ledgerVars
  PROVE  TasksGoOn
<1>1. task' = task => TasksGoOn
  BY DEF TasksGoOn, Onward, Exists
<1>2. CASE Next
  <2>1. CASE \E t \in Tasks, s \in Sessions, limit \in Limits : HandoverRead(t, s, limit)
    BY <1>1, <2>1 DEF HandoverRead
  <2>2. CASE \E p \in Projects : HandoverCommit(p) \/ SetOnline(p)
    BY <1>1, <2>2, HandoverCommitGoesOn DEF SetOnline
  <2>3. CASE \E t \in Tasks, to \in TaskStates : DriverMove(t, to)
    <3>1. PICK t \in Tasks, to \in TaskStates : DriverMove(t, to)
      BY <2>3
    <3>2. Transition(t, to, "") /\ (to = "VALIDATING" => task[t].state = "RECEIVED")
      BY <3>1 DEF DriverMove, DriverMoves
    <3> QED
      BY <3>2, TransitionGoesOn
  <2>4. CASE \E t \in Tasks : EnvironmentLost(t) \/ ResumeEnvironment(t)
    BY <2>4, TransitionGoesOn, ResumeGoesOn DEF EnvironmentLost
  <2>5. CASE \E t \in Tasks : RequestCancel(t) \/ TakeDrive(t) \/ EnqueueDrive(t) \/ Touch(t)
    <3>1. ASSUME NEW t \in Tasks, Touch(t) PROVE TasksGoOn
      <4>1. /\ task \in [Tasks -> TaskRow] /\ task[t] \in TaskRow /\ Exists(t)
            /\ task' = [task EXCEPT ![t] = Cas(task[t])]
        BY <3>1, Zenon DEF Touch, TypeOK
      <4>2. Onward(task[t], Cas(task[t]))
        BY <4>1, CasKin, KinOnward DEF Exists
      <4> QED
        BY <4>1, <4>2, OneRowGoesOn
    <3> QED
      BY <1>1, <2>5, <3>1, RequestCancelGoesOn DEF TakeDrive, EnqueueDrive
  <2>6. CASE \E t \in Tasks, a \in Attempts, r \in Reserves : DriverOpensAttempt(t, a, r)
    BY <2>6, OpenAttemptGoesOn, LedgerAssumption DEF DriverOpensAttempt
  <2>7. CASE \E a \in Attempts, to \in AttemptStates, c \in Costs \cup {0}, i \in Inters \cup {NoInter} :
               AttemptMove(a, to, c, i)
    BY <2>7, AttemptTransitionGoesOn, LedgerAssumption DEF AttemptMove
  <2>8. CASE \E t \in Tasks, i \in Inters, kind \in Kinds : DriverOrTurnAsks(t, i, kind)
    BY <2>8, OpenInteractionGoesOn DEF DriverOrTurnAsks
  <2>9. CASE \/ \E i \in Inters, d \in {"decline", "stop", "go"} : Respond(i, d, 0)
             \/ \E i \in Inters, amount \in TopUps : Respond(i, "topup", amount)
    BY <2>9, RespondGoesOn, LedgerAssumption
  <2>10. CASE \E i \in Inters : Lapse(i)
    BY <1>1, <2>10 DEF Lapse
  <2>11. CASE \E idle \in SUBSET Drivable : TakeOver(idle)
    BY <1>1, <2>11 DEF TakeOver
  <2> QED
    BY <1>2, <2>1, <2>2, <2>3, <2>4, <2>5, <2>6, <2>7, <2>8, <2>9, <2>10, <2>11, Zenon DEF Next
<1> QED
  BY <1>1, <1>2 DEF ledgerVars

-----------------------------------------------------------------------------
(* Commands wait only for tasks that are not in line. *)

Awake(t) == Exists(t) /\ ~task[t].queued

PendingAwake == \A t \in Tasks : pending[t] > 0 => Awake(t)

\* The end of a task enqueues a command only for the one it takes out of the line.
LEMMA TerminateEnqueues ==
  ASSUME pending \in [Tasks -> Nat], NEW ts \in [Tasks -> TaskRow], NEW is, NEW t,
         NEW outcome \in TaskStates, Terminate(ts, is, t, outcome),
         NEW u \in Tasks, pending'[u] # pending[u]
  PROVE  Awake(u)'
<1> DEFINE s == ts[t].session
           closed == [ts EXCEPT ![t] = Closed(ts[t], outcome)]
           home == IF sess[s].active = t THEN [sess EXCEPT ![s] = UserDrives] ELSE sess
           oldest == NextQueued(closed, ProjectOf[s])
           startable == {v \in oldest : home[closed[v].session] = UserDrives}
           row(v) == [Cas(closed[v]) EXCEPT !.queued = FALSE]
<1>1. PICK v \in startable : /\ task' = [closed EXCEPT ![v] = row(v)]
                             /\ pending' = [pending EXCEPT ![v] = @ + 1]
  BY Zenon DEF Terminate
<1>2. v \in Tasks /\ closed[v].state = "RECEIVED"
  BY DEF NextQueued, QueuedIn
<1>3. closed \in [Tasks -> TaskRow]
  BY ClosedType
<1> HIDE DEF closed, startable
<1>4. v = u
  BY <1>1, <1>2
<1>5. closed[v] \in TaskRow
  BY <1>2, <1>3
<1>6. row(v).state = "RECEIVED" /\ ~row(v).queued
  BY <1>2, <1>5, StartedKin
<1>7. task'[u] = row(v)
  BY <1>1, <1>3, <1>4
<1> HIDE DEF row
<1> QED
  BY <1>6, <1>7 DEF Awake, Exists

LEMMA StepPending ==
  ASSUME TypeOK, WheelInv, PendingAwake, [Next]_ledgerVars
  PROVE  PendingAwake'
<1>1. TasksGoOn
  BY StepGoesOn
<1>2. \A t \in Tasks : Awake(t) => Awake(t)'
  BY <1>1 DEF TasksGoOn, Onward, Awake, Exists
<1>3. pending \in [Tasks -> Nat] /\ task \in [Tasks -> TaskRow]
  BY DEF TypeOK
<1> SUFFICES ASSUME NEW u \in Tasks, pending'[u] > 0 PROVE Awake(u)'
  BY DEF PendingAwake
<1>4. pending'[u] > pending[u] \/ pending[u] > 0
  BY <1>3
<1> SUFFICES ASSUME pending'[u] > pending[u] PROVE Awake(u)'
  BY <1>2, <1>4 DEF PendingAwake
<1>5. pending'[u] # pending[u] /\ pending' # pending
  BY <1>3
<1>6. Live(u) /\ task[u].state # "RECEIVED" => Awake(u)
  BY DEF WheelInv, RowsInLine, Awake, Live, Exists, TaskStates
<1>7. ASSUME NEW t \in Tasks, NEW to, NEW why, Transition(t, to, why) PROVE Awake(u)'
  BY <1>3, <1>5, <1>7, TerminateEnqueues DEF Transition, TaskStates
<1>8. ASSUME NEW t \in Tasks, ResumeEnvironment(t) PROVE Awake(u)'
  <2>1. u = t
    BY <1>3, <1>5, <1>8 DEF ResumeEnvironment
  <2>2. Awake(u)
    BY <1>6, <1>8, <2>1 DEF ResumeEnvironment, Live, TaskStates, Terminal
  <2> QED
    BY <1>2, <2>2
<1>9. ASSUME NEW t \in Tasks, RequestCancel(t) PROVE Awake(u)'
  <2> DEFINE row == [Cas(task[t]) EXCEPT !.cancel = TRUE]
             wished == [task EXCEPT ![t] = row]
  <2>1. pending' = pending \/ Terminate(wished, inter, t, "CANCELLED")
    BY <1>9, Zenon DEF RequestCancel
  <2>2. row \in TaskRow
    <3>1. task[t] \in TaskRow
      BY <1>3
    <3> QED
      BY <3>1 DEF Cas, TaskRow
  <2>3. wished \in [Tasks -> TaskRow] /\ "CANCELLED" \in TaskStates
    BY <1>3, <2>2 DEF TaskStates, Terminal
  <2> HIDE DEF wished
  <2> QED
    BY <1>3, <1>5, <2>1, <2>3, TerminateEnqueues
<1>10. ASSUME NEW i \in Inters, NEW d, NEW n \in Nat, Respond(i, d, n) PROVE Awake(u)'
  <2> DEFINE t == inter[i].task
             row == IF d = "topup" THEN ToppedUp(task[t], n) ELSE task[t]
             answered == [task EXCEPT ![t] = Answered(row)]
  <2>1. pending' = pending \/ Terminate(answered, Consumed(i), t, "FAILED")
    BY <1>10, Zenon DEF Respond
  <2>2. t \in Tasks => Answered(row) \in TaskRow
    BY <1>3, AnsweredType, ToppedUpType, Zenon
  <2>3. answered \in [Tasks -> TaskRow] /\ "FAILED" \in TaskStates
    BY <1>3, <2>2, Zenon DEF TaskStates, Terminal
  <2> HIDE DEF answered
  <2> QED
    BY <1>3, <1>5, <2>1, <2>3, TerminateEnqueues
<1>11. ASSUME NEW t \in Tasks, EnqueueDrive(t) PROVE Awake(u)'
  <2>1. u = t
    BY <1>3, <1>5, <1>11 DEF EnqueueDrive
  <2>2. Awake(u)
    BY <1>11, <2>1 DEF EnqueueDrive, Awake
  <2> QED
    BY <1>2, <2>2
<1>12. ASSUME NEW t \in Tasks, TakeDrive(t) PROVE Awake(u)'
  BY <1>3, <1>12 DEF TakeDrive
<1>13. ASSUME NEW idle \in SUBSET Drivable, TakeOver(idle) PROVE Awake(u)'
  <2>1. u \in idle
    BY <1>3, <1>5, <1>13 DEF TakeOver
  <2>2. Awake(u)
    BY <1>6, <2>1 DEF Drivable, Live, TaskStates, Terminal
  <2> QED
    BY <1>2, <2>2
<1>14. CASE Next
  <2>1. CASE \E t \in Tasks, s \in Sessions, limit \in Limits : HandoverRead(t, s, limit)
    BY <1>5, <2>1 DEF HandoverRead
  <2>2. CASE \E p \in Projects : HandoverCommit(p) \/ SetOnline(p)
    BY <1>5, <2>2 DEF SetOnline, HandoverCommit
  <2>3. CASE \E t \in Tasks, to \in TaskStates : DriverMove(t, to)
    BY <1>7, <2>3 DEF DriverMove
  <2>4. CASE \E t \in Tasks : EnvironmentLost(t) \/ ResumeEnvironment(t)
    BY <1>7, <1>8, <2>4 DEF EnvironmentLost
  <2>5. CASE \E t \in Tasks : RequestCancel(t) \/ TakeDrive(t) \/ EnqueueDrive(t) \/ Touch(t)
    BY <1>5, <1>9, <1>11, <1>12, <2>5 DEF Touch
  <2>6. CASE \E t \in Tasks, a \in Attempts, r \in Reserves : DriverOpensAttempt(t, a, r)
    BY <1>5, <2>6 DEF DriverOpensAttempt, OpenAttempt
  <2>7. CASE \E a \in Attempts, to \in AttemptStates, c \in Costs \cup {0}, i \in Inters \cup {NoInter} :
               AttemptMove(a, to, c, i)
    BY <1>5, <2>7 DEF AttemptMove, AttemptTransition
  <2>8. CASE \E t \in Tasks, i \in Inters, kind \in Kinds : DriverOrTurnAsks(t, i, kind)
    BY <1>5, <2>8 DEF DriverOrTurnAsks, OpenInteraction
  <2>9. CASE \/ \E i \in Inters, d \in {"decline", "stop", "go"} : Respond(i, d, 0)
             \/ \E i \in Inters, amount \in TopUps : Respond(i, "topup", amount)
    BY <1>10, <2>9, LedgerAssumption
  <2>10. CASE \E i \in Inters : Lapse(i)
    BY <1>5, <2>10 DEF Lapse
  <2>11. CASE \E idle \in SUBSET Drivable : TakeOver(idle)
    BY <1>13, <2>11
  <2> QED
    BY <1>14, <2>1, <2>2, <2>3, <2>4, <2>5, <2>6, <2>7, <2>8, <2>9, <2>10, <2>11, Zenon DEF Next
<1> QED
  BY <1>5, <1>14 DEF ledgerVars

-----------------------------------------------------------------------------
(* What the drivers rely on. *)

\* One driver's memory, and the rows of the runner's own tables.  Two drivers of
\* one task may both move its cursor, so nothing bounds it here.
DriverRow ==
  [pc: Pcs, attempt: Attempts \cup {NoAttempt}, step: Nat, outcome: Outcomes \cup {""},
   cost: Costs \cup {0}]

RunnerShape ==
  /\ driver \in [Runners -> [Tasks -> DriverRow]]
  /\ cursor \in [Tasks -> Nat] /\ stepOf \in [Attempts -> Nat]
  /\ faults \in Nat /\ lapses \in Nat

\* How far a driver has come, and so what the row of its task cannot be any more.
Came(d, row) ==
  /\ d.pc # "off" => row.state # "NONE" /\ ~row.queued
  /\ d.pc \notin {"off", "leaving", "begin"} => row.state # "RECEIVED"
  /\ d.pc \notin {"off", "leaving", "begin", "validate"} => row.state # "VALIDATING"
  /\ d.pc \notin {"off", "leaving", "begin", "validate", "step"} => row.state # "REJECTED"

\* What a driver has read of its task and acts on later.
Saw(d, row) ==
  /\ d.pc = "broke" \/ (d.pc = "settle" /\ d.outcome = "over") => row.limit # Unlimited
  /\ d.pc \in {"settle", "after"} /\ d.outcome = "cancel" => row.cancel

\* The attempt a driver has in hand.
InHand(d, t, as) ==
  d.pc \in AtTurn =>
    /\ d.attempt \in Attempts /\ as[d.attempt].task = t
    /\ as[d.attempt].status = IF d.pc \in {"judge", "settle"} THEN "RUNNING" ELSE "CREATED"

DriverOK(d, t, row, as) == Came(d, row) /\ Saw(d, row) /\ InHand(d, t, as)

\* No two drivers have the same attempt in hand.
DriversOK ==
  /\ \A r \in Runners, t \in Tasks : DriverOK(driver[r][t], t, task[t], attempt)
  /\ \A r, q \in Runners, t \in Tasks :
       /\ driver[r][t].pc \in AtTurn /\ driver[q][t].pc \in AtTurn
       /\ driver[r][t].attempt = driver[q][t].attempt
       => r = q

TurnsExist == turning \subseteq {t \in Tasks : Exists(t)}
OwedDrives == \A c \in owed : c.kind = "task.drive" => c.task \in Tasks

RunnerInv == RunnerShape /\ PendingAwake /\ OwedDrives /\ TurnsExist /\ DriversOK

LEMMA DriverTyped ==
  ASSUME RunnerShape, NEW r \in Runners, NEW t \in Tasks
  PROVE  driver[r][t] \in DriverRow
BY DEF RunnerShape

-----------------------------------------------------------------------------
(* Every step of the runner is a step of the ledger, or leaves its tables alone. *)

LEMMA MovesAreSteps ==
  ASSUME NEW t \in Tasks, NEW to \in TaskStates, DriverMove(t, to)
  PROVE  Next
BY Zenon DEF Next

LEMMA WebRefines ==
  ASSUME OwedDrives, Web
  PROVE  [Next]_ledgerVars
<1>1. CASE \E t \in Tasks, s \in Sessions, limit \in Limits : AskForHandover(t, s, limit)
  BY <1>1, Zenon DEF AskForHandover, Next
<1>2. CASE \E p \in Projects : FinishHandover(p)
  BY <1>2, Zenon DEF FinishHandover, Next
<1>3. CASE \E t \in Tasks : CancelTask(t)
  BY <1>3, Zenon DEF CancelTask, Next
<1>4. CASE \E i \in Inters, d \in {"go", "stop", "decline"}, halt \in BOOLEAN :
             AnswerInteraction(i, d, 0, halt)
  <2>1. PICK i \in Inters, d \in {"go", "stop", "decline"} : Respond(i, d, 0)
    BY <1>4, Zenon DEF AnswerInteraction
  <2>2. d \in {"decline", "stop", "go"}
    OBVIOUS
  <2> QED
    BY <2>1, <2>2, Zenon DEF Next
<1>5. CASE \E i \in Inters, amount \in TopUps : AnswerInteraction(i, "topup", amount, FALSE)
  <2>1. \E i \in Inters, amount \in TopUps : Respond(i, "topup", amount)
    BY <1>5, Zenon DEF AnswerInteraction
  <2> QED
    BY <2>1, Zenon DEF Next
<1>6. CASE \E c \in owed : Post(c)
  <2>1. PICK c \in owed : Post(c)
    BY <1>6
  <2>2. CASE c.kind = "task.drive" /\ EnqueueDrive(c.task)
    <3>1. c.task \in Tasks
      BY <2>2 DEF OwedDrives
    <3> QED
      BY <2>2, <3>1, Zenon DEF Next
  <2>3. CASE UNCHANGED ledgerVars
    BY <2>3
  <2> QED
    BY <2>1, <2>2, <2>3 DEF Post
<1>7. CASE WebDies
  BY <1>7 DEF WebDies
<1> QED
  BY <1>1, <1>2, <1>3, <1>4, <1>5, <1>6, <1>7, Zenon DEF Web

LEMMA LoopRefines ==
  ASSUME NEW r \in Runners, Loop(r)
  PROVE  [Next]_ledgerVars
<1>1. CASE RunOnce(r)
  <2>1. Unmanned(r) \in SUBSET Drivable
    BY DEF Unmanned, Drivable
  <2>2. TakeOver(Unmanned(r)) \/ UNCHANGED ledgerVars
    BY <1>1, Zenon DEF RunOnce
  <2> QED
    BY <2>1, <2>2, Zenon DEF Next
<1>2. CASE Crash(r)
  BY <1>2 DEF Crash
<1>3. CASE \E t \in Tasks : HandleDrive(r, t) \/ Reconnect(r, t)
  <2>1. \E t \in Tasks : TakeDrive(t) \/ ResumeEnvironment(t)
    BY <1>3, Zenon DEF HandleDrive, Reconnect
  <2> QED
    BY <2>1, Zenon DEF Next
<1>4. CASE \E c \in queue : HandleAnswer(r, c) \/ HandleInterrupt(r, c)
  BY <1>4, Zenon DEF HandleAnswer, HandleInterrupt
<1>5. CASE \E c : CommandFails(r, c)
  <2>1. UNCHANGED ledgerVars \/ \E t \in Tasks : TakeDrive(t)
    BY <1>5, Zenon DEF CommandFails
  <2> QED
    BY <2>1, Zenon DEF Next
<1> QED
  BY <1>1, <1>2, <1>3, <1>4, <1>5, Zenon DEF Loop

\* A driver moves its task only as a driver may.
LEMMA DriverTransition ==
  ASSUME NEW t \in Tasks, NEW to \in TaskStates, Awake(t), Transition(t, to, ""),
         <<task[t].state, to>> \in DriverMoves, to = "CANCELLED" => task[t].cancel
  PROVE  Next
<1>1. DriverMove(t, to)
  BY Zenon DEF DriverMove, Awake
<1> QED
  BY <1>1, MovesAreSteps

LEMMA AskRefines ==
  ASSUME NEW r \in Runners, NEW t \in Tasks, NEW kind \in Kinds, AskAndLeave(r, t, kind),
         kind = "resource" => task[t].limit # Unlimited
  PROVE  [Next]_ledgerVars
<1>1. CASE \E i \in Inters : OpenInteraction(t, i, kind)
  <2>1. \E i \in Inters : DriverOrTurnAsks(t, i, kind)
    BY <1>1, Zenon DEF DriverOrTurnAsks
  <2> QED
    BY <2>1, Zenon DEF Next
<1> QED
  BY <1>1, Zenon DEF AskAndLeave

LEMMA SettleRefines ==
  ASSUME TypeOK, RunnerShape, NEW r \in Runners, NEW t \in Tasks, DriverOK(driver[r][t], t, task[t], attempt),
         Settle(r, t)
  PROVE  [Next]_ledgerVars
<1> DEFINE d == driver[r][t]
<1>1. /\ d.attempt \in Attempts /\ attempt[d.attempt].task = t
      /\ attempt[d.attempt].status = "RUNNING"
      /\ d.outcome = "over" => task[t].limit # Unlimited
      /\ d.outcome = "cancel" => task[t].cancel
  BY DEF Settle, At, DriverOK, InHand, Saw, AtTurn
<1>2. d.cost \in Costs \cup {0}
  BY DriverTyped DEF DriverRow
<1>3. LiveAttempt(d.attempt)
  BY <1>1 DEF LiveAttempt, AttemptStates, AttemptTerminal
<1>4. CASE d.outcome # "over" /\ AttemptTransition(d.attempt, EndOf(d.outcome), d.cost, NoInter)
  <2>1. EndOf(d.outcome) \in {"CANCELLED", "COMPLETED", "FAILED"}
    BY <1>4 DEF EndOf
  <2>2. AttemptMove(d.attempt, EndOf(d.outcome), d.cost, NoInter)
    <3> DEFINE to == EndOf(d.outcome)
    <3>1. to \in {"CANCELLED", "COMPLETED", "FAILED"} /\ AttemptTransition(d.attempt, to, d.cost, NoInter)
      BY <1>4, <2>1
    <3> HIDE DEF to, d
    <3>2. /\ to \in {"RUNNING", "COMPLETED", "FAILED", "BUDGET_EXCEEDED", "CANCELLED"}
          /\ attempt[d.attempt].status # "CREATED" /\ to # "BUDGET_EXCEEDED"
      BY <1>1, <3>1
    <3>3. AttemptMove(d.attempt, to, d.cost, NoInter)
      BY <1>3, <3>1, <3>2, Zenon DEF AttemptMove
    <3> QED
      BY <3>3 DEF to
  <2>3. EndOf(d.outcome) \in AttemptStates
    BY <2>1 DEF AttemptStates, AttemptTerminal
  <2>4. NoInter \in Inters \cup {NoInter}
    OBVIOUS
  <2> HIDE DEF d
  <2> QED
    BY <1>1, <1>2, <2>2, <2>3, <2>4, Zenon DEF Next
<1>5. CASE d.outcome = "over" /\ \E i \in Inters : AttemptTransition(d.attempt, "BUDGET_EXCEEDED", d.cost, i)
  <2>1. PICK i \in Inters : AttemptTransition(d.attempt, "BUDGET_EXCEEDED", d.cost, i)
    BY <1>5
  <2>2. i # NoInter
    BY LedgerAssumption
  <2>3. AttemptMove(d.attempt, "BUDGET_EXCEEDED", d.cost, i)
    BY <1>1, <1>3, <1>5, <2>1, <2>2 DEF AttemptMove
  <2>4. "BUDGET_EXCEEDED" \in AttemptStates /\ i \in Inters \cup {NoInter}
    BY DEF AttemptStates, AttemptTerminal
  <2> HIDE DEF d
  <2> QED
    BY <1>1, <1>2, <2>3, <2>4, Zenon DEF Next
<1>6. CASE UNCHANGED ledgerVars
  BY <1>6
<1> QED
  BY <1>4, <1>5, <1>6, Zenon DEF Settle

LEMMA AfterTurnRefines ==
  ASSUME TypeOK, NEW r \in Runners, NEW t \in Tasks, DriverOK(driver[r][t], t, task[t], attempt),
         AfterTurn(r, t)
  PROVE  [Next]_ledgerVars
<1>1. /\ Awake(t) /\ task[t].state \notin {"NONE", "RECEIVED", "VALIDATING", "REJECTED"}
      /\ driver[r][t].outcome = "cancel" => task[t].cancel
  BY DEF AfterTurn, At, DriverOK, Came, Saw, Awake, Exists
<1>2. task[t].state \in {"QUEUED", "RUNNING", "WAITING", "SUCCEEDED", "FAILED", "CANCELLED"}
  <2>1. task[t].state \in TaskStates \cup {"NONE"}
    BY DEF TypeOK, TaskRow
  <2> QED
    BY <1>1, <2>1 DEF TaskStates, Terminal
<1>3. CASE /\ driver[r][t].outcome = "cancel" /\ task[t].state \notin Terminal
           /\ Transition(t, "CANCELLED", "")
  <2>1. <<task[t].state, "CANCELLED">> \in DriverMoves /\ "CANCELLED" \in TaskStates
    BY <1>2, <1>3 DEF DriverMoves, Terminal, TaskStates
  <2> QED
    BY <1>1, <1>3, <2>1, DriverTransition
<1>4. CASE CanMove(task[t].state, "WAITING") /\ Transition(t, "WAITING", "ENVIRONMENT")
  <2>1. task[t].state \in {"QUEUED", "RUNNING"}
    BY <1>2, <1>4 DEF CanMove, TaskMoves
  <2>2. EnvironmentLost(t)
    BY <1>4, <2>1, Zenon DEF EnvironmentLost
  <2> QED
    BY <2>2, Zenon DEF Next
<1>5. CASE CanMove(task[t].state, "FAILED") /\ Transition(t, "FAILED", "")
  <2>1. <<task[t].state, "FAILED">> \in DriverMoves /\ "FAILED" \in TaskStates /\ "FAILED" # "CANCELLED"
    BY <1>2, <1>5 DEF CanMove, TaskMoves, DriverMoves, TaskStates, Terminal
  <2> QED
    BY <1>1, <1>5, <2>1, DriverTransition
<1>6. CASE AskAndLeave(r, t, "question")
  <2>1. "question" \in Kinds /\ "question" # "resource"
    BY DEF Kinds
  <2> QED
    BY <1>6, <2>1, AskRefines
<1>7. CASE UNCHANGED ledgerVars
  BY <1>7
<1> QED
  BY <1>3, <1>4, <1>5, <1>6, <1>7, Zenon DEF AfterTurn, Try

LEMMA InterpretRefines ==
  ASSUME TypeOK, RunnerShape, NEW r \in Runners, NEW t \in Tasks, DriverOK(driver[r][t], t, task[t], attempt),
         Interpret(r, t)
  PROVE  [Next]_ledgerVars
<1>0. driver[r][t].pc # "off" => Awake(t)
  BY DEF DriverOK, Came, Awake, Exists
<1>1. CASE Begin(r, t) /\ ~UNCHANGED ledgerVars
  <2>1. Awake(t) /\ task[t].state = "RECEIVED" /\ Transition(t, "VALIDATING", "")
    BY <1>0, <1>1 DEF Begin, At
  <2>2. <<task[t].state, "VALIDATING">> \in DriverMoves /\ "VALIDATING" \in TaskStates
        /\ "VALIDATING" # "CANCELLED"
    BY <2>1 DEF DriverMoves, TaskStates
  <2> QED
    BY <2>1, <2>2, DriverTransition
<1>2. CASE Validate(r, t) /\ ~UNCHANGED ledgerVars
  <2>1. PICK to \in {"QUEUED", "REJECTED"} : Transition(t, to, "")
    BY <1>2 DEF Validate
  <2>2. Awake(t) /\ task[t].state = "VALIDATING"
    BY <1>0, <1>2 DEF Validate, At
  <2>3. <<task[t].state, to>> \in DriverMoves /\ to \in TaskStates /\ to # "CANCELLED"
    BY <2>2 DEF DriverMoves, TaskStates, Terminal
  <2> QED
    BY <2>1, <2>2, <2>3, DriverTransition
<1>3. CASE Step(r, t) /\ ~UNCHANGED ledgerVars
  <2>1. /\ Awake(t) /\ task[t].state \in {"QUEUED", "RUNNING"}
        /\ \/ Transition(t, "FAILED", "")
           \/ Transition(t, "CANCELLED", "") /\ task[t].cancel
    BY <1>0, <1>3 DEF Step, At
  <2>2. /\ <<task[t].state, "FAILED">> \in DriverMoves /\ "FAILED" \in TaskStates
        /\ <<task[t].state, "CANCELLED">> \in DriverMoves /\ "CANCELLED" \in TaskStates
        /\ "FAILED" # "CANCELLED"
    BY <2>1 DEF DriverMoves, TaskStates, Terminal
  <2> QED
    BY <2>1, <2>2, DriverTransition
<1>4. CASE Open(r, t) /\ ~UNCHANGED ledgerVars
  <2>1. PICK a \in Attempts, reserve \in Reserves : OpenAttempt(t, a, reserve)
    BY <1>4, Zenon DEF Open
  <2>2. task[t].state \notin {"RECEIVED", "VALIDATING", "REJECTED"}
    BY <1>4 DEF Open, At, DriverOK, Came
  <2>3. DriverOpensAttempt(t, a, reserve)
    BY <2>1, <2>2, Zenon DEF DriverOpensAttempt
  <2> QED
    BY <2>3, Zenon DEF Next
<1>5. CASE Broke(r, t)
  <2>1. "resource" \in Kinds /\ task[t].limit # Unlimited /\ AskAndLeave(r, t, "resource")
    BY <1>5 DEF Broke, At, DriverOK, Saw, Kinds
  <2> QED
    BY <2>1, AskRefines
<1>6. CASE AskFirst(r, t) \/ Turned(r, t)
  <2> DEFINE a == driver[r][t].attempt
             to == IF AskFirst(r, t) THEN "CANCELLED" ELSE "RUNNING"
  <2>1. /\ a \in Attempts /\ attempt[a].status = "CREATED" /\ to \in {"CANCELLED", "RUNNING"}
        /\ AttemptTransition(a, to, 0, NoInter)
    BY <1>6 DEF AskFirst, Turned, At, DriverOK, InHand, AtTurn
  <2> HIDE DEF a, to
  <2>2. AttemptMove(a, to, 0, NoInter)
    BY <2>1 DEF AttemptMove, LiveAttempt, AttemptStates, AttemptTerminal
  <2>3. to \in AttemptStates /\ 0 \in Costs \cup {0} /\ NoInter \in Inters \cup {NoInter}
    BY <2>1 DEF AttemptStates, AttemptTerminal
  <2> QED
    BY <2>1, <2>2, <2>3, Zenon DEF Next
<1>7. CASE Asking(r, t) /\ ~UNCHANGED ledgerVars
  <2>1. PICK i \in Inters : OpenInteraction(t, i, "question")
    BY <1>7, Zenon DEF Asking
  <2>2. DriverOrTurnAsks(t, i, "question") /\ "question" \in Kinds
    BY <2>1 DEF DriverOrTurnAsks, Kinds
  <2> QED
    BY <2>2, Zenon DEF Next
<1>8. CASE Start(r, t) \/ Judge(r, t) \/ Left(r, t)
  BY <1>8, Zenon DEF Start, Judge, Left
<1>9. CASE Settle(r, t)
  BY <1>9, SettleRefines
<1>10. CASE AfterTurn(r, t)
  BY <1>10, AfterTurnRefines
<1>11. CASE MoveCursor(r, t)
  BY <1>11, Zenon DEF MoveCursor, Next
<1>12. CASE Requeue(r, t) /\ ~UNCHANGED ledgerVars
  <2>1. Awake(t) /\ task[t].state = "RUNNING" /\ Transition(t, "QUEUED", "")
    BY <1>0, <1>12 DEF Requeue, At
  <2>2. <<task[t].state, "QUEUED">> \in DriverMoves /\ "QUEUED" \in TaskStates
        /\ "QUEUED" # "CANCELLED"
    BY <2>1 DEF DriverMoves, TaskStates
  <2> QED
    BY <2>1, <2>2, DriverTransition
<1>13. CASE Finish(r, t) /\ ~UNCHANGED ledgerVars
  <2>1. /\ Awake(t)
        /\ \/ task[t].state = "QUEUED" /\ Transition(t, "RUNNING", "")
           \/ task[t].state = "RUNNING" /\ Transition(t, "SUCCEEDED", "")
    BY <1>0, <1>13 DEF Finish, At
  <2>2. PICK to \in {"RUNNING", "SUCCEEDED"} :
          Transition(t, to, "") /\ <<task[t].state, to>> \in DriverMoves
    BY <2>1 DEF DriverMoves
  <2>3. to \in TaskStates /\ to # "CANCELLED"
    BY DEF TaskStates, Terminal
  <2> QED
    BY <2>1, <2>2, <2>3, DriverTransition
<1> QED
  BY <1>1, <1>2, <1>3, <1>4, <1>5, <1>6, <1>7, <1>8, <1>9, <1>10, <1>11, <1>12, <1>13,
     Zenon DEF Interpret

\* A turn asks for the task that holds the wheel of its conversation now.
LEMMA TurnAsksRefines ==
  ASSUME TypeOK, WheelInv, TurnsExist, NEW r, NEW t \in Tasks, NEW i \in Inters,
         NEW kind \in TurnKinds, TurnAsks(r, t, i, kind)
  PROVE  Next
<1> DEFINE u == sess[task[t].session].active
<1>1. Exists(t) /\ task[t].session \in Sessions
  BY DEF TurnAsks, TurnsExist, WheelInv, RowsInLine
<1>2. u \in Tasks
  BY <1>1 DEF TurnAsks, TypeOK, SessionRow
<1>3. kind \in Kinds /\ kind # "resource"
  BY RunnerAssumption DEF Kinds
<1>4. OpenInteraction(u, i, kind)
  BY Zenon DEF TurnAsks
<1> HIDE DEF u
<1>5. DriverOrTurnAsks(u, i, kind)
  BY <1>3, <1>4, Zenon DEF DriverOrTurnAsks
<1> QED
  BY <1>2, <1>3, <1>5, Zenon DEF Next

LEMMA TurnsRefine ==
  ASSUME TypeOK, WheelInv, TurnsExist, NEW r \in Runners, NEW t \in Tasks, Turns(r, t)
  PROVE  [Next]_ledgerVars
<1>1. CASE TurnEnds(r, t) \/ TurnTimesOut(r, t) \/ StartRefused(r, t)
  BY <1>1, Zenon DEF TurnEnds, TurnTimesOut, StartRefused
<1>2. CASE \E i \in Inters, kind \in TurnKinds : TurnAsks(r, t, i, kind)
  BY <1>2, TurnAsksRefines
<1> QED
  BY <1>1, <1>2, Zenon DEF Turns

LEMMA RunnerStepRefines ==
  ASSUME TypeOK, WheelInv, RunnerInv, [RunnerNext]_vars
  PROVE  [Next]_ledgerVars
<1>1. CASE Web
  BY <1>1, WebRefines DEF RunnerInv
<1>2. CASE LeaseLapses
  BY <1>2, Zenon DEF LeaseLapses
<1>3. CASE \E r \in Runners : Loop(r)
  BY <1>3, LoopRefines
<1>4. CASE \E r \in Runners, t \in Tasks : Interpret(r, t) \/ Turns(r, t)
  BY <1>4, InterpretRefines, TurnsRefine DEF RunnerInv, DriversOK
<1>5. CASE \E t \in Tasks : OrphanEnds(t)
  BY <1>5, Zenon DEF OrphanEnds
<1>6. CASE \E r \in Runners, i \in Inters : AskTimesOut(r, i)
  <2>1. \/ \E i \in Inters, d \in {"decline", "stop", "go"} : Respond(i, d, 0)
        \/ UNCHANGED ledgerVars
    <3>1. "go" \in {"decline", "stop", "go"}
      OBVIOUS
    <3> QED
      BY <1>6, <3>1, Zenon DEF AskTimesOut
  <2> QED
    BY <2>1, Zenon DEF Next
<1>7. CASE \E r \in Runners, s \in Sessions : UserStopsOwnTurn(r, s)
  BY <1>7, Zenon DEF UserStopsOwnTurn
<1>8. CASE UNCHANGED vars
  BY <1>8 DEF vars
<1>9. CASE \E r \in Runners, i \in Inters : Listens(r, i)
  BY <1>9, Zenon DEF Listens
<1> QED
  BY <1>1, <1>2, <1>3, <1>4, <1>5, <1>6, <1>7, <1>8, <1>9, Zenon DEF RunnerNext

-----------------------------------------------------------------------------
(* What the drivers rely on stays true, whoever moves. *)

LEMMA CameStays ==
  ASSUME NEW t \in Tasks, TasksGoOn, NEW d, Came(d, task[t])
  PROVE  Came(d, task'[t])
BY DEF TasksGoOn, Exists, Onward, Came

LEMMA SawStays ==
  ASSUME NEW t \in Tasks, TasksGoOn, NEW d, Came(d, task[t]), Saw(d, task[t])
  PROVE  Saw(d, task'[t])
BY DEF TasksGoOn, Exists, Onward, Came, Saw

\* A driver that works at a step may go anywhere.
LEMMA LateCame ==
  ASSUME NEW d, NEW row, Came(d, row), NEW e,
         d.pc \notin {"off", "leaving", "begin", "validate", "step"}
  PROVE  Came(e, row)
BY DEF Came

\* No attempt is touched but new ones and the one this driver has in hand.
OthersKept(r, t) ==
  \A a \in Attempts :
    \/ attempt'[a] = attempt[a] \/ attempt[a].status = "NONE"
    \/ driver[r][t].pc \in AtTurn /\ a = driver[r][t].attempt

\* One driver moves, and what it takes in hand nobody else had.
LEMMA OneDriver ==
  ASSUME RunnerShape, DriversOK, TasksGoOn, NEW r \in Runners, NEW t \in Tasks,
         NEW new \in DriverRow, driver' = [driver EXCEPT ![r][t] = new],
         DriverOK(new, t, task'[t], attempt'), OthersKept(r, t),
         new.pc \in AtTurn =>
           \/ driver[r][t].pc \in AtTurn /\ new.attempt = driver[r][t].attempt
           \/ attempt[new.attempt].status = "NONE"
  PROVE  DriversOK' /\ driver' \in [Runners -> [Tasks -> DriverRow]]
<1>1. /\ driver \in [Runners -> [Tasks -> DriverRow]]
      /\ driver' \in [Runners -> [Tasks -> DriverRow]] /\ driver'[r][t] = new
      /\ \A q \in Runners, u \in Tasks : q # r \/ u # t => driver'[q][u] = driver[q][u]
  BY DEF RunnerShape
<1>2. ASSUME NEW q \in Runners, NEW u \in Tasks, q # r \/ u # t
      PROVE  /\ DriverOK(driver[q][u], u, task'[u], attempt')
             /\ driver[q][u].pc \in AtTurn => attempt[driver[q][u].attempt].status # "NONE"
  <2> DEFINE d == driver[q][u]
  <2>1. Came(d, task[u]) /\ Saw(d, task[u]) /\ InHand(d, u, attempt)
    BY DEF DriversOK, DriverOK
  <2>2. Came(d, task'[u]) /\ Saw(d, task'[u])
    BY <2>1, CameStays, SawStays
  <2>3. ASSUME d.pc \in AtTurn
        PROVE  attempt'[d.attempt] = attempt[d.attempt] /\ attempt[d.attempt].status # "NONE"
    <3>1. /\ d.attempt \in Attempts /\ attempt[d.attempt].task = u
          /\ attempt[d.attempt].status # "NONE"
      BY <2>1, <2>3 DEF InHand
    <3>2. ~(driver[r][t].pc \in AtTurn /\ d.attempt = driver[r][t].attempt)
      <4>1. driver[r][t].pc \in AtTurn => attempt[driver[r][t].attempt].task = t
        BY DEF DriversOK, DriverOK, InHand
      <4> QED
        BY <1>2, <2>3, <3>1, <4>1 DEF DriversOK
    <3> QED
      BY <3>1, <3>2 DEF OthersKept
  <2>4. InHand(d, u, attempt')
    BY <2>1, <2>3 DEF InHand
  <2> QED
    BY <2>2, <2>3, <2>4 DEF DriverOK
<1>3. ASSUME NEW q \in Runners, NEW u \in Tasks
      PROVE  DriverOK(driver'[q][u], u, task'[u], attempt')
  BY <1>1, <1>2
<1>4. ASSUME NEW q \in Runners, q # r, new.pc \in AtTurn, driver[q][t].pc \in AtTurn,
             new.attempt = driver[q][t].attempt
      PROVE  FALSE
  BY <1>2, <1>4 DEF DriversOK
<1>5. ASSUME NEW p \in Runners, NEW q \in Runners, NEW u \in Tasks,
             driver'[p][u].pc \in AtTurn, driver'[q][u].pc \in AtTurn,
             driver'[p][u].attempt = driver'[q][u].attempt, p # q
      PROVE  FALSE
  <2>1. CASE u # t
    BY <1>1, <1>5, <2>1 DEF DriversOK
  <2>2. CASE u = t /\ p # r /\ q # r
    BY <1>1, <1>5, <2>2 DEF DriversOK
  <2>3. CASE u = t /\ (p = r \/ q = r)
    BY <1>1, <1>4, <1>5, <2>3
  <2> QED
    BY <2>1, <2>2, <2>3
<1> QED
  BY <1>1, <1>3, <1>5 DEF DriversOK

\* Nobody touches an attempt and the drivers stay where they are, or leave.
LEMMA StillDrivers ==
  ASSUME RunnerShape, DriversOK, TasksGoOn, attempt' = attempt, NEW new,
         new \in [Runners -> [Tasks -> DriverRow]], driver' = new,
         \A r \in Runners, t \in Tasks :
           \/ new[r][t] = driver[r][t] \/ new[r][t] = Idle
           \/ driver[r][t].pc = "wait" /\ new[r][t] = [driver[r][t] EXCEPT !.pc = "deaf"]
  PROVE  DriversOK' /\ driver' \in [Runners -> [Tasks -> DriverRow]]
<1>1. Idle.pc = "off" /\ Idle.pc \notin AtTurn
  BY DEF Idle, AtTurn
<1>2. \A d \in DriverRow : LET e == [d EXCEPT !.pc = "deaf"] IN
        e.pc = "deaf" /\ e.attempt = d.attempt /\ e.outcome = d.outcome
  BY DEF DriverRow
<1>3. ASSUME NEW r \in Runners, NEW t \in Tasks
      PROVE  /\ DriverOK(new[r][t], t, task'[t], attempt')
             /\ new[r][t].pc \in AtTurn =>
                  driver[r][t].pc \in AtTurn /\ new[r][t].attempt = driver[r][t].attempt
  <2> DEFINE d == driver[r][t]
  <2>1. Came(d, task[t]) /\ Saw(d, task[t]) /\ InHand(d, t, attempt)
    BY DEF DriversOK, DriverOK
  <2>2. Came(d, task'[t]) /\ Saw(d, task'[t]) /\ InHand(d, t, attempt')
    BY <2>1, CameStays, SawStays
  <2>3. d \in DriverRow
    BY DEF RunnerShape
  <2>4. CASE new[r][t] = d
    BY <2>2, <2>4 DEF DriverOK
  <2>5. CASE new[r][t] = Idle
    BY <1>1, <2>5 DEF DriverOK, Came, Saw, InHand
  <2>6. CASE d.pc = "wait" /\ new[r][t] = [d EXCEPT !.pc = "deaf"]
    <3> DEFINE e == new[r][t]
    <3>1. e.pc = "deaf" /\ e.attempt = d.attempt /\ e.outcome = d.outcome
      BY <1>2, <2>3, <2>6
    <3> HIDE DEF e, d
    <3>2. Came(e, task'[t])
      BY <2>2, <2>6, LateCame
    <3>3. Saw(e, task'[t]) /\ InHand(e, t, attempt') /\ d.pc \in AtTurn
      BY <2>2, <2>6, <3>1 DEF Saw, InHand, AtTurn
    <3> QED
      BY <3>1, <3>2, <3>3 DEF DriverOK, e, d
  <2> QED
    BY <2>4, <2>5, <2>6
<1> QED
  BY <1>3 DEF DriversOK

-----------------------------------------------------------------------------
(* The steps of one driver. *)

LEMMA GotoSets ==
  ASSUME RunnerShape, NEW r \in Runners, NEW t \in Tasks, NEW pc \in Pcs, Goto(r, t, pc),
         NEW new, new = [driver[r][t] EXCEPT !.pc = pc]
  PROVE  /\ driver' = [driver EXCEPT ![r][t] = new] /\ new \in DriverRow
         /\ new.pc = pc /\ new.attempt = driver[r][t].attempt
         /\ new.outcome = driver[r][t].outcome /\ new.step = driver[r][t].step
<1>1. driver[r][t] \in DriverRow
  BY DriverTyped
<1>2. \A d \in DriverRow : LET e == [d EXCEPT !.pc = pc] IN
        /\ e \in DriverRow /\ e.pc = pc /\ e.attempt = d.attempt
        /\ e.outcome = d.outcome /\ e.step = d.step
  BY DEF DriverRow
<1>3. driver' = [driver EXCEPT ![r][t] = new]
  BY Zenon DEF Goto
<1> QED
  BY <1>1, <1>2, <1>3

LEMMA LeavingFields ==
  LET new == [Idle EXCEPT !.pc = "leaving"] IN
  new \in DriverRow /\ new.pc = "leaving"
BY DEF Idle, DriverRow, Pcs

\* A driver goes on to a place where it has no attempt in hand.
LEMMA GotoKeeps ==
  ASSUME RunnerShape, DriversOK, TasksGoOn, NEW r \in Runners, NEW t \in Tasks,
         NEW pc \in Pcs \ AtTurn, Goto(r, t, pc), OthersKept(r, t),
         \A e : e.pc = pc /\ e.outcome = driver[r][t].outcome =>
                  Came(e, task'[t]) /\ Saw(e, task'[t])
  PROVE  DriversOK' /\ driver' \in [Runners -> [Tasks -> DriverRow]]
<1> SUFFICES ASSUME NEW new, new = [driver[r][t] EXCEPT !.pc = pc]
             PROVE  DriversOK' /\ driver' \in [Runners -> [Tasks -> DriverRow]]
  OBVIOUS
<1>1. /\ driver' = [driver EXCEPT ![r][t] = new] /\ new \in DriverRow
      /\ new.pc = pc /\ new.outcome = driver[r][t].outcome
  BY GotoSets
<1>2. DriverOK(new, t, task'[t], attempt')
  BY <1>1 DEF DriverOK, InHand
<1> QED
  BY <1>1, <1>2, OneDriver

\* Or it has done: it leaves.
LEMMA LeaveKeeps ==
  ASSUME RunnerShape, DriversOK, TasksGoOn, NEW r \in Runners, NEW t \in Tasks,
         Leave(r, t), driver[r][t].pc # "off", OthersKept(r, t)
  PROVE  DriversOK' /\ driver' \in [Runners -> [Tasks -> DriverRow]]
<1> DEFINE new == [Idle EXCEPT !.pc = "leaving"]
<1>1. driver' = [driver EXCEPT ![r][t] = new]
  BY Zenon DEF Leave
<1>2. new \in DriverRow /\ new.pc = "leaving"
  BY LeavingFields
<1> HIDE DEF new
<1>3. Came(driver[r][t], task[t])
  BY DEF DriversOK, DriverOK
<1>4. Came(driver[r][t], task'[t])
  BY <1>3, CameStays
<1>5. DriverOK(new, t, task'[t], attempt') /\ new.pc \notin AtTurn
  BY <1>2, <1>4 DEF DriverOK, Came, Saw, InHand, AtTurn
<1> QED
  BY <1>1, <1>2, <1>5, OneDriver

\* A driver keeps its attempt in hand; the attempt moves, or not.
LEMMA HoldKeeps ==
  ASSUME RunnerShape, DriversOK, TasksGoOn, NEW r \in Runners, NEW t \in Tasks,
         NEW new \in DriverRow, driver' = [driver EXCEPT ![r][t] = new],
         driver[r][t].pc \in AtTurn, new.pc \in AtTurn,
         new.attempt = driver[r][t].attempt, OthersKept(r, t),
         attempt'[new.attempt].task = t,
         attempt'[new.attempt].status =
           IF new.pc \in {"judge", "settle"} THEN "RUNNING" ELSE "CREATED",
         Saw(new, task'[t])
  PROVE  DriversOK' /\ driver' \in [Runners -> [Tasks -> DriverRow]]
<1>1. Came(driver[r][t], task[t]) /\ new.attempt \in Attempts
  BY DEF DriversOK, DriverOK, InHand
<1>2. Came(driver[r][t], task'[t])
  BY <1>1, CameStays
<1>3. driver[r][t].pc \notin {"off", "leaving", "begin", "validate", "step"}
  BY DEF AtTurn
<1>4. Came(new, task'[t])
  BY <1>2, <1>3, LateCame
<1>5. DriverOK(new, t, task'[t], attempt')
  BY <1>1, <1>4 DEF DriverOK, InHand
<1> QED
  BY <1>5, OneDriver

\* What a transition leaves behind.
LEMMA MovedState ==
  ASSUME TypeOK, NEW t \in Tasks, NEW to, to \notin Terminal, NEW why, Transition(t, to, why)
  PROVE  task'[t].state = to /\ attempt' = attempt
<1>1. task' = [task EXCEPT ![t] = MovedTo(task[t], to, why)] /\ attempt' = attempt
  BY Zenon DEF Transition
<1>2. task[t] \in TaskRow /\ task \in [Tasks -> TaskRow]
  BY DEF TypeOK
<1> QED
  BY <1>1, <1>2, MovedToKin

LEMMA EarlyDriver ==
  ASSUME TypeOK, RunnerShape, DriversOK, TasksGoOn, NEW r \in Runners, NEW t \in Tasks,
         Begin(r, t) \/ Validate(r, t) \/ Step(r, t) \/ Left(r, t)
  PROVE  DriversOK' /\ driver' \in [Runners -> [Tasks -> DriverRow]]
<1> DEFINE d == driver[r][t]
           Good == DriversOK' /\ driver' \in [Runners -> [Tasks -> DriverRow]]
<1>1. Came(d, task[t])
  BY DEF DriversOK, DriverOK
<1>2. Came(d, task'[t])
  BY <1>1, CameStays
<1>3. attempt' = attempt => OthersKept(r, t)
  BY DEF OthersKept
<1>4. {"off", "validate", "step", "finish"} \subseteq Pcs \ AtTurn
  BY DEF Pcs, AtTurn
<1>5. CASE Begin(r, t)
  <2>1. d.pc = "begin" /\ Goto(r, t, "validate") /\ attempt' = attempt
    BY <1>5, Zenon DEF Begin, At, ledgerVars, Transition
  <2>2. task'[t].state # "RECEIVED"
    <3>1. CASE UNCHANGED ledgerVars /\ task[t].state # "RECEIVED"
      BY <3>1 DEF ledgerVars
    <3>2. CASE Transition(t, "VALIDATING", "")
      <4>1. "VALIDATING" \notin Terminal
        BY DEF Terminal
      <4>2. task'[t].state = "VALIDATING"
        BY <3>2, <4>1, MovedState, Zenon
      <4> QED
        BY <4>2
    <3> QED
      BY <1>5, <3>1, <3>2, Zenon DEF Begin
  <2>3. \A e : e.pc = "validate" => Came(e, task'[t]) /\ Saw(e, task'[t])
    BY <1>2, <2>1, <2>2 DEF Came, Saw
  <2> QED
    BY <1>3, <1>4, <2>1, <2>3, GotoKeeps
<1>6. CASE Validate(r, t)
  <2>1. d.pc = "validate" /\ attempt' = attempt
    BY <1>6, Zenon DEF Validate, At, ledgerVars, Transition
  <2>2. CASE Leave(r, t)
    BY <1>3, <2>1, <2>2, LeaveKeeps
  <2>3. CASE /\ Goto(r, t, "step")
             /\ \/ task[t].state # "VALIDATING" /\ UNCHANGED ledgerVars
                \/ Transition(t, "QUEUED", "")
    <3>1. task'[t].state # "VALIDATING"
      <4>1. CASE Transition(t, "QUEUED", "")
        <5>1. "QUEUED" \notin Terminal
          BY DEF Terminal
        <5>2. task'[t].state = "QUEUED"
          BY <4>1, <5>1, MovedState, Zenon
        <5> QED
          BY <5>2
      <4> QED
        BY <2>3, <4>1 DEF ledgerVars
    <3>2. \A e : e.pc = "step" => Came(e, task'[t]) /\ Saw(e, task'[t])
      BY <1>2, <2>1, <3>1 DEF Came, Saw
    <3> QED
      BY <1>3, <1>4, <2>1, <2>3, <3>2, GotoKeeps
  <2> QED
    BY <1>6, <2>2, <2>3, Zenon DEF Validate
<1>7. CASE Step(r, t)
  <2>1. d.pc = "step" /\ attempt' = attempt
    BY <1>7, Zenon DEF Step, At, ledgerVars, Transition
  <2>2. CASE Leave(r, t)
    BY <1>3, <2>1, <2>2, LeaveKeeps
  <2>3. CASE task[t].state \in {"QUEUED", "RUNNING"} /\ UNCHANGED ledgerVars /\ Goto(r, t, "finish")
    <3>1. \A e : e.pc = "finish" => Came(e, task'[t]) /\ Saw(e, task'[t])
      BY <1>2, <2>1, <2>3 DEF Came, Saw, ledgerVars
    <3> QED
      BY <1>3, <1>4, <2>1, <2>3, <3>1, GotoKeeps
  <2>4. CASE /\ task[t].state \in {"QUEUED", "RUNNING"} /\ UNCHANGED ledgerVars
             /\ driver' = [driver EXCEPT ![r][t] = [Idle EXCEPT !.pc = "open", !.step = cursor[t]]]
    <3> DEFINE new == [Idle EXCEPT !.pc = "open", !.step = cursor[t]]
    <3>1. new \in DriverRow /\ new.pc = "open"
      BY DEF Idle, DriverRow, Pcs, RunnerShape
    <3>2. driver' = [driver EXCEPT ![r][t] = new]
      BY <2>4
    <3> HIDE DEF new
    <3>3. DriverOK(new, t, task'[t], attempt') /\ new.pc \notin AtTurn
      BY <1>2, <2>1, <2>4, <3>1 DEF DriverOK, Came, Saw, InHand, AtTurn, ledgerVars
    <3> QED
      BY <1>3, <2>1, <3>1, <3>2, <3>3, OneDriver
  <2> QED
    BY <1>7, <2>2, <2>3, <2>4, Zenon DEF Step
<1>8. CASE Left(r, t)
  <2>1. Goto(r, t, "off") /\ attempt' = attempt
    BY <1>8, Zenon DEF Left, ledgerVars
  <2>2. \A e : e.pc = "off" => Came(e, task'[t]) /\ Saw(e, task'[t])
    BY DEF Came, Saw
  <2> QED
    BY <1>3, <1>4, <2>1, <2>2, GotoKeeps
<1> QED
  BY <1>5, <1>6, <1>7, <1>8, Zenon

LEMMA AttemptBecomes ==
  ASSUME TypeOK, NEW a \in Attempts, NEW to, NEW cost, NEW i, AttemptTransition(a, to, cost, i)
  PROVE  /\ attempt'[a].status = to /\ attempt'[a].task = attempt[a].task
         /\ \A b \in Attempts \ {a} : attempt'[b] = attempt[b]
<1>1. attempt' = [attempt EXCEPT ![a] = [attempt[a] EXCEPT !.status = to]]
  BY Zenon DEF AttemptTransition
<1>2. \A row \in AttemptRow : LET new == [row EXCEPT !.status = to] IN
        new.status = to /\ new.task = row.task
  BY DEF AttemptRow, NoAttemptRow
<1>3. attempt[a] \in AttemptRow /\ attempt \in [Attempts -> AttemptRow]
  BY DEF TypeOK
<1> QED
  BY <1>1, <1>2, <1>3

LEMMA OpenDriver ==
  ASSUME TypeOK, RunnerShape, DriversOK, TasksGoOn, NEW r \in Runners, NEW t \in Tasks,
         Open(r, t)
  PROVE  DriversOK' /\ driver' \in [Runners -> [Tasks -> DriverRow]]
<1> DEFINE d == driver[r][t]
<1>1. Came(d, task[t]) /\ d \in DriverRow /\ d.pc = "open"
  BY DriverTyped DEF DriversOK, DriverOK, Open, At
<1>2. Came(d, task'[t]) /\ d.pc \notin {"off", "leaving", "begin", "validate", "step"}
  BY <1>1, CameStays
<1>3. attempt' = attempt => OthersKept(r, t)
  BY DEF OthersKept
<1>4. CASE Leave(r, t) /\ UNCHANGED ledgerVars
  BY <1>1, <1>3, <1>4, LeaveKeeps DEF ledgerVars
<1>5. CASE /\ \E reserve \in Reserves : ~Available(task[t], reserve)
           /\ Goto(r, t, "broke") /\ UNCHANGED ledgerVars
  <2>1. task'[t].limit # Unlimited /\ attempt' = attempt
    BY <1>5 DEF Available, ledgerVars
  <2>2. ASSUME NEW e, e.pc = "broke", e.outcome = d.outcome
        PROVE  Came(e, task'[t]) /\ Saw(e, task'[t])
    BY <1>2, <2>1, <2>2, LateCame DEF Saw
  <2>3. "broke" \in Pcs \ AtTurn
    BY DEF Pcs, AtTurn
  <2> QED
    BY <1>3, <1>5, <2>1, <2>2, <2>3, GotoKeeps
<1>6. ASSUME NEW a \in Attempts, NEW reserve \in Reserves, NEW pc \in {"turn", "askfirst"},
             OpenAttempt(t, a, reserve),
             driver' = [driver EXCEPT ![r][t].pc = pc, ![r][t].attempt = a]
      PROVE  DriversOK' /\ driver' \in [Runners -> [Tasks -> DriverRow]]
  <2> SUFFICES ASSUME NEW new, new = [d EXCEPT !.pc = pc, !.attempt = a]
               PROVE  DriversOK' /\ driver' \in [Runners -> [Tasks -> DriverRow]]
    OBVIOUS
  <2>1. driver' = [driver EXCEPT ![r][t] = new]
    BY <1>6 DEF RunnerShape
  <2>2. \A x \in DriverRow : LET e == [x EXCEPT !.pc = pc, !.attempt = a] IN
          e \in DriverRow /\ e.pc = pc /\ e.attempt = a
    BY DEF DriverRow, Pcs, AtTurn
  <2>3. new \in DriverRow /\ new.pc = pc /\ new.attempt = a
    BY <1>1, <2>2
  <2>4. /\ attempt' = [attempt EXCEPT ![a] = [status |-> "CREATED", task |-> t, allocated |-> reserve]]
        /\ attempt[a].status = "NONE"
    BY <1>6, Zenon DEF OpenAttempt
  <2>5. /\ attempt'[a].status = "CREATED" /\ attempt'[a].task = t /\ OthersKept(r, t)
    BY <2>4 DEF TypeOK, OthersKept
  <2>6. Came(new, task'[t])
    BY <1>2, LateCame
  <2>7. DriverOK(new, t, task'[t], attempt')
    BY <2>3, <2>5, <2>6 DEF DriverOK, Saw, InHand
  <2> QED
    BY <2>1, <2>3, <2>4, <2>5, <2>7, OneDriver
<1> QED
  BY <1>4, <1>5, <1>6, Zenon DEF Open

LEMMA AskingDriver ==
  ASSUME TypeOK, RunnerShape, DriversOK, TasksGoOn, NEW r \in Runners, NEW t \in Tasks,
         Broke(r, t) \/ AskFirst(r, t) \/ Asking(r, t)
  PROVE  DriversOK' /\ driver' \in [Runners -> [Tasks -> DriverRow]]
<1> DEFINE d == driver[r][t]
<1>1. Came(d, task[t]) /\ InHand(d, t, attempt)
  BY DEF DriversOK, DriverOK
<1>2. CASE Broke(r, t) \/ Asking(r, t)
  <2>1. Leave(r, t) /\ attempt' = attempt /\ d.pc # "off"
    BY <1>2 DEF Broke, Asking, AskAndLeave, OpenInteraction, ledgerVars, At
  <2> QED
    BY <2>1, LeaveKeeps DEF OthersKept
<1>3. CASE AskFirst(r, t)
  <2>1. /\ d.pc = "askfirst" /\ d.attempt \in Attempts
        /\ AttemptTransition(d.attempt, "CANCELLED", 0, NoInter) /\ Goto(r, t, "asking")
    BY <1>1, <1>3 DEF AskFirst, At, InHand, AtTurn
  <2>2. OthersKept(r, t)
    BY <2>1, AttemptBecomes DEF OthersKept, AtTurn
  <2>3. ASSUME NEW e, e.pc = "asking" PROVE Came(e, task'[t]) /\ Saw(e, task'[t])
    <3>1. Came(d, task'[t]) /\ d.pc \notin {"off", "leaving", "begin", "validate", "step"}
      BY <1>1, <2>1, CameStays
    <3> QED
      BY <2>3, <3>1, LateCame DEF Saw
  <2>4. "asking" \in Pcs \ AtTurn
    BY DEF Pcs, AtTurn
  <2> QED
    BY <2>1, <2>2, <2>3, <2>4, GotoKeeps
<1> QED
  BY <1>2, <1>3

LEMMA StartDriver ==
  ASSUME TypeOK, RunnerShape, DriversOK, TasksGoOn, NEW r \in Runners, NEW t \in Tasks,
         Start(r, t) \/ StartRefused(r, t) \/ Turned(r, t)
  PROVE  DriversOK' /\ driver' \in [Runners -> [Tasks -> DriverRow]]
<1> DEFINE d == driver[r][t]
<1>1. InHand(d, t, attempt)
  BY DEF DriversOK, DriverOK
<1>2. CASE StartRefused(r, t)
  <2>1. Leave(r, t) /\ attempt' = attempt /\ d.pc # "off"
    BY <1>2 DEF StartRefused, ledgerVars, At
  <2> QED
    BY <2>1, LeaveKeeps DEF OthersKept
<1>3. CASE Start(r, t) \/ Turned(r, t)
  <2> SUFFICES ASSUME NEW pc, pc = IF Start(r, t) THEN "wait" ELSE "judge",
                      NEW new, new = [d EXCEPT !.pc = pc]
               PROVE  DriversOK' /\ driver' \in [Runners -> [Tasks -> DriverRow]]
    OBVIOUS
  <2>1. Goto(r, t, pc) /\ pc \in AtTurn /\ pc \in Pcs /\ d.pc \in AtTurn /\ pc # "settle" /\ pc # "broke"
    BY <1>3 DEF Start, Turned, At, AtTurn, Pcs
  <2>2. /\ driver' = [driver EXCEPT ![r][t] = new] /\ new \in DriverRow
        /\ new.pc = pc /\ new.attempt = d.attempt
    BY <2>1, GotoSets
  <2>3. d.attempt \in Attempts /\ attempt[d.attempt].task = t
    BY <1>1, <2>1 DEF InHand
  <2>4. /\ OthersKept(r, t) /\ attempt'[d.attempt].task = t
        /\ attempt'[d.attempt].status = IF pc \in {"judge", "settle"} THEN "RUNNING" ELSE "CREATED"
    <3>1. CASE Start(r, t)
      <4>1. pc = "wait" /\ d.pc = "turn" /\ attempt' = attempt
        BY <3>1, Zenon DEF Start, At, ledgerVars
      <4> QED
        BY <1>1, <2>1, <2>3, <4>1 DEF InHand, OthersKept
    <3>2. CASE Turned(r, t) /\ ~Start(r, t)
      <4>1. pc = "judge" /\ AttemptTransition(d.attempt, "RUNNING", 0, NoInter)
        BY <3>2, Zenon DEF Turned
      <4>2. /\ attempt'[d.attempt].status = "RUNNING" /\ attempt'[d.attempt].task = t
            /\ \A b \in Attempts \ {d.attempt} : attempt'[b] = attempt[b]
        BY <2>3, <4>1, AttemptBecomes
      <4> QED
        BY <2>1, <4>1, <4>2 DEF OthersKept
    <3> QED
      BY <1>3, <3>1, <3>2
  <2>5. Saw(new, task'[t])
    BY <2>1, <2>2 DEF Saw, AtTurn
  <2> HIDE DEF d
  <2> QED
    BY <2>1, <2>2, <2>4, <2>5, HoldKeeps DEF d
<1> QED
  BY <1>2, <1>3

LEMMA TurnDriver ==
  ASSUME TypeOK, RunnerShape, DriversOK, TasksGoOn, NEW r \in Runners, NEW t \in Tasks,
         TurnEnds(r, t) \/ TurnTimesOut(r, t)
  PROVE  DriversOK' /\ driver' \in [Runners -> [Tasks -> DriverRow]]
<1> DEFINE d == driver[r][t]
<1>1. PICK outcome \in {"done", "error", "lost", "timeout"}, cost \in Costs :
        Returns(r, t, outcome, cost)
  BY DEF TurnEnds, TurnTimesOut
<1>2. d.pc \in {"wait", "deaf"} /\ UNCHANGED ledgerVars
  BY DEF TurnEnds, TurnTimesOut, At
<1> DEFINE got == IF <<r, task[t].session>> \in halted THEN "stopped" ELSE outcome
<1> SUFFICES ASSUME NEW new, new = [d EXCEPT !.pc = "turned", !.cost = cost, !.outcome = got]
             PROVE  DriversOK' /\ driver' \in [Runners -> [Tasks -> DriverRow]]
  OBVIOUS
<1>3. driver' = [driver EXCEPT ![r][t] = new]
  BY <1>1 DEF Returns, RunnerShape
<1>4. got \in Outcomes
  BY DEF Outcomes
<1> HIDE DEF got
<1>5. \A x \in DriverRow :
        LET e == [x EXCEPT !.pc = "turned", !.cost = cost, !.outcome = got] IN
        e \in DriverRow /\ e.pc = "turned" /\ e.attempt = x.attempt
  BY <1>4 DEF DriverRow, Pcs, AtTurn
<1>6. new \in DriverRow /\ new.pc = "turned" /\ new.attempt = d.attempt
  BY <1>5, DriverTyped
<1>7. /\ attempt' = attempt /\ attempt[d.attempt].task = t
      /\ attempt[d.attempt].status = "CREATED" /\ d.pc \in AtTurn
  BY <1>2 DEF DriversOK, DriverOK, InHand, AtTurn, ledgerVars
<1>8. Saw(new, task'[t]) /\ new.pc \in AtTurn /\ new.pc \notin {"judge", "settle"}
  BY <1>6 DEF Saw, AtTurn
<1> HIDE DEF d
<1> QED
  BY <1>3, <1>6, <1>7, <1>8, HoldKeeps DEF d, OthersKept

LEMMA JudgeDriver ==
  ASSUME TypeOK, RunnerShape, DriversOK, TasksGoOn, NEW r \in Runners, NEW t \in Tasks,
         Judge(r, t)
  PROVE  DriversOK' /\ driver' \in [Runners -> [Tasks -> DriverRow]]
<1> DEFINE d == driver[r][t]
<1>1. PICK v : /\ driver' = [driver EXCEPT ![r][t].pc = "settle", ![r][t].outcome = v]
               /\ v \in Outcomes
               /\ v = "over" => task[t].limit # Unlimited
               /\ v = "cancel" => task[t].cancel
  BY DEF Judge, Outcomes
<1>2. d.pc = "judge" /\ UNCHANGED ledgerVars
  BY DEF Judge, At
<1> SUFFICES ASSUME NEW new, new = [d EXCEPT !.pc = "settle", !.outcome = v]
             PROVE  DriversOK' /\ driver' \in [Runners -> [Tasks -> DriverRow]]
  OBVIOUS
<1>3. driver' = [driver EXCEPT ![r][t] = new]
  BY <1>1 DEF RunnerShape
<1>4. \A x \in DriverRow : LET e == [x EXCEPT !.pc = "settle", !.outcome = v] IN
        e \in DriverRow /\ e.pc = "settle" /\ e.attempt = x.attempt /\ e.outcome = v
  BY <1>1 DEF DriverRow, Pcs, AtTurn
<1>5. new \in DriverRow /\ new.pc = "settle" /\ new.attempt = d.attempt /\ new.outcome = v
  BY <1>4, DriverTyped
<1>6. /\ attempt' = attempt /\ attempt[d.attempt].task = t
      /\ attempt[d.attempt].status = "RUNNING" /\ d.pc \in AtTurn
  BY <1>2 DEF DriversOK, DriverOK, InHand, AtTurn, ledgerVars
<1>7. Saw(new, task'[t]) /\ new.pc \in AtTurn
  BY <1>1, <1>2, <1>5 DEF Saw, AtTurn, ledgerVars
<1> HIDE DEF d
<1> QED
  BY <1>3, <1>5, <1>6, <1>7, HoldKeeps DEF d, OthersKept

LEMMA SettleDriver ==
  ASSUME TypeOK, RunnerShape, DriversOK, TasksGoOn, NEW r \in Runners, NEW t \in Tasks,
         Settle(r, t)
  PROVE  DriversOK' /\ driver' \in [Runners -> [Tasks -> DriverRow]]
<1> DEFINE d == driver[r][t]
<1>1. d.pc = "settle" /\ Came(d, task[t]) /\ Saw(d, task[t]) /\ InHand(d, t, attempt)
  BY DEF DriversOK, DriverOK, Settle, At
<1>2. d.attempt \in Attempts /\ d.pc \in AtTurn
  BY <1>1 DEF InHand, AtTurn
<1>3. OthersKept(r, t)
  <2>1. ASSUME NEW to, NEW i, AttemptTransition(d.attempt, to, d.cost, i) PROVE OthersKept(r, t)
    BY <1>2, <2>1, AttemptBecomes DEF OthersKept
  <2>2. CASE UNCHANGED ledgerVars
    BY <2>2 DEF OthersKept, ledgerVars
  <2> QED
    BY <2>1, <2>2, Zenon DEF Settle
<1>4. CASE Leave(r, t)
  BY <1>1, <1>3, <1>4, LeaveKeeps
<1>5. CASE Goto(r, t, "after")
  <2>1. Came(d, task'[t]) /\ Saw(d, task'[t])
    BY <1>1, CameStays, SawStays
  <2>2. ASSUME NEW e, e.pc = "after", e.outcome = d.outcome
        PROVE  Came(e, task'[t]) /\ Saw(e, task'[t])
    <3>1. Came(e, task'[t])
      BY <1>1, <2>1, LateCame
    <3> QED
      BY <1>1, <2>1, <2>2, <3>1 DEF Saw
  <2>3. "after" \in Pcs \ AtTurn
    BY DEF Pcs, AtTurn
  <2> QED
    BY <1>3, <1>5, <2>2, <2>3, GotoKeeps
<1> QED
  BY <1>4, <1>5, Zenon DEF Settle

LEMMA LateDriver ==
  ASSUME TypeOK, RunnerShape, DriversOK, TasksGoOn, NEW r \in Runners, NEW t \in Tasks,
         AfterTurn(r, t) \/ MoveCursor(r, t) \/ Requeue(r, t) \/ Finish(r, t)
  PROVE  DriversOK' /\ driver' \in [Runners -> [Tasks -> DriverRow]]
<1> DEFINE d == driver[r][t]
<1>1. Came(d, task[t])
  BY DEF DriversOK, DriverOK
<1>2. d.pc \in {"after", "requeue", "finish"}
  BY DEF AfterTurn, MoveCursor, Requeue, Finish, At
<1>3. OthersKept(r, t)
  <2>1. attempt' = attempt
    BY Zenon DEF AfterTurn, MoveCursor, Requeue, Finish, Try, AskAndLeave, Transition,
                 OpenInteraction, Touch, ledgerVars
  <2> QED
    BY <2>1 DEF OthersKept
<1>4. CASE Leave(r, t)
  BY <1>2, <1>3, <1>4, LeaveKeeps
<1>5. ASSUME NEW pc \in {"requeue", "finish", "step"}, Goto(r, t, pc)
      PROVE  DriversOK' /\ driver' \in [Runners -> [Tasks -> DriverRow]]
  <2>1. ASSUME NEW e, e.pc = pc PROVE Came(e, task'[t]) /\ Saw(e, task'[t])
    <3>1. Came(d, task'[t])
      BY <1>1, CameStays
    <3> QED
      BY <1>2, <1>5, <2>1, <3>1, LateCame DEF Saw
  <2>2. pc \in Pcs \ AtTurn
    BY DEF Pcs, AtTurn
  <2> QED
    BY <1>3, <1>5, <2>1, <2>2, GotoKeeps
<1>6. \/ Leave(r, t)
      \/ \E pc \in {"requeue", "finish", "step"} : Goto(r, t, pc)
  <2>1. AfterTurn(r, t) => Leave(r, t) \/ Goto(r, t, "requeue")
    BY Zenon DEF AfterTurn, Try, AskAndLeave
  <2>2. MoveCursor(r, t) => Goto(r, t, "finish") \/ Goto(r, t, "requeue")
    <3> DEFINE n == cursor[t] + 1 >= Steps
    <3>1. MoveCursor(r, t) => Goto(r, t, IF n THEN "finish" ELSE "requeue") \/ Goto(r, t, "requeue")
      BY Zenon DEF MoveCursor
    <3> HIDE DEF n
    <3> QED
      BY <3>1, Zenon
  <2>3. Requeue(r, t) => Goto(r, t, "step")
    BY Zenon DEF Requeue
  <2>4. Finish(r, t) => Leave(r, t) \/ Goto(r, t, "finish")
    BY Zenon DEF Finish
  <2> QED
    BY <2>1, <2>2, <2>3, <2>4
<1> QED
  BY <1>4, <1>5, <1>6

\* A command makes a driver for a task that is out of the line.
LEMMA HandleDriveDriver ==
  ASSUME TypeOK, RunnerShape, PendingAwake, DriversOK, TasksGoOn, NEW r \in Runners,
         NEW t \in Tasks, HandleDrive(r, t)
  PROVE  DriversOK' /\ driver' \in [Runners -> [Tasks -> DriverRow]]
<1>1. attempt' = attempt /\ task' = task /\ Awake(t)
  BY DEF HandleDrive, TakeDrive, PendingAwake
<1>2. CASE driver' = driver
  BY <1>1, <1>2, StillDrivers DEF RunnerShape
<1>3. CASE driver' = [driver EXCEPT ![r][t] = [Idle EXCEPT !.pc = "begin"]]
  <2> DEFINE new == [Idle EXCEPT !.pc = "begin"]
  <2>1. new \in DriverRow /\ new.pc = "begin"
    BY DEF Idle, DriverRow, Pcs
  <2>2. driver' = [driver EXCEPT ![r][t] = new]
    BY <1>3
  <2> HIDE DEF new
  <2>3. DriverOK(new, t, task'[t], attempt') /\ new.pc \notin AtTurn
    BY <1>1, <2>1 DEF DriverOK, Came, Saw, InHand, AtTurn, Awake, Exists
  <2> QED
    BY <1>1, <2>1, <2>2, <2>3, OneDriver DEF OthersKept
<1> QED
  BY <1>2, <1>3, Zenon DEF HandleDrive

LEMMA InterpretDriver ==
  ASSUME TypeOK, RunnerShape, DriversOK, TasksGoOn, NEW r \in Runners, NEW t \in Tasks,
         Interpret(r, t)
  PROVE  DriversOK' /\ driver' \in [Runners -> [Tasks -> DriverRow]]
BY EarlyDriver, OpenDriver, AskingDriver, StartDriver, JudgeDriver, SettleDriver, LateDriver,
   Zenon DEF Interpret

\* Everybody else lets the attempts be and the drivers where they are.
LEMMA AroundDrivers ==
  ASSUME RunnerShape, DriversOK, TasksGoOn, attempt' = attempt, driver' = driver
  PROVE  DriversOK' /\ driver' \in [Runners -> [Tasks -> DriverRow]]
BY StillDrivers DEF RunnerShape

LEMMA LoopDrivers ==
  ASSUME TypeOK, RunnerShape, PendingAwake, DriversOK, TasksGoOn, NEW r \in Runners, Loop(r)
  PROVE  DriversOK' /\ driver' \in [Runners -> [Tasks -> DriverRow]]
<1>1. CASE RunOnce(r)
  <2>1. attempt' = attempt /\ (driver' = driver \/ driver' = Deafened(r))
    BY <1>1, Zenon DEF RunOnce, TakeOver, ledgerVars
  <2>2. CASE driver' = Deafened(r)
    <3>1. \A x \in DriverRow : [x EXCEPT !.pc = "deaf"] \in DriverRow
      BY DEF DriverRow, Pcs, AtTurn
    <3>2. /\ Deafened(r) \in [Runners -> [Tasks -> DriverRow]]
          /\ \A q \in Runners, t \in Tasks :
               \/ Deafened(r)[q][t] = driver[q][t]
               \/ driver[q][t].pc = "wait" /\ Deafened(r)[q][t] = [driver[q][t] EXCEPT !.pc = "deaf"]
      BY <3>1 DEF Deafened, RunnerShape
    <3> QED
      BY <2>1, <2>2, <3>2, StillDrivers
  <2> QED
    BY <2>1, <2>2, AroundDrivers
<1>2. CASE Crash(r)
  <2> DEFINE new == [driver EXCEPT ![r] = [t \in Tasks |-> Idle]]
  <2>1. attempt' = attempt /\ driver' = new
    BY <1>2, Zenon DEF Crash, ledgerVars
  <2>2. Idle \in DriverRow
    BY DEF Idle, DriverRow, Pcs
  <2>3. /\ new \in [Runners -> [Tasks -> DriverRow]]
        /\ \A q \in Runners, t \in Tasks : new[q][t] = driver[q][t] \/ new[q][t] = Idle
    BY <2>2 DEF RunnerShape
  <2> HIDE DEF new
  <2> QED
    BY <2>1, <2>3, StillDrivers
<1>3. CASE \E t \in Tasks : HandleDrive(r, t)
  BY <1>3, HandleDriveDriver
<1>4. CASE \E t \in Tasks : Reconnect(r, t)
  <2>1. attempt' = attempt /\ driver' = driver
    BY <1>4, Zenon DEF Reconnect, ResumeEnvironment, runnerVars
  <2> QED
    BY <2>1, AroundDrivers
<1>5. CASE \E c \in queue : HandleAnswer(r, c) \/ HandleInterrupt(r, c)
  <2>1. attempt' = attempt /\ driver' = driver
    BY <1>5, Zenon DEF HandleAnswer, HandleInterrupt, ledgerVars
  <2> QED
    BY <2>1, AroundDrivers
<1>6. CASE \E c : CommandFails(r, c)
  <2>1. attempt' = attempt /\ driver' = driver
    BY <1>6, Zenon DEF CommandFails, TakeDrive, ledgerVars
  <2> QED
    BY <2>1, AroundDrivers
<1> QED
  BY <1>1, <1>2, <1>3, <1>4, <1>5, <1>6, Zenon DEF Loop

LEMMA StepDrivers ==
  ASSUME TypeOK, RunnerShape, PendingAwake, DriversOK, TasksGoOn, [RunnerNext]_vars
  PROVE  DriversOK' /\ driver' \in [Runners -> [Tasks -> DriverRow]]
<1>1. CASE Web
  <2>1. driver' = driver
    BY <1>1, Zenon DEF Web, AskForHandover, FinishHandover, CancelTask, AnswerInteraction, Post,
                       WebDies, runnerVars, webOnly
  <2>2. attempt' = attempt
    BY <1>1, Zenon DEF Web, AskForHandover, FinishHandover, CancelTask, AnswerInteraction, Post,
                       WebDies, HandoverRead, HandoverCommit, RequestCancel, Respond, EnqueueDrive,
                       ledgerVars
  <2> QED
    BY <2>1, <2>2, AroundDrivers
<1>2. CASE LeaseLapses
  BY <1>2, AroundDrivers DEF LeaseLapses, ledgerVars
<1>3. CASE \E r \in Runners : Loop(r)
  BY <1>3, LoopDrivers
<1>4. CASE \E r \in Runners, t \in Tasks : Interpret(r, t) \/ Turns(r, t)
  <2>1. ASSUME NEW r \in Runners, NEW t \in Tasks, NEW i, NEW kind, TurnAsks(r, t, i, kind)
        PROVE  driver' = driver /\ attempt' = attempt
    BY <2>1, Zenon DEF TurnAsks, OpenInteraction
  <2>2. ASSUME NEW r \in Runners, NEW t \in Tasks, Turns(r, t)
        PROVE  DriversOK' /\ driver' \in [Runners -> [Tasks -> DriverRow]]
    <3>1. CASE \E i \in Inters, kind \in TurnKinds : TurnAsks(r, t, i, kind)
      BY <2>1, <3>1, AroundDrivers
    <3> QED
      BY <2>2, <3>1, TurnDriver, StartDriver, Zenon DEF Turns
  <2> QED
    BY <1>4, <2>2, InterpretDriver
<1>5. CASE \E t \in Tasks : OrphanEnds(t)
  BY <1>5, AroundDrivers DEF OrphanEnds, ledgerVars
<1>6. CASE \E r \in Runners, i \in Inters : AskTimesOut(r, i)
  <2>1. driver' = driver /\ attempt' = attempt
    BY <1>6, Zenon DEF AskTimesOut, Respond, ledgerVars
  <2> QED
    BY <2>1, AroundDrivers
<1>7. CASE \E r \in Runners, s \in Sessions : UserStopsOwnTurn(r, s)
  BY <1>7, AroundDrivers DEF UserStopsOwnTurn, ledgerVars
<1>8. CASE UNCHANGED vars
  BY <1>8, AroundDrivers DEF vars, ledgerVars, runnerVars
<1>9. CASE \E r \in Runners, i \in Inters : Listens(r, i)
  BY <1>9, AroundDrivers DEF Listens, ledgerVars
<1> QED
  BY <1>1, <1>2, <1>3, <1>4, <1>5, <1>6, <1>7, <1>8, <1>9, Zenon DEF RunnerNext

-----------------------------------------------------------------------------
(* What else moves, and who moves it. *)

LEMMA InterpretRows ==
  ASSUME NEW r, NEW t, Interpret(r, t)
  PROVE  /\ cursor' = cursor \/ MoveCursor(r, t)
         /\ stepOf' = stepOf \/ Open(r, t)
         /\ turning' = turning \/ Start(r, t)
         /\ UNCHANGED <<lease, held, claiming, owed, fromTurn, faults, lapses>>
<1>1. CASE Begin(r, t) \/ Validate(r, t) \/ Step(r, t) \/ Broke(r, t) \/ AskFirst(r, t)
           \/ Turned(r, t) \/ Judge(r, t) \/ Settle(r, t) \/ AfterTurn(r, t) \/ Requeue(r, t)
           \/ Finish(r, t) \/ Left(r, t)
  <2>1. UNCHANGED <<driverOnly, rowsOnly>>
    BY <1>1, Zenon DEF Begin, Validate, Step, Broke, AskFirst, Turned, Judge, Settle, AfterTurn,
                       Requeue, Finish, Left
  <2> QED
    BY <2>1 DEF driverOnly, rowsOnly, leases
<1>2. CASE Open(r, t)
  BY <1>2, Zenon DEF Open, driverOnly, leases
<1>3. CASE Asking(r, t)
  BY <1>3, Zenon DEF Asking, driverOnly, leases
<1>4. CASE Start(r, t)
  BY <1>4, Zenon DEF Start, rowsOnly, leases
<1>5. CASE MoveCursor(r, t)
  BY <1>5, Zenon DEF MoveCursor, driverOnly, leases
<1> QED
  BY <1>1, <1>2, <1>3, <1>4, <1>5, Zenon DEF Interpret

LEMMA TurnsRows ==
  ASSUME NEW r, NEW t, Turns(r, t)
  PROVE  /\ UNCHANGED <<cursor, stepOf, lease, held, claiming, owed, lapses>>
         /\ turning' \subseteq turning /\ fromTurn \subseteq fromTurn'
         /\ faults' = faults \/ (faults' = faults + 1 /\ StartRefused(r, t))
<1>1. CASE TurnEnds(r, t) \/ TurnTimesOut(r, t)
  <2>1. /\ UNCHANGED <<lease, held, claiming, owed, lapses>> /\ UNCHANGED rowsOnly
        /\ turning' = turning \/ turning' = turning \ {t}
    BY <1>1 DEF TurnEnds, TurnTimesOut, leases
  <2> QED
    BY <2>1 DEF rowsOnly
<1>2. CASE StartRefused(r, t)
  BY <1>2 DEF StartRefused, driverOnly, leases
<1>3. CASE \E i \in Inters, kind \in TurnKinds : TurnAsks(r, t, i, kind)
  <2>1. PICK i, kind : TurnAsks(r, t, i, kind)
    BY <1>3
  <2>2. /\ UNCHANGED <<cursor, stepOf, lease, held, claiming, owed, lapses, turning, faults>>
        /\ fromTurn' = fromTurn \cup {i}
    BY <2>1, Zenon DEF TurnAsks, leases
  <2> QED
    BY <2>2
<1> QED
  BY <1>1, <1>2, <1>3, Zenon DEF Turns

LEMMA LoopRows ==
  ASSUME NEW r, Loop(r)
  PROVE  /\ UNCHANGED <<cursor, stepOf, turning, fromTurn, owed, lapses>>
         /\ faults' = faults \/ (faults' = faults + 1 /\ (Crash(r) \/ \E c : CommandFails(r, c)))
<1>1. CASE RunOnce(r)
  BY <1>1 DEF RunOnce
<1>2. CASE Crash(r)
  BY <1>2 DEF Crash
<1>3. CASE \E t \in Tasks : HandleDrive(r, t) \/ Reconnect(r, t)
  BY <1>3 DEF HandleDrive, Reconnect, runnerVars
<1>4. CASE \E c \in queue : HandleAnswer(r, c) \/ HandleInterrupt(r, c)
  BY <1>4 DEF HandleAnswer, HandleInterrupt
<1>5. CASE \E c : CommandFails(r, c)
  BY <1>5 DEF CommandFails
<1> QED
  BY <1>1, <1>2, <1>3, <1>4, <1>5, Zenon DEF Loop

LEMMA WebRows ==
  ASSUME Web
  PROVE  /\ UNCHANGED <<cursor, stepOf, turning, fromTurn, lease, held, claiming, lapses, driver>>
         /\ faults' = faults \/ (faults' = faults + 1 /\ WebDies)
<1>1. CASE \E t \in Tasks, s \in Sessions, limit \in Limits : AskForHandover(t, s, limit)
  BY <1>1 DEF AskForHandover, runnerVars, leases
<1>2. CASE \E p \in Projects : FinishHandover(p)
  BY <1>2 DEF FinishHandover, webOnly, leases
<1>3. CASE \E t \in Tasks : CancelTask(t)
  BY <1>3 DEF CancelTask, webOnly, leases
<1>4. CASE \/ \E i \in Inters, d \in {"go", "stop", "decline"}, halt \in BOOLEAN :
                AnswerInteraction(i, d, 0, halt)
           \/ \E i \in Inters, amount \in TopUps : AnswerInteraction(i, "topup", amount, FALSE)
  BY <1>4 DEF AnswerInteraction, webOnly, leases
<1>5. CASE \E c \in owed : Post(c)
  BY <1>5 DEF Post, leases
<1>6. CASE WebDies
  BY <1>6 DEF WebDies, leases
<1> QED
  BY <1>1, <1>2, <1>3, <1>4, <1>5, <1>6, Zenon DEF Web

\* Everything but the drivers' own steps, the loops and the web process.
Aside ==
  \/ LeaseLapses
  \/ \E t \in Tasks : OrphanEnds(t)
  \/ \E r \in Runners, i \in Inters : Listens(r, i) \/ AskTimesOut(r, i)
  \/ \E r \in Runners, s \in Sessions : UserStopsOwnTurn(r, s)

LEMMA AsideRows ==
  ASSUME Aside
  PROVE  /\ UNCHANGED <<cursor, stepOf, fromTurn, held, claiming, owed, faults, driver>>
         /\ turning' \subseteq turning
         /\ lapses' = lapses \/ lapses' = lapses + 1
         /\ UNCHANGED <<lease, lapses>> \/ LeaseLapses
<1>1. CASE LeaseLapses
  BY <1>1 DEF LeaseLapses
<1>2. CASE \E t \in Tasks : OrphanEnds(t)
  BY <1>2 DEF OrphanEnds, rowsOnly, leases
<1>3. CASE \E r \in Runners, i \in Inters : Listens(r, i) \/ AskTimesOut(r, i)
  BY <1>3, Zenon DEF Listens, AskTimesOut, rowsOnly, leases
<1>4. CASE \E r \in Runners, s \in Sessions : UserStopsOwnTurn(r, s)
  BY <1>4, Zenon DEF UserStopsOwnTurn, rowsOnly, leases
<1> QED
  BY <1>1, <1>2, <1>3, <1>4, Zenon DEF Aside

LEMMA NextParts ==
  ASSUME [RunnerNext]_vars
  PROVE  \/ Web \/ Aside
         \/ \E r \in Runners : Loop(r)
         \/ \E r \in Runners, t \in Tasks : Interpret(r, t) \/ Turns(r, t)
         \/ UNCHANGED vars
BY Zenon DEF RunnerNext, Aside

LEMMA StepShape ==
  ASSUME TypeOK, RunnerShape, [RunnerNext]_vars
  PROVE  /\ cursor' \in [Tasks -> Nat] /\ stepOf' \in [Attempts -> Nat]
         /\ faults' \in Nat /\ lapses' \in Nat
<1>1. /\ cursor \in [Tasks -> Nat] /\ stepOf \in [Attempts -> Nat]
      /\ faults \in Nat /\ lapses \in Nat
  BY DEF RunnerShape
<1>2. ASSUME NEW r \in Runners, NEW t \in Tasks, MoveCursor(r, t)
      PROVE  cursor' \in [Tasks -> Nat]
  <2>1. driver[r][t].step \in Nat
    BY DriverTyped DEF DriverRow
  <2> QED
    BY <1>1, <1>2, <2>1 DEF MoveCursor
<1>3. ASSUME NEW r \in Runners, NEW t \in Tasks, Open(r, t)
      PROVE  stepOf' \in [Attempts -> Nat]
  <2>1. driver[r][t].step \in Nat
    BY DriverTyped DEF DriverRow
  <2>2. stepOf' = stepOf \/ \E a \in Attempts : stepOf' = [stepOf EXCEPT ![a] = driver[r][t].step]
    BY <1>3, Zenon DEF Open
  <2> QED
    BY <1>1, <2>1, <2>2
<1>4. CASE Web
  BY <1>1, <1>4, WebRows
<1>5. CASE Aside
  BY <1>1, <1>5, AsideRows
<1>6. CASE \E r \in Runners : Loop(r)
  BY <1>1, <1>6, LoopRows
<1>7. CASE \E r \in Runners, t \in Tasks : Interpret(r, t)
  BY <1>1, <1>2, <1>3, <1>7, InterpretRows
<1>8. CASE \E r \in Runners, t \in Tasks : Turns(r, t)
  BY <1>1, <1>8, TurnsRows
<1>9. CASE UNCHANGED vars
  BY <1>1, <1>9 DEF vars, runnerVars
<1> QED
  BY <1>4, <1>5, <1>6, <1>7, <1>8, <1>9, NextParts, Zenon

LEMMA StepOwed ==
  ASSUME TypeOK, WheelInv, OwedDrives, [RunnerNext]_vars
  PROVE  OwedDrives'
<1>1. owed' \subseteq owed => OwedDrives'
  BY DEF OwedDrives
<1>2. CASE Web
  <2>1. CASE \E p \in Projects : FinishHandover(p)
    <3>1. PICK p \in Projects : FinishHandover(p)
      BY <2>1
    <3>2. handing[p].task \in Tasks
      BY <3>1 DEF FinishHandover, HandoverCommit, WheelInv, HandoverHoldsRows
    <3>3. owed' \subseteq owed \cup {Drive(handing[p].task)}
      BY <3>1 DEF FinishHandover
    <3> QED
      BY <3>2, <3>3 DEF OwedDrives, Drive
  <2>2. CASE \E t \in Tasks : CancelTask(t)
    BY <2>2 DEF CancelTask, OwedDrives, Interrupt
  <2>3. ASSUME NEW i \in Inters, NEW d, NEW n, NEW halt, AnswerInteraction(i, d, n, halt)
        PROVE  OwedDrives'
    <3>1. inter[i].task \in Tasks
      BY <2>3, InterStatusType DEF AnswerInteraction, Respond, Answerable, TypeOK, InterStates
    <3>2. owed' \subseteq owed \cup {Drive(inter[i].task)} \cup {Answer(i, halt)}
      BY <2>3 DEF AnswerInteraction
    <3> QED
      BY <3>1, <3>2 DEF OwedDrives, Drive, Answer
  <2>4. CASE (\E c \in owed : Post(c)) \/ WebDies
    BY <1>1, <2>4 DEF Post, WebDies
  <2>5. CASE \E t \in Tasks, s \in Sessions, limit \in Limits : AskForHandover(t, s, limit)
    BY <1>1, <2>5 DEF AskForHandover, runnerVars
  <2> QED
    BY <1>2, <2>1, <2>2, <2>3, <2>4, <2>5, Zenon DEF Web
<1>3. CASE Aside
  BY <1>1, <1>3, AsideRows
<1>4. CASE \E r \in Runners : Loop(r)
  BY <1>1, <1>4, LoopRows
<1>5. CASE \E r \in Runners, t \in Tasks : Interpret(r, t)
  BY <1>1, <1>5, InterpretRows
<1>6. CASE \E r \in Runners, t \in Tasks : Turns(r, t)
  BY <1>1, <1>6, TurnsRows
<1>7. CASE UNCHANGED vars
  BY <1>1, <1>7 DEF vars, runnerVars
<1> QED
  BY <1>2, <1>3, <1>4, <1>5, <1>6, <1>7, NextParts, Zenon

LEMMA StepTurns ==
  ASSUME TasksGoOn, TurnsExist, DriversOK, [RunnerNext]_vars
  PROVE  TurnsExist'
<1>1. \A t \in Tasks : Exists(t) => Exists(t)'
  BY DEF TasksGoOn, Onward, Exists
<1>2. turning' \subseteq turning => TurnsExist'
  BY <1>1 DEF TurnsExist
<1>3. ASSUME NEW r \in Runners, NEW t \in Tasks, Start(r, t)
      PROVE  TurnsExist'
  <2>1. Exists(t) /\ turning' = turning \cup {t}
    BY <1>3 DEF Start, At, DriversOK, DriverOK, Came, Exists
  <2> QED
    BY <1>1, <2>1 DEF TurnsExist
<1>4. CASE Web
  BY <1>2, <1>4, WebRows
<1>5. CASE Aside
  BY <1>2, <1>5, AsideRows
<1>6. CASE \E r \in Runners : Loop(r)
  BY <1>2, <1>6, LoopRows
<1>7. CASE \E r \in Runners, t \in Tasks : Interpret(r, t)
  BY <1>2, <1>3, <1>7, InterpretRows
<1>8. CASE \E r \in Runners, t \in Tasks : Turns(r, t)
  BY <1>2, <1>8, TurnsRows
<1>9. CASE UNCHANGED vars
  BY <1>2, <1>9 DEF vars, runnerVars
<1> QED
  BY <1>4, <1>5, <1>6, <1>7, <1>8, <1>9, NextParts, Zenon

-----------------------------------------------------------------------------
(* The invariant, the refinement, and one turn per task. *)

LEMMA InitRunner == RunnerInit => RunnerInv
<1> SUFFICES ASSUME RunnerInit PROVE RunnerInv
  OBVIOUS
<1>1. Idle \in DriverRow /\ Idle.pc = "off" /\ Idle.pc \notin AtTurn
  BY DEF Idle, DriverRow, Pcs, AtTurn
<1>2. \A r \in Runners, t \in Tasks : driver[r][t] = Idle
  BY DEF RunnerInit
<1>3. RunnerShape
  BY <1>1 DEF RunnerInit, RunnerShape
<1>4. DriversOK
  BY <1>1, <1>2 DEF DriversOK, DriverOK, Came, Saw, InHand
<1>5. PendingAwake /\ OwedDrives /\ TurnsExist
  BY DEF RunnerInit, Init, PendingAwake, OwedDrives, TurnsExist
<1> QED
  BY <1>3, <1>4, <1>5 DEF RunnerInv

AllInv == TypeOK /\ WheelInv /\ HeldInv /\ RunnerInv

LEMMA InitAll == RunnerInit => AllInv
BY InitType, InitWheel, InitHeld, InitRunner DEF RunnerInit, AllInv

LEMMA StepAll == AllInv /\ [RunnerNext]_vars => AllInv' /\ [Next]_ledgerVars
<1> SUFFICES ASSUME AllInv, [RunnerNext]_vars PROVE AllInv' /\ [Next]_ledgerVars
  OBVIOUS
<1>1. TypeOK /\ WheelInv /\ HeldInv /\ RunnerInv
  BY DEF AllInv
<1>2. [Next]_ledgerVars
  BY <1>1, RunnerStepRefines
<1>3. TypeOK' /\ WheelInv' /\ HeldInv'
  BY <1>1, <1>2, StepType, StepWheel, StepHeld
<1>4. TasksGoOn /\ PendingAwake'
  BY <1>1, <1>2, StepGoesOn, StepPending DEF RunnerInv
<1>5. DriversOK' /\ driver' \in [Runners -> [Tasks -> DriverRow]]
  BY <1>1, <1>4, StepDrivers DEF RunnerInv
<1>6. RunnerShape'
  BY <1>1, <1>5, StepShape DEF RunnerInv, RunnerShape
<1>7. OwedDrives' /\ TurnsExist'
  BY <1>1, <1>4, StepOwed, StepTurns DEF RunnerInv
<1> QED
  BY <1>2, <1>3, <1>4, <1>5, <1>6, <1>7 DEF AllInv, RunnerInv

\* The invariant of the runner and of the tables under it: how far each driver
\* has come, what it has in hand, and what the ledger's own invariants say.
THEOREM RunnerInvariant == RunnerSpec => []AllInv
<1> QED
  BY InitAll, StepAll, PTL DEF RunnerSpec

\* The web process, the loops, the drivers and the turns move the tables only as
\* the ledger lets its callers: everything proved of Spec holds under the runner.
THEOREM RunnerRefinesLedger == RunnerSpec => Spec
<1>1. RunnerInit => Init
  BY DEF RunnerInit
<1> QED
  BY <1>1, RunnerInvariant, StepAll, PTL DEF RunnerSpec, Spec

\* Two drivers at a turn have different attempts in hand, and a live task has one.
LEMMA OneTurnFollows == AllInv => OneTurnPerTask
<1> SUFFICES ASSUME AllInv, NEW t \in Tasks, Live(t), NEW r \in Runners, NEW q \in Runners,
                    driver[r][t].pc \in AtTurn, driver[q][t].pc \in AtTurn
             PROVE  r = q
  BY DEF OneTurnPerTask
<1>1. ASSUME NEW p \in {r, q} PROVE driver[p][t].attempt = task[t].attempt
  <2> DEFINE a == driver[p][t].attempt
  <2>1. a \in Attempts /\ attempt[a].task = t /\ attempt[a].status \in {"RUNNING", "CREATED"}
    BY DEF AllInv, RunnerInv, DriversOK, DriverOK, InHand
  <2>2. LiveAttempt(a)
    BY <2>1 DEF LiveAttempt, AttemptStates, AttemptTerminal
  <2> QED
    BY <2>1, <2>2 DEF AllInv, HeldInv, OneAttemptPerTask
<1>2. driver[r][t].attempt = driver[q][t].attempt
  BY <1>1
<1> QED
  BY <1>2 DEF AllInv, RunnerInv, DriversOK

\* Whichever runners believe they hold the sandbox, a live task is worked at by
\* one driver at a time.
THEOREM OneTurn == RunnerSpec => []OneTurnPerTask
<1> QED
  BY OneTurnFollows, RunnerInvariant, PTL

-----------------------------------------------------------------------------
(* What a driver's own step does to its memory. *)

\* Nobody's memory changes but that of runner r about task t.
OnlyRow(r, t) ==
  \A q \in Runners, u \in Tasks : q # r \/ u # t => driver'[q][u] = driver[q][u]

LEMMA GotoRow ==
  ASSUME RunnerShape, NEW r \in Runners, NEW t \in Tasks, NEW pc \in Pcs, Goto(r, t, pc)
  PROVE  /\ OnlyRow(r, t) /\ driver'[r][t].pc = pc
         /\ driver'[r][t].attempt = driver[r][t].attempt
         /\ driver'[r][t].outcome = driver[r][t].outcome
         /\ driver'[r][t].step = driver[r][t].step
<1> SUFFICES ASSUME NEW new, new = [driver[r][t] EXCEPT !.pc = pc]
             PROVE  /\ OnlyRow(r, t) /\ driver'[r][t].pc = pc
                    /\ driver'[r][t].attempt = driver[r][t].attempt
                    /\ driver'[r][t].outcome = driver[r][t].outcome
                    /\ driver'[r][t].step = driver[r][t].step
  OBVIOUS
<1>1. /\ driver' = [driver EXCEPT ![r][t] = new]
      /\ new.pc = pc /\ new.attempt = driver[r][t].attempt
      /\ new.outcome = driver[r][t].outcome /\ new.step = driver[r][t].step
  BY GotoSets
<1>2. driver'[r][t] = new /\ OnlyRow(r, t)
  BY <1>1 DEF RunnerShape, OnlyRow
<1> QED
  BY <1>1, <1>2

LEMMA LeaveRow ==
  ASSUME RunnerShape, NEW r \in Runners, NEW t \in Tasks, Leave(r, t)
  PROVE  OnlyRow(r, t) /\ driver'[r][t].pc = "leaving"
<1> DEFINE new == [Idle EXCEPT !.pc = "leaving"]
<1>1. driver' = [driver EXCEPT ![r][t] = new] /\ new.pc = "leaving"
  BY LeavingFields, Zenon DEF Leave
<1> HIDE DEF new
<1>2. driver'[r][t] = new /\ OnlyRow(r, t)
  BY <1>1 DEF RunnerShape, OnlyRow
<1> QED
  BY <1>1, <1>2

\* A driver opens its step where the cursor is, takes an attempt in hand, keeps
\* it while its turn goes on, and puts it down at the end.
OwnStep(r, t) ==
  \/ driver'[r][t].pc \notin AtTurn \cup {"open", "after"}
  \/ driver'[r][t].pc = "open" /\ driver'[r][t].step = cursor[t] /\ Step(r, t)
  \/ \E a \in Attempts :
       /\ driver[r][t].pc = "open" /\ driver'[r][t].pc \in {"turn", "askfirst"}
       /\ driver'[r][t].step = driver[r][t].step /\ driver'[r][t].attempt = a
       /\ attempt[a].status = "NONE" /\ attempt'[a].status = "CREATED" /\ attempt'[a].task = t
       /\ stepOf' = [stepOf EXCEPT ![a] = driver[r][t].step]
  \/ /\ driver[r][t].pc \in AtTurn /\ driver'[r][t].pc \in AtTurn
     /\ driver'[r][t].step = driver[r][t].step /\ driver'[r][t].attempt = driver[r][t].attempt
  \/ /\ driver[r][t].pc = "settle" /\ driver'[r][t].pc = "after"
     /\ driver'[r][t].step = driver[r][t].step /\ driver'[r][t].outcome = driver[r][t].outcome
     /\ attempt'[driver[r][t].attempt].status = EndOf(driver[r][t].outcome)

LEMMA OwnSteps ==
  ASSUME TypeOK, RunnerShape, DriversOK, NEW r \in Runners, NEW t \in Tasks,
         Interpret(r, t) \/ TurnEnds(r, t) \/ TurnTimesOut(r, t) \/ StartRefused(r, t)
  PROVE  OnlyRow(r, t) /\ driver[r][t].pc # "off" /\ OwnStep(r, t)
<1> DEFINE d == driver[r][t]
           Good == OnlyRow(r, t) /\ OwnStep(r, t)
<1>1. d \in DriverRow /\ InHand(d, t, attempt)
  BY DriverTyped DEF DriversOK, DriverOK
<1>2. ASSUME NEW pc \in Pcs \ (AtTurn \cup {"open", "after"}), Goto(r, t, pc) PROVE Good
  BY <1>2, GotoRow DEF OwnStep
<1>3. Leave(r, t) => Good
  BY LeaveRow DEF OwnStep, AtTurn
<1>4. {"off", "validate", "step", "finish", "broke", "asking", "requeue"}
        \subseteq Pcs \ (AtTurn \cup {"open", "after"})
  BY DEF Pcs, AtTurn
<1>5. ASSUME NEW pc \in AtTurn, Goto(r, t, pc), d.pc \in AtTurn PROVE Good
  BY <1>5, GotoRow DEF OwnStep, Pcs
<1> SUFFICES d.pc # "off" /\ Good
  OBVIOUS
<1> HIDE DEF Good
<1>6. CASE Begin(r, t) \/ Left(r, t) \/ AskFirst(r, t) \/ Requeue(r, t)
  <2>1. \E pc \in {"validate", "off", "asking", "step"} : Goto(r, t, pc)
    BY <1>6 DEF Begin, Left, AskFirst, Requeue
  <2>2. d.pc # "off"
    BY <1>6 DEF Begin, Left, AskFirst, Requeue, At
  <2> QED
    BY <1>2, <1>4, <2>1, <2>2
<1>7. CASE Validate(r, t) \/ Broke(r, t) \/ Asking(r, t) \/ Finish(r, t) \/ StartRefused(r, t)
  <2>1. Leave(r, t) \/ Goto(r, t, "step") \/ Goto(r, t, "finish")
    BY <1>7, Zenon DEF Validate, Broke, AskAndLeave, Asking, Finish, StartRefused
  <2>2. d.pc # "off"
    BY <1>7 DEF Validate, Broke, Asking, Finish, StartRefused, At
  <2> QED
    BY <1>2, <1>3, <1>4, <2>1, <2>2
<1>8. CASE Step(r, t)
  <2>1. \/ Leave(r, t) \/ Goto(r, t, "finish")
        \/ driver' = [driver EXCEPT ![r][t] = [Idle EXCEPT !.pc = "open", !.step = cursor[t]]]
    BY <1>8, Zenon DEF Step
  <2>2. d.pc # "off"
    BY <1>8 DEF Step, At
  <2>3. CASE driver' = [driver EXCEPT ![r][t] = [Idle EXCEPT !.pc = "open", !.step = cursor[t]]]
    <3> DEFINE new == [Idle EXCEPT !.pc = "open", !.step = cursor[t]]
    <3>1. new.pc = "open" /\ new.step = cursor[t]
      BY DEF Idle
    <3>2. driver' = [driver EXCEPT ![r][t] = new]
      BY <2>3
    <3> HIDE DEF new
    <3>3. driver'[r][t] = new /\ OnlyRow(r, t)
      BY <3>2 DEF RunnerShape, OnlyRow
    <3> QED
      BY <1>8, <2>2, <3>1, <3>3 DEF Good, OwnStep
  <2> QED
    BY <1>2, <1>3, <1>4, <2>1, <2>2, <2>3
<1>9. CASE Open(r, t)
  <2>1. \/ Leave(r, t) \/ Goto(r, t, "broke")
        \/ \E a \in Attempts, reserve \in Reserves, pc \in {"turn", "askfirst"} :
             /\ OpenAttempt(t, a, reserve) /\ stepOf' = [stepOf EXCEPT ![a] = d.step]
             /\ driver' = [driver EXCEPT ![r][t].pc = pc, ![r][t].attempt = a]
    BY <1>9, Zenon DEF Open
  <2>2. d.pc = "open"
    BY <1>9 DEF Open, At
  <2>3. ASSUME NEW a \in Attempts, NEW reserve, NEW pc \in {"turn", "askfirst"},
               OpenAttempt(t, a, reserve), stepOf' = [stepOf EXCEPT ![a] = d.step],
               driver' = [driver EXCEPT ![r][t].pc = pc, ![r][t].attempt = a]
        PROVE  Good
    <3>1. \A x \in DriverRow : LET e == [x EXCEPT !.pc = pc, !.attempt = a] IN
            e.pc = pc /\ e.attempt = a /\ e.step = x.step
      BY DEF DriverRow
    <3>2. driver'[r][t] = [d EXCEPT !.pc = pc, !.attempt = a] /\ OnlyRow(r, t)
      BY <2>3 DEF RunnerShape, OnlyRow
    <3>3. driver'[r][t].pc = pc /\ driver'[r][t].attempt = a /\ driver'[r][t].step = d.step
      BY <1>1, <3>1, <3>2
    <3>4. /\ attempt' = [attempt EXCEPT ![a] = [status |-> "CREATED", task |-> t, allocated |-> reserve]]
          /\ attempt[a].status = "NONE"
      BY <2>3, Zenon DEF OpenAttempt
    <3>5. attempt'[a].status = "CREATED" /\ attempt'[a].task = t
      BY <3>4 DEF TypeOK
    <3> QED
      BY <2>2, <2>3, <3>2, <3>3, <3>4, <3>5 DEF Good, OwnStep
  <2> QED
    BY <1>2, <1>3, <1>4, <2>1, <2>2, <2>3
<1>10. CASE Start(r, t) \/ Turned(r, t)
  <2>1. \E pc \in {"wait", "judge"} : Goto(r, t, pc)
    BY <1>10 DEF Start, Turned
  <2>2. d.pc \in AtTurn /\ d.pc # "off" /\ {"wait", "judge"} \subseteq AtTurn
    BY <1>10 DEF Start, Turned, At, AtTurn
  <2> QED
    BY <1>5, <2>1, <2>2
<1>11. CASE TurnEnds(r, t) \/ TurnTimesOut(r, t)
  <2>1. PICK c, o : driver' = [driver EXCEPT ![r][t].pc = "turned", ![r][t].cost = c, ![r][t].outcome = o]
    BY <1>11 DEF TurnEnds, TurnTimesOut, Returns
  <2>2. \A x \in DriverRow : LET e == [x EXCEPT !.pc = "turned", !.cost = c, !.outcome = o] IN
          e.pc = "turned" /\ e.attempt = x.attempt /\ e.step = x.step
    BY DEF DriverRow
  <2>3. driver'[r][t] = [d EXCEPT !.pc = "turned", !.cost = c, !.outcome = o] /\ OnlyRow(r, t)
    BY <2>1 DEF RunnerShape, OnlyRow
  <2>4. d.pc \in AtTurn /\ d.pc # "off" /\ "turned" \in AtTurn
    BY <1>11 DEF TurnEnds, TurnTimesOut, At, AtTurn
  <2>5. /\ driver'[r][t].pc = "turned" /\ driver'[r][t].attempt = d.attempt
        /\ driver'[r][t].step = d.step
    BY <1>1, <2>2, <2>3
  <2> QED
    BY <2>3, <2>4, <2>5 DEF Good, OwnStep
<1>12. CASE Judge(r, t)
  <2>1. PICK o : driver' = [driver EXCEPT ![r][t].pc = "settle", ![r][t].outcome = o]
    BY <1>12 DEF Judge
  <2>2. \A x \in DriverRow : LET e == [x EXCEPT !.pc = "settle", !.outcome = o] IN
          e.pc = "settle" /\ e.attempt = x.attempt /\ e.step = x.step
    BY DEF DriverRow
  <2>3. driver'[r][t] = [d EXCEPT !.pc = "settle", !.outcome = o] /\ OnlyRow(r, t)
    BY <2>1 DEF RunnerShape, OnlyRow
  <2>4. d.pc \in AtTurn /\ d.pc # "off" /\ "settle" \in AtTurn
    BY <1>12 DEF Judge, At, AtTurn
  <2>5. /\ driver'[r][t].pc = "settle" /\ driver'[r][t].attempt = d.attempt
        /\ driver'[r][t].step = d.step
    BY <1>1, <2>2, <2>3
  <2> QED
    BY <2>3, <2>4, <2>5 DEF Good, OwnStep
<1>13. CASE Settle(r, t)
  <2>1. d.pc = "settle" /\ d.pc # "off"
    BY <1>13 DEF Settle, At
  <2>2. CASE Goto(r, t, "after") /\ AttemptTransition(d.attempt, EndOf(d.outcome), d.cost, NoInter)
    <3>1. attempt'[d.attempt].status = EndOf(d.outcome)
      <4>1. d.attempt \in Attempts
        BY <1>1, <2>1 DEF InHand, AtTurn
      <4> QED
        BY <2>2, <4>1, AttemptBecomes
    <3>2. "after" \in Pcs
      BY DEF Pcs
    <3> QED
      BY <2>1, <2>2, <3>1, <3>2, GotoRow DEF Good, OwnStep
  <2> QED
    BY <1>3, <1>13, <2>1, <2>2, Zenon DEF Settle
<1>14. CASE AfterTurn(r, t) \/ MoveCursor(r, t)
  <2>1. d.pc # "off"
    BY <1>14 DEF AfterTurn, MoveCursor, At
  <2>2. AfterTurn(r, t) => Leave(r, t) \/ Goto(r, t, "requeue")
    BY Zenon DEF AfterTurn, Try, AskAndLeave
  <2>3. MoveCursor(r, t) => Goto(r, t, "finish") \/ Goto(r, t, "requeue")
    <3> DEFINE n == cursor[t] + 1 >= Steps
    <3>1. MoveCursor(r, t) => Goto(r, t, IF n THEN "finish" ELSE "requeue") \/ Goto(r, t, "requeue")
      BY Zenon DEF MoveCursor
    <3> HIDE DEF n
    <3> QED
      BY <3>1, Zenon
  <2> QED
    BY <1>2, <1>3, <1>4, <1>14, <2>1, <2>2, <2>3
<1> QED
  BY <1>6, <1>7, <1>8, <1>9, <1>10, <1>11, <1>12, <1>13, <1>14, Zenon DEF Interpret

-----------------------------------------------------------------------------
(* As long as no living runner has lost its lease, a task has one driver, and    *)
(* the steps its cursor has passed were accepted.                                *)

\* Who claims commands, or believes to hold the sandbox, holds it; who drives claims.
SoleHolder ==
  /\ held \subseteq claiming
  /\ \A r \in claiming : r \in Runners /\ HoldsRow(r)
  /\ \A r \in Runners, t \in Tasks : driver[r][t].pc # "off" => r \in claiming

Accepted(t, k) ==
  \E a \in Attempts : attempt[a].task = t /\ attempt[a].status = "COMPLETED" /\ stepOf[a] = k

\* The driver of a task works at the step the cursor is on, and it has an
\* accepted attempt at it before it moves the cursor on.
OnCursor(r, t) ==
  LET d == driver[r][t] IN
  /\ d.pc \in AtTurn \cup {"open", "after"} => d.step = cursor[t]
  /\ d.pc \in AtTurn => stepOf[d.attempt] = d.step
  /\ d.pc = "after" /\ d.outcome = "ok" => Accepted(t, d.step)

StepsInv ==
  lapses = 0 => /\ SoleHolder
                /\ PassedStepsAccepted
                /\ \A r \in Runners, t \in Tasks : OnCursor(r, t)

LEMMA OneDrives ==
  ASSUME SoleHolder, NEW r \in Runners, NEW q \in Runners, NEW t \in Tasks, NEW u \in Tasks,
         driver[r][t].pc # "off", driver[q][u].pc # "off"
  PROVE  r = q
BY DEF SoleHolder, HoldsRow

LEMMA NoLapse ==
  ASSUME RunnerShape, [RunnerNext]_vars, lapses' = 0
  PROVE  lapses = 0
<1>1. lapses \in Nat
  BY DEF RunnerShape
<1>2. lapses' = lapses \/ lapses' = lapses + 1
  <2>1. CASE Web
    BY <2>1, WebRows
  <2>2. CASE Aside
    BY <2>2, AsideRows
  <2>3. CASE \E r \in Runners : Loop(r)
    BY <2>3, LoopRows
  <2>4. CASE \E r \in Runners, t \in Tasks : Interpret(r, t)
    BY <2>4, InterpretRows
  <2>5. CASE \E r \in Runners, t \in Tasks : Turns(r, t)
    BY <2>5, TurnsRows
  <2>6. CASE UNCHANGED vars
    BY <2>6 DEF vars, runnerVars
  <2> QED
    BY <2>1, <2>2, <2>3, <2>4, <2>5, <2>6, NextParts, Zenon
<1> QED
  BY <1>1, <1>2

LEMMA StepSole ==
  ASSUME TypeOK, RunnerShape, DriversOK, SoleHolder, [RunnerNext]_vars, lapses' = lapses
  PROVE  SoleHolder'
<1>1. UNCHANGED <<leases, driver>> => SoleHolder'
  BY DEF SoleHolder, HoldsRow, leases
<1>2. CASE Web
  BY <1>1, <1>2, WebRows DEF leases
<1>3. CASE Aside
  <2>1. held' = held /\ claiming' = claiming /\ driver' = driver
    BY <1>3, AsideRows
  <2>2. CASE LeaseLapses
    <3>1. lease.holder \notin claiming
      BY <2>2 DEF LeaseLapses, RunnerShape
    <3>2. claiming = {}
      BY <3>1 DEF SoleHolder, HoldsRow
    <3> QED
      BY <2>1, <3>2 DEF SoleHolder
  <2> QED
    BY <1>1, <1>3, <2>1, <2>2, AsideRows DEF leases
<1>4. ASSUME NEW r \in Runners, NEW t \in Tasks, UNCHANGED leases, OnlyRow(r, t),
             driver[r][t].pc # "off"
      PROVE  SoleHolder'
  <2>1. r \in claiming
    BY <1>4 DEF SoleHolder
  <2> QED
    BY <1>4, <2>1 DEF SoleHolder, HoldsRow, OnlyRow, leases
<1>5. CASE \E r \in Runners, t \in Tasks : Interpret(r, t)
  BY <1>4, <1>5, OwnSteps, InterpretRows DEF leases
<1>6. CASE \E r \in Runners, t \in Tasks : Turns(r, t)
  <2>1. PICK r \in Runners, t \in Tasks : Turns(r, t)
    BY <1>6
  <2>2. UNCHANGED leases
    BY <2>1, TurnsRows DEF leases
  <2>3. CASE \E i \in Inters, kind \in TurnKinds : TurnAsks(r, t, i, kind)
    <3>1. driver' = driver
      BY <2>3, Zenon DEF TurnAsks
    <3> QED
      BY <1>1, <2>2, <3>1
  <2> QED
    BY <1>4, <2>1, <2>2, <2>3, OwnSteps, Zenon DEF Turns
<1>7. ASSUME NEW r \in Runners, RunOnce(r) PROVE SoleHolder'
  <2> DEFINE kept == HoldsRow(r)
  <2>1. /\ \A q \in claiming' : q \in Runners /\ HoldsRow(q)'
        /\ claiming \subseteq claiming'
    <3>1. r \in claiming => kept
      BY DEF SoleHolder
    <3>2. claiming' = claiming \cup {r} \/ (claiming' = claiming \ {r} /\ ~kept)
      BY <1>7 DEF RunOnce
    <3>3. claiming \subseteq claiming'
      BY <3>1, <3>2
    <3>4. ASSUME NEW q \in claiming, q # r PROVE lease' = lease
      <4>1. lease = [holder |-> q, live |-> TRUE]
        BY <3>4 DEF SoleHolder, HoldsRow
      <4>2. lease.holder = q /\ lease.live
        BY <4>1
      <4>3. ~kept
        BY <3>4, <4>2 DEF HoldsRow
      <4>4. q # NoRunner
        BY <3>4, RunnerAssumption DEF SoleHolder
      <4> QED
        BY <1>7, <3>4, <4>2, <4>3, <4>4 DEF RunOnce
    <3>5. ASSUME r \in claiming' PROVE HoldsRow(r)'
      <4>1. kept \/ lease' = [holder |-> r, live |-> TRUE]
        BY <1>7, <3>1, <3>5 DEF RunOnce
      <4> QED
        BY <1>7, <4>1 DEF RunOnce, HoldsRow
    <3> QED
      BY <3>2, <3>3, <3>4, <3>5 DEF SoleHolder, HoldsRow
  <2>2. driver' = driver
    BY <1>7 DEF RunOnce, SoleHolder
  <2>3. held' \subseteq claiming'
    <3>1. held' = held \cup {r} => r \in claiming' \/ r \in held
      BY <1>7 DEF RunOnce
    <3>2. held' = held \cup {r} \/ held' = held \ {r}
      BY <1>7 DEF RunOnce
    <3> QED
      BY <2>1, <3>1, <3>2 DEF SoleHolder
  <2> QED
    BY <2>1, <2>2, <2>3 DEF SoleHolder
<1>8. ASSUME NEW r \in Runners, Crash(r) PROVE SoleHolder'
  <2>1. /\ lease' = lease /\ held' = held \ {r} /\ claiming' = claiming \ {r}
        /\ driver' = [driver EXCEPT ![r] = [t \in Tasks |-> Idle]]
    BY <1>8 DEF Crash
  <2>2. \A q \in Runners, t \in Tasks :
          driver'[q][t] = IF q = r THEN Idle ELSE driver[q][t]
    BY <2>1 DEF RunnerShape
  <2>3. Idle.pc = "off"
    BY DEF Idle
  <2>4. \A q \in Runners, t \in Tasks : driver'[q][t].pc # "off" => q # r /\ q \in claiming
    BY <2>2, <2>3 DEF SoleHolder
  <2> QED
    BY <2>1, <2>4 DEF SoleHolder, HoldsRow
<1>9. ASSUME NEW r \in Runners, NEW t \in Tasks, HandleDrive(r, t) PROVE SoleHolder'
  <2>1. UNCHANGED leases /\ r \in claiming
    BY <1>9 DEF HandleDrive, Claims
  <2>2. OnlyRow(r, t)
    BY <1>9 DEF HandleDrive, RunnerShape, OnlyRow
  <2> QED
    BY <2>1, <2>2 DEF SoleHolder, HoldsRow, OnlyRow, leases
<1>10. CASE \E r \in Runners : Loop(r)
  <2>1. PICK r \in Runners : Loop(r)
    BY <1>10
  <2>2. CASE \E t \in Tasks : Reconnect(r, t)
    BY <1>1, <2>2 DEF Reconnect, runnerVars
  <2>3. CASE \/ \E c \in queue : HandleAnswer(r, c) \/ HandleInterrupt(r, c)
             \/ \E c : CommandFails(r, c)
    BY <1>1, <2>3, Zenon DEF HandleAnswer, HandleInterrupt, CommandFails
  <2> QED
    BY <1>7, <1>8, <1>9, <2>1, <2>2, <2>3, Zenon DEF Loop
<1>11. CASE UNCHANGED vars
  BY <1>1, <1>11 DEF vars, runnerVars
<1> QED
  BY <1>2, <1>3, <1>5, <1>6, <1>10, <1>11, NextParts, Zenon

\* An attempt that is there keeps its task, and one that is over stays as it is.
LEMMA AttemptsGoOn ==
  ASSUME TypeOK, [Next]_ledgerVars, NEW a \in Attempts, attempt[a].status # "NONE"
  PROVE  /\ attempt'[a].task = attempt[a].task
         /\ attempt[a].status \in AttemptTerminal => attempt'[a].status = attempt[a].status
<1> DEFINE Good == /\ attempt'[a].task = attempt[a].task
                   /\ attempt[a].status \in AttemptTerminal => attempt'[a].status = attempt[a].status
<1> SUFFICES Good
  OBVIOUS
<1>1. attempt' = attempt => Good
  OBVIOUS
<1>2. ASSUME NEW t, NEW b, NEW n, OpenAttempt(t, b, n) PROVE Good
  <2>1. /\ attempt' = [attempt EXCEPT ![b] = [status |-> "CREATED", task |-> t, allocated |-> n]]
        /\ attempt[b].status = "NONE"
    BY <1>2, Zenon DEF OpenAttempt
  <2> QED
    BY <2>1 DEF TypeOK
<1>3. ASSUME NEW b \in Attempts, NEW to, NEW c, NEW i, AttemptTransition(b, to, c, i) PROVE Good
  <2>1. /\ attempt'[b].task = attempt[b].task
        /\ \A x \in Attempts \ {b} : attempt'[x] = attempt[x]
    BY <1>3, AttemptBecomes
  <2>2. attempt[b].status \notin AttemptTerminal
    BY <1>3 DEF AttemptTransition, CanMoveAttempt, AttemptMoves, AttemptTerminal
  <2> QED
    BY <2>1, <2>2
<1> HIDE DEF Good
<1>4. CASE Next
  <2>1. CASE \E t \in Tasks, s \in Sessions, limit \in Limits : HandoverRead(t, s, limit)
    BY <1>1, <2>1 DEF HandoverRead
  <2>2. CASE \E p \in Projects : HandoverCommit(p) \/ SetOnline(p)
    BY <1>1, <2>2, Zenon DEF HandoverCommit, SetOnline
  <2>3. CASE \E t \in Tasks, to \in TaskStates : DriverMove(t, to)
    BY <1>1, <2>3, Zenon DEF DriverMove, Transition
  <2>4. CASE \E t \in Tasks : EnvironmentLost(t) \/ ResumeEnvironment(t)
    BY <1>1, <2>4, Zenon DEF EnvironmentLost, Transition, ResumeEnvironment
  <2>5. CASE \E t \in Tasks : RequestCancel(t) \/ TakeDrive(t) \/ EnqueueDrive(t) \/ Touch(t)
    BY <1>1, <2>5, Zenon DEF RequestCancel, TakeDrive, EnqueueDrive, Touch
  <2>6. CASE \E t \in Tasks, b \in Attempts, r \in Reserves : DriverOpensAttempt(t, b, r)
    BY <1>2, <2>6 DEF DriverOpensAttempt
  <2>7. CASE \E b \in Attempts, to \in AttemptStates, c \in Costs \cup {0}, i \in Inters \cup {NoInter} :
               AttemptMove(b, to, c, i)
    BY <1>3, <2>7, Zenon DEF AttemptMove
  <2>8. CASE \E t \in Tasks, i \in Inters, kind \in Kinds : DriverOrTurnAsks(t, i, kind)
    BY <1>1, <2>8, Zenon DEF DriverOrTurnAsks, OpenInteraction
  <2>9. CASE \/ \E i \in Inters, d \in {"decline", "stop", "go"} : Respond(i, d, 0)
             \/ \E i \in Inters, amount \in TopUps : Respond(i, "topup", amount)
    BY <1>1, <2>9, Zenon DEF Respond
  <2>10. CASE \E i \in Inters : Lapse(i)
    BY <1>1, <2>10 DEF Lapse
  <2>11. CASE \E idle \in SUBSET Drivable : TakeOver(idle)
    BY <1>1, <2>11 DEF TakeOver
  <2> QED
    BY <1>4, <2>1, <2>2, <2>3, <2>4, <2>5, <2>6, <2>7, <2>8, <2>9, <2>10, <2>11, Zenon DEF Next
<1> QED
  BY <1>1, <1>4 DEF ledgerVars

\* The step of an attempt is written when it is opened, and never again.
LEMMA StepOfKept ==
  ASSUME RunnerShape, [RunnerNext]_vars, NEW a \in Attempts, attempt[a].status # "NONE"
  PROVE  stepOf'[a] = stepOf[a]
<1>1. ASSUME NEW r, NEW t, Open(r, t) PROVE stepOf'[a] = stepOf[a]
  <2>1. \/ stepOf' = stepOf
        \/ \E b \in Attempts : stepOf' = [stepOf EXCEPT ![b] = driver[r][t].step] /\ attempt[b].status = "NONE"
    BY <1>1, Zenon DEF Open, OpenAttempt
  <2> QED
    BY <2>1 DEF RunnerShape
<1>2. stepOf' = stepOf \/ \E r \in Runners, t \in Tasks : Open(r, t)
  <2>1. CASE Web
    BY <2>1, WebRows
  <2>2. CASE Aside
    BY <2>2, AsideRows
  <2>3. CASE \E r \in Runners : Loop(r)
    BY <2>3, LoopRows
  <2>4. CASE \E r \in Runners, t \in Tasks : Interpret(r, t)
    BY <2>4, InterpretRows
  <2>5. CASE \E r \in Runners, t \in Tasks : Turns(r, t)
    BY <2>5, TurnsRows
  <2>6. CASE UNCHANGED vars
    BY <2>6 DEF vars, runnerVars
  <2> QED
    BY <2>1, <2>2, <2>3, <2>4, <2>5, <2>6, NextParts, Zenon
<1> QED
  BY <1>1, <1>2

\* The memory of a driver that does not move: as it was, gone, or deaf.
StillRow(r, t) ==
  \/ driver'[r][t] = driver[r][t] \/ driver'[r][t].pc = "off"
  \/ /\ driver[r][t].pc = "wait" /\ driver'[r][t].pc = "deaf"
     /\ driver'[r][t].attempt = driver[r][t].attempt /\ driver'[r][t].step = driver[r][t].step

\* The loop of a runner makes no driver step.
LEMMA LoopStill ==
  ASSUME RunnerShape, NEW r \in Runners, Loop(r)
  PROVE  \A q \in Runners, t \in Tasks : StillRow(q, t) \/ driver'[q][t].pc = "begin"
<1> DEFINE Still == \A q \in Runners, t \in Tasks : StillRow(q, t) \/ driver'[q][t].pc = "begin"
<1>0. driver' = driver => Still
  BY DEF StillRow
<1>1. CASE RunOnce(r)
  <2>1. driver' = driver \/ driver' = Deafened(r)
    BY <1>1, Zenon DEF RunOnce
  <2>2. \A x \in DriverRow : LET e == [x EXCEPT !.pc = "deaf"] IN
          e.pc = "deaf" /\ e.attempt = x.attempt /\ e.step = x.step
    BY DEF DriverRow
  <2>3. ASSUME driver' = Deafened(r), NEW q \in Runners, NEW t \in Tasks PROVE StillRow(q, t)
    <3>1. \/ driver'[q][t] = driver[q][t]
          \/ driver[q][t].pc = "wait" /\ driver'[q][t] = [driver[q][t] EXCEPT !.pc = "deaf"]
      BY <2>3 DEF Deafened, RunnerShape
    <3>2. LET e == [driver[q][t] EXCEPT !.pc = "deaf"] IN
          e.pc = "deaf" /\ e.attempt = driver[q][t].attempt /\ e.step = driver[q][t].step
      BY <2>2, <2>3, DriverTyped
    <3> QED
      BY <3>1, <3>2 DEF StillRow
  <2> QED
    BY <1>0, <2>1, <2>3
<1>2. CASE Crash(r)
  <2>1. driver' = [driver EXCEPT ![r] = [t \in Tasks |-> Idle]] /\ Idle.pc = "off"
    BY <1>2 DEF Crash, Idle
  <2> QED
    BY <2>1 DEF StillRow, RunnerShape
<1>3. CASE \E t \in Tasks : HandleDrive(r, t)
  <2>1. PICK t \in Tasks : HandleDrive(r, t)
    BY <1>3
  <2>2. driver' = driver \/ driver' = [driver EXCEPT ![r][t] = [Idle EXCEPT !.pc = "begin"]]
    BY <2>1, Zenon DEF HandleDrive
  <2>3. ASSUME NEW new, new = [Idle EXCEPT !.pc = "begin"], driver' = [driver EXCEPT ![r][t] = new]
        PROVE  Still
    <3>1. new.pc = "begin"
      BY <2>3 DEF Idle
    <3>2. driver'[r][t] = new /\ OnlyRow(r, t)
      BY <2>3 DEF RunnerShape, OnlyRow
    <3> QED
      BY <3>1, <3>2 DEF StillRow, OnlyRow
  <2> QED
    BY <1>0, <2>2, <2>3
<1>4. CASE \E t \in Tasks : Reconnect(r, t)
  BY <1>0, <1>4 DEF Reconnect, runnerVars
<1>5. CASE \/ \E c \in queue : HandleAnswer(r, c) \/ HandleInterrupt(r, c)
           \/ \E c : CommandFails(r, c)
  BY <1>0, <1>5, Zenon DEF HandleAnswer, HandleInterrupt, CommandFails
<1> QED
  BY <1>1, <1>2, <1>3, <1>4, <1>5, Zenon DEF Loop

\* In every step of the runner each driver stands still, is made for a command, or
\* makes a step of its own.
LEMMA DriverSteps ==
  ASSUME TypeOK, RunnerShape, DriversOK, [RunnerNext]_vars
  PROVE  \/ \A r \in Runners, t \in Tasks : StillRow(r, t) \/ driver'[r][t].pc = "begin"
         \/ \E r \in Runners, t \in Tasks :
              OnlyRow(r, t) /\ driver[r][t].pc # "off" /\ OwnStep(r, t)
<1> DEFINE Still == \A r \in Runners, t \in Tasks : StillRow(r, t) \/ driver'[r][t].pc = "begin"
<1>1. driver' = driver => Still
  BY DEF StillRow
<1>2. ASSUME NEW r \in Runners, Loop(r) PROVE Still
  BY <1>2, LoopStill
<1>3. CASE Web
  BY <1>1, <1>3, WebRows
<1>4. CASE Aside
  BY <1>1, <1>4, AsideRows
<1>5. CASE \E r \in Runners, t \in Tasks : Interpret(r, t)
  BY <1>5, OwnSteps
<1>6. CASE \E r \in Runners, t \in Tasks : Turns(r, t)
  <2>1. PICK r \in Runners, t \in Tasks : Turns(r, t)
    BY <1>6
  <2>2. CASE \E i \in Inters, kind \in TurnKinds : TurnAsks(r, t, i, kind)
    <3>1. driver' = driver
      BY <2>2, Zenon DEF TurnAsks
    <3> QED
      BY <1>1, <3>1
  <2> QED
    BY <2>1, <2>2, OwnSteps, Zenon DEF Turns
<1>7. CASE UNCHANGED vars
  BY <1>1, <1>7 DEF vars, runnerVars
<1>8. CASE \E r \in Runners : Loop(r)
  BY <1>2, <1>8
<1> QED
  BY <1>3, <1>4, <1>5, <1>6, <1>7, <1>8, NextParts, Zenon

LEMMA AcceptedStays ==
  ASSUME TypeOK, RunnerShape, [RunnerNext]_vars, [Next]_ledgerVars,
         NEW t \in Tasks, NEW k, Accepted(t, k)
  PROVE  \E a \in Attempts :
           attempt'[a].task = t /\ attempt'[a].status = "COMPLETED" /\ stepOf'[a] = k
<1>1. PICK a \in Attempts :
        attempt[a].task = t /\ attempt[a].status = "COMPLETED" /\ stepOf[a] = k
  BY DEF Accepted
<1>2. attempt[a].status # "NONE" /\ attempt[a].status \in AttemptTerminal
  BY <1>1 DEF AttemptTerminal
<1>3. /\ attempt'[a].task = attempt[a].task /\ attempt'[a].status = attempt[a].status
      /\ stepOf'[a] = stepOf[a]
  BY <1>2, AttemptsGoOn, StepOfKept
<1> QED
  BY <1>1, <1>3

\* Only MoveCursor moves a cursor, and only that of its own task.
LEMMA CursorMoves ==
  ASSUME [RunnerNext]_vars
  PROVE  cursor' = cursor \/ \E r \in Runners, t \in Tasks : MoveCursor(r, t)
<1>1. CASE Web
  BY <1>1, WebRows
<1>2. CASE Aside
  BY <1>2, AsideRows
<1>3. CASE \E r \in Runners : Loop(r)
  BY <1>3, LoopRows
<1>4. CASE \E r \in Runners, t \in Tasks : Interpret(r, t)
  BY <1>4, InterpretRows
<1>5. CASE \E r \in Runners, t \in Tasks : Turns(r, t)
  BY <1>5, TurnsRows
<1>6. CASE UNCHANGED vars
  BY <1>6 DEF vars, runnerVars
<1> QED
  BY <1>1, <1>2, <1>3, <1>4, <1>5, <1>6, NextParts, Zenon

\* Where a cursor goes: on by one over an accepted step, or back.
LEMMA CursorGoes ==
  ASSUME RunnerShape, NEW r \in Runners, NEW t \in Tasks, OnCursor(r, t), MoveCursor(r, t)
  PROVE  /\ OnlyRow(r, t) /\ driver[r][t].pc = "after"
         /\ driver'[r][t].pc \notin AtTurn \cup {"open", "after"}
         /\ \A u \in Tasks \ {t} : cursor'[u] = cursor[u]
         /\ \/ cursor'[t] = cursor[t] + 1 /\ Accepted(t, cursor[t])
            \/ cursor'[t] \in Nat /\ cursor'[t] < cursor[t]
<1> DEFINE d == driver[r][t]
<1>1. d.pc = "after" /\ d.step = cursor[t] /\ cursor \in [Tasks -> Nat] /\ cursor[t] \in Nat
  BY DEF MoveCursor, At, OnCursor, RunnerShape
<1>2. \/ /\ d.outcome = "ok" /\ cursor' = [cursor EXCEPT ![t] = cursor[t] + 1]
         /\ Goto(r, t, "finish") \/ Goto(r, t, "requeue")
      \/ /\ \E k \in 0..(d.step - 1) : cursor' = [cursor EXCEPT ![t] = k]
         /\ Goto(r, t, "requeue")
  <2> DEFINE n == cursor[t] + 1 >= Steps
  <2>1. \/ /\ d.outcome = "ok" /\ cursor' = [cursor EXCEPT ![t] = cursor[t] + 1]
           /\ Goto(r, t, IF n THEN "finish" ELSE "requeue")
        \/ /\ \E k \in 0..(d.step - 1) : cursor' = [cursor EXCEPT ![t] = k]
           /\ Goto(r, t, "requeue")
    BY Zenon DEF MoveCursor
  <2> HIDE DEF n
  <2> QED
    BY <2>1, Zenon
<1>3. {"finish", "requeue"} \subseteq Pcs \ (AtTurn \cup {"open", "after"})
  BY DEF Pcs, AtTurn
<1>4. OnlyRow(r, t) /\ driver'[r][t].pc \notin AtTurn \cup {"open", "after"}
  BY <1>2, <1>3, GotoRow
<1>5. CASE d.outcome = "ok" /\ cursor' = [cursor EXCEPT ![t] = cursor[t] + 1]
  <2>1. Accepted(t, cursor[t])
    BY <1>1, <1>5 DEF OnCursor
  <2> QED
    BY <1>1, <1>4, <1>5, <2>1
<1>6. CASE \E k \in 0..(d.step - 1) : cursor' = [cursor EXCEPT ![t] = k]
  BY <1>1, <1>4, <1>6
<1> QED
  BY <1>2, <1>5, <1>6

\* A driver whose memory and cursor stay is where it was on its workflow.
LEMMA CursorStays ==
  ASSUME TypeOK, RunnerShape, DriversOK, [RunnerNext]_vars, [Next]_ledgerVars,
         NEW r \in Runners, NEW t \in Tasks, OnCursor(r, t), cursor'[t] = cursor[t],
         StillRow(r, t) \/ driver'[r][t].pc = "begin"
  PROVE  OnCursor(r, t)'
<1> DEFINE d == driver[r][t]
           e == driver'[r][t]
<1>1. CASE e.pc \in {"off", "begin"}
  BY <1>1 DEF OnCursor, AtTurn
<1>2. CASE e.pc \in AtTurn /\ d.pc \in AtTurn /\ e.step = d.step /\ e.attempt = d.attempt
  <2>1. stepOf'[d.attempt] = stepOf[d.attempt]
    <3>1. d.attempt \in Attempts /\ attempt[d.attempt].status # "NONE"
      BY <1>2 DEF DriversOK, DriverOK, InHand
    <3> QED
      BY <3>1, StepOfKept
  <2>2. e.pc # "after"
    BY <1>2 DEF AtTurn
  <2> QED
    BY <1>2, <2>1, <2>2 DEF OnCursor
<1>3. CASE e = d /\ d.pc \notin AtTurn
  <2>1. d.pc = "after" /\ d.outcome = "ok" =>
          \E a \in Attempts :
            attempt'[a].task = t /\ attempt'[a].status = "COMPLETED" /\ stepOf'[a] = d.step
    BY AcceptedStays DEF OnCursor
  <2> QED
    BY <1>3, <2>1 DEF OnCursor, Accepted
<1>4. "wait" \in AtTurn /\ "deaf" \in AtTurn
  BY DEF AtTurn
<1> QED
  BY <1>1, <1>2, <1>3, <1>4 DEF StillRow

LEMMA StepOnCursor ==
  ASSUME TypeOK, RunnerShape, DriversOK, SoleHolder, [RunnerNext]_vars, [Next]_ledgerVars,
         \A r \in Runners, t \in Tasks : OnCursor(r, t)
  PROVE  \A r \in Runners, t \in Tasks : OnCursor(r, t)'
<1>1. ASSUME NEW r \in Runners, NEW t \in Tasks, MoveCursor(r, t),
             NEW q \in Runners, NEW u \in Tasks
      PROVE  OnCursor(q, u)'
  <2>1. /\ OnlyRow(r, t) /\ driver[r][t].pc = "after"
        /\ driver'[r][t].pc \notin AtTurn \cup {"open", "after"}
        /\ \A v \in Tasks \ {t} : cursor'[v] = cursor[v]
    BY <1>1, CursorGoes
  <2>2. CASE q = r /\ u = t
    BY <2>1, <2>2 DEF OnCursor
  <2>3. CASE u # t
    BY <2>1, <2>3, CursorStays DEF OnlyRow, StillRow
  <2>4. CASE q # r /\ u = t
    <3>1. driver[q][u].pc = "off"
      BY <2>1, <2>4, OneDrives
    <3> QED
      BY <2>1, <2>4, <3>1 DEF OnlyRow, OnCursor, AtTurn
  <2> QED
    BY <2>2, <2>3, <2>4
<1>2. ASSUME cursor' = cursor, NEW r \in Runners, NEW t \in Tasks,
             OnlyRow(r, t), OwnStep(r, t), NEW q \in Runners, NEW u \in Tasks
      PROVE  OnCursor(q, u)'
  <2> DEFINE d == driver[r][t]
             e == driver'[r][t]
  <2>1. CASE q # r \/ u # t
    BY <1>2, <2>1, CursorStays DEF OnlyRow, StillRow
  <2>2. CASE e.pc \notin AtTurn \cup {"open", "after"}
    <3>1. OnCursor(r, t)'
      BY <2>2 DEF OnCursor
    <3> QED
      BY <2>1, <3>1
  <2>3. CASE e.pc = "open" /\ e.step = cursor[t]
    <3>1. OnCursor(r, t)'
      BY <1>2, <2>3 DEF OnCursor, AtTurn
    <3> QED
      BY <2>1, <3>1
  <2>4. ASSUME NEW a \in Attempts, d.pc = "open", e.pc \in {"turn", "askfirst"},
               e.step = d.step, e.attempt = a, stepOf' = [stepOf EXCEPT ![a] = d.step]
        PROVE  OnCursor(q, u)'
    <3>1. stepOf'[a] = d.step
      BY <2>4 DEF RunnerShape
    <3>2. OnCursor(r, t)'
      BY <1>2, <2>4, <3>1 DEF OnCursor
    <3> QED
      BY <2>1, <3>2
  <2>5. CASE d.pc \in AtTurn /\ e.pc \in AtTurn /\ e.step = d.step /\ e.attempt = d.attempt
    <3>1. d.attempt \in Attempts /\ attempt[d.attempt].status # "NONE"
      BY <2>5 DEF DriversOK, DriverOK, InHand
    <3>2. stepOf'[d.attempt] = stepOf[d.attempt]
      BY <3>1, StepOfKept
    <3>3. e.pc # "after"
      BY <2>5 DEF AtTurn
    <3>4. OnCursor(r, t)'
      BY <1>2, <2>5, <3>2, <3>3 DEF OnCursor
    <3> QED
      BY <2>1, <3>4
  <2>6. CASE /\ d.pc = "settle" /\ e.pc = "after" /\ e.step = d.step /\ e.outcome = d.outcome
             /\ attempt'[d.attempt].status = EndOf(d.outcome)
    <3>1. /\ d.attempt \in Attempts /\ attempt[d.attempt].task = t
          /\ attempt[d.attempt].status # "NONE" /\ d.pc \in AtTurn
      BY <2>6 DEF DriversOK, DriverOK, InHand, AtTurn
    <3>2. attempt'[d.attempt].task = t /\ stepOf'[d.attempt] = stepOf[d.attempt]
      BY <3>1, StepOfKept, AttemptsGoOn
    <3>3. stepOf[d.attempt] = d.step /\ d.step = cursor[t]
      BY <3>1 DEF OnCursor
    <3>4. d.outcome = "ok" => attempt'[d.attempt].status = "COMPLETED"
      BY <2>6 DEF EndOf
    <3>5. d.outcome = "ok" =>
            \E a \in Attempts :
              attempt'[a].task = t /\ attempt'[a].status = "COMPLETED" /\ stepOf'[a] = d.step
      BY <3>1, <3>2, <3>3, <3>4
    <3>6. OnCursor(r, t)'
      BY <1>2, <2>6, <3>3, <3>5 DEF OnCursor, Accepted, AtTurn
    <3> QED
      BY <2>1, <3>6
  <2> QED
    BY <1>2, <2>2, <2>3, <2>4, <2>5, <2>6, Zenon DEF OwnStep
<1>3. ASSUME cursor' = cursor PROVE \A r \in Runners, t \in Tasks : OnCursor(r, t)'
  <2>1. CASE \A r \in Runners, t \in Tasks : StillRow(r, t) \/ driver'[r][t].pc = "begin"
    BY <1>3, <2>1, CursorStays
  <2>2. CASE \E r \in Runners, t \in Tasks :
               OnlyRow(r, t) /\ driver[r][t].pc # "off" /\ OwnStep(r, t)
    BY <1>2, <1>3, <2>2
  <2> QED
    BY <2>1, <2>2, DriverSteps
<1> QED
  BY <1>1, <1>3, CursorMoves

LEMMA StepPassed ==
  ASSUME TypeOK, RunnerShape, [RunnerNext]_vars, [Next]_ledgerVars, PassedStepsAccepted,
         \A r \in Runners, t \in Tasks : OnCursor(r, t)
  PROVE  PassedStepsAccepted'
<1> SUFFICES ASSUME NEW t \in Tasks, NEW k \in 0..(cursor'[t] - 1)
             PROVE  \E a \in Attempts : /\ attempt'[a].task = t /\ attempt'[a].status = "COMPLETED"
                                        /\ stepOf'[a] = k
  BY DEF PassedStepsAccepted
<1>1. cursor[t] \in Nat
  BY DEF RunnerShape
<1>2. \/ cursor'[t] = cursor[t]
      \/ cursor'[t] = cursor[t] + 1 /\ Accepted(t, cursor[t])
      \/ cursor'[t] \in Nat /\ cursor'[t] < cursor[t]
  <2>1. ASSUME NEW r \in Runners, NEW u \in Tasks, MoveCursor(r, u)
        PROVE  \/ cursor'[t] = cursor[t]
               \/ cursor'[t] = cursor[t] + 1 /\ Accepted(t, cursor[t])
               \/ cursor'[t] \in Nat /\ cursor'[t] < cursor[t]
    BY <2>1, CursorGoes
  <2> QED
    BY <2>1, CursorMoves
<1>3. k \in 0..(cursor[t] - 1) \/ (k = cursor[t] /\ Accepted(t, cursor[t]))
  BY <1>1, <1>2
<1>4. Accepted(t, k)
  BY <1>3 DEF PassedStepsAccepted, Accepted
<1> QED
  BY <1>4, AcceptedStays

LEMMA StepSteps == AllInv /\ StepsInv /\ [RunnerNext]_vars => StepsInv'
<1> SUFFICES ASSUME AllInv, StepsInv, [RunnerNext]_vars, lapses' = 0
             PROVE  /\ SoleHolder' /\ PassedStepsAccepted'
                    /\ \A r \in Runners, t \in Tasks : OnCursor(r, t)'
  BY DEF StepsInv
<1>1. TypeOK /\ RunnerShape /\ DriversOK
  BY DEF AllInv, RunnerInv
<1>2. lapses = 0
  BY <1>1, NoLapse
<1>3. [Next]_ledgerVars
  BY StepAll
<1>4. /\ SoleHolder /\ PassedStepsAccepted
      /\ \A r \in Runners, t \in Tasks : OnCursor(r, t)
  BY <1>2 DEF StepsInv
<1> QED
  BY <1>1, <1>2, <1>3, <1>4, StepSole, StepOnCursor, StepPassed

LEMMA InitSteps == RunnerInit => StepsInv
<1> SUFFICES ASSUME RunnerInit PROVE StepsInv
  OBVIOUS
<1>1. /\ held = {} /\ claiming = {}
      /\ \A r \in Runners, t \in Tasks : driver[r][t].pc = "off" /\ cursor[t] = 0
  BY DEF RunnerInit, Idle
<1>2. SoleHolder
  BY <1>1 DEF SoleHolder
<1>4. PassedStepsAccepted
  <2>1. SUFFICES ASSUME NEW t \in Tasks, NEW k \in 0..(cursor[t] - 1) PROVE FALSE
    BY DEF PassedStepsAccepted
  <2>2. cursor[t] = 0
    BY DEF RunnerInit
  <2> QED
    BY <2>1, <2>2
<1>3. \A r \in Runners, t \in Tasks : OnCursor(r, t)
  BY <1>1 DEF OnCursor, AtTurn
<1> QED
  BY <1>2, <1>3, <1>4 DEF StepsInv

\* As long as no living runner has lost its lease, whatever has crashed: every
\* step a cursor has passed has an accepted attempt, also after a step back.
THEOREM PassedStepsWereAccepted == RunnerSpec => [](lapses = 0 => PassedStepsAccepted)
<1>1. StepsInv => (lapses = 0 => PassedStepsAccepted)
  BY DEF StepsInv
<1> QED
  BY <1>1, InitAll, StepAll, InitSteps, StepSteps, PTL DEF RunnerSpec

-----------------------------------------------------------------------------
(* Nobody starts to wait, and questions stay where they are.                     *)

\* Only task t may start to wait.
WaitsAtMost(t) ==
  \A u \in Tasks \ {t} : task'[u].state = "WAITING" => task[u].state = "WAITING"

NoNewWait == \A u \in Tasks : task'[u].state = "WAITING" => task[u].state = "WAITING"

LEMMA OneRowWaits ==
  ASSUME TypeOK, NEW t, NEW row, task' = [task EXCEPT ![t] = row]
  PROVE  /\ WaitsAtMost(t)
         /\ (t \in Tasks /\ row.state = "WAITING" => task[t].state = "WAITING") => NoNewWait
BY DEF TypeOK, WaitsAtMost, NoNewWait

LEMMA TerminateWaits ==
  ASSUME NEW ts \in [Tasks -> TaskRow], NEW is, NEW t \in Tasks, NEW outcome \in Terminal,
         \A u \in Tasks : ts[u].state = "WAITING" => task[u].state = "WAITING",
         Terminate(ts, is, t, outcome)
  PROVE  NoNewWait
<1> DEFINE s == ts[t].session
           closed == [ts EXCEPT ![t] = Closed(ts[t], outcome)]
           home == IF sess[s].active = t THEN [sess EXCEPT ![s] = UserDrives] ELSE sess
           oldest == NextQueued(closed, ProjectOf[s])
           startable == {u \in oldest : home[closed[u].session] = UserDrives}
<1>1. \/ task' = closed
      \/ \E u \in startable : task' = [closed EXCEPT ![u] = [Cas(closed[u]) EXCEPT !.queued = FALSE]]
  BY Zenon DEF Terminate
<1>2. closed \in [Tasks -> TaskRow]
  BY ClosedType DEF TaskStates
<1>3. \A u \in Tasks : closed[u].state = "WAITING" => task[u].state = "WAITING"
  <2>1. Closed(ts[t], outcome).state = outcome
    BY ClosedKin
  <2>2. outcome # "WAITING"
    BY DEF Terminal
  <2> QED
    BY <2>1, <2>2
<1>4. startable \subseteq Tasks
  BY DEF NextQueued, QueuedIn
<1> HIDE DEF closed, startable
<1>5. ASSUME NEW u \in startable,
             task' = [closed EXCEPT ![u] = [Cas(closed[u]) EXCEPT !.queued = FALSE]]
      PROVE  NoNewWait
  <2> DEFINE row == [Cas(closed[u]) EXCEPT !.queued = FALSE]
  <2>1. row.state = closed[u].state
    <3>1. closed[u] \in TaskRow
      BY <1>2, <1>4
    <3> QED
      BY <3>1, StartedKin
  <2>2. task' = [closed EXCEPT ![u] = row]
    BY <1>5
  <2> HIDE DEF row
  <2> QED
    BY <1>2, <1>3, <1>4, <2>1, <2>2 DEF NoNewWait
<1> QED
  BY <1>1, <1>3, <1>5 DEF NoNewWait

LEMMA TransitionWaits ==
  ASSUME TypeOK, NEW t \in Tasks, NEW to, NEW why, Transition(t, to, why)
  PROVE  WaitsAtMost(t) /\ (to # "WAITING" => NoNewWait)
<1>1. task \in [Tasks -> TaskRow] /\ task[t] \in TaskRow
  BY DEF TypeOK
<1>2. CASE to \in Terminal /\ Terminate(task, inter, t, to)
  BY <1>1, <1>2, TerminateWaits DEF NoNewWait, WaitsAtMost
<1>3. CASE to \notin Terminal /\ task' = [task EXCEPT ![t] = MovedTo(task[t], to, why)]
  <2> DEFINE row == MovedTo(task[t], to, why)
  <2>1. row.state = to /\ task' = [task EXCEPT ![t] = row]
    BY <1>1, <1>3, MovedToKin
  <2> HIDE DEF row
  <2> QED
    BY <2>1, OneRowWaits
<1> QED
  BY <1>2, <1>3 DEF Transition

LEMMA RequestCancelWaits ==
  ASSUME TypeOK, NEW t \in Tasks, RequestCancel(t)
  PROVE  NoNewWait
<1> DEFINE row == [Cas(task[t]) EXCEPT !.cancel = TRUE]
           wished == [task EXCEPT ![t] = row]
<1>1. task \in [Tasks -> TaskRow] /\ task[t] \in TaskRow
  BY DEF TypeOK
<1>2. row \in TaskRow /\ row.state = task[t].state
  BY <1>1 DEF Cas, TaskRow
<1>3. task' = wished \/ Terminate(wished, inter, t, "CANCELLED")
  BY Zenon DEF RequestCancel
<1> HIDE DEF row
<1>4. CASE task' = wished
  BY <1>2, <1>4, OneRowWaits
<1>5. CASE Terminate(wished, inter, t, "CANCELLED")
  <2>1. /\ wished \in [Tasks -> TaskRow] /\ "CANCELLED" \in Terminal
        /\ \A u \in Tasks : wished[u].state = "WAITING" => task[u].state = "WAITING"
    BY <1>1, <1>2 DEF Terminal
  <2> HIDE DEF wished
  <2> QED
    BY <1>5, <2>1, TerminateWaits
<1> QED
  BY <1>3, <1>4, <1>5

LEMMA RespondWaits ==
  ASSUME TypeOK, NEW i \in Inters, NEW decision, NEW amount \in Nat,
         Respond(i, decision, amount)
  PROVE  NoNewWait
<1> SUFFICES ASSUME NEW t, t = inter[i].task,
                    NEW row, row = Answered(IF decision = "topup" THEN ToppedUp(task[t], amount)
                                            ELSE task[t]),
                    NEW answered, answered = [task EXCEPT ![t] = row]
             PROVE  NoNewWait
  OBVIOUS
<1>1. task \in [Tasks -> TaskRow] /\ t \in Tasks /\ task[t] \in TaskRow
  BY InterStatusType DEF TypeOK, Respond, Answerable, InterStates
<1>2. \/ Terminate(answered, Consumed(i), t, "FAILED")
      \/ /\ CanMove(task[t].state, "QUEUED")
         /\ task' = [answered EXCEPT ![t] = MovedTo(answered[t], "QUEUED", "")]
  BY Zenon DEF Respond
<1>3. row \in TaskRow /\ row.state = task[t].state
  <2>1. ToppedUp(task[t], amount) \in TaskRow
    BY <1>1, ToppedUpType
  <2>2. ToppedUp(task[t], amount).state = task[t].state
    BY <1>1 DEF ToppedUp, TaskRow
  <2>3. CASE decision = "topup"
    <3>1. row = Answered(ToppedUp(task[t], amount))
      BY <2>3, Zenon
    <3> QED
      BY <2>1, <2>2, <3>1, AnsweredKin, AnsweredType
  <2>4. CASE decision # "topup"
    <3>1. row = Answered(task[t])
      BY <2>4, Zenon
    <3> QED
      BY <1>1, <3>1, AnsweredKin, AnsweredType
  <2> QED
    BY <2>3, <2>4
<1>4. /\ answered \in [Tasks -> TaskRow] /\ answered[t] = row
      /\ \A u \in Tasks : answered[u].state = "WAITING" => task[u].state = "WAITING"
  BY <1>1, <1>3
<1>5. CASE Terminate(answered, Consumed(i), t, "FAILED")
  BY <1>1, <1>4, <1>5, TerminateWaits DEF Terminal
<1>6. CASE task' = [answered EXCEPT ![t] = MovedTo(answered[t], "QUEUED", "")]
  <2>1. MovedTo(row, "QUEUED", "").state = "QUEUED"
    BY <1>3, MovedToKin
  <2> QED
    BY <1>1, <1>4, <1>6, <2>1 DEF NoNewWait
<1> QED
  BY <1>2, <1>5, <1>6

LEMMA OtherRowsWait ==
  ASSUME TypeOK
  PROVE  /\ \A t \in Tasks : ResumeEnvironment(t) \/ Touch(t) => NoNewWait
         /\ \A p \in Projects : HandoverCommit(p) => NoNewWait
         /\ \A t \in Tasks : \A a, n : OpenAttempt(t, a, n) => NoNewWait
         /\ \A t \in Tasks : \A i, kind : OpenInteraction(t, i, kind) => WaitsAtMost(t)
<1>0. \A t \in Tasks : task[t] \in TaskRow
  BY DEF TypeOK
<1>1. ASSUME NEW t \in Tasks, ResumeEnvironment(t) PROVE NoNewWait
  <2> DEFINE row == MovedTo(task[t], "QUEUED", "")
  <2>1. task' = [task EXCEPT ![t] = row] /\ row.state = "QUEUED"
    BY ZenonT(40), <1>0, <1>1, MovedToKin DEF ResumeEnvironment
  <2> HIDE DEF row
  <2> QED
    BY <2>1, OneRowWaits
<1>2. ASSUME NEW t \in Tasks, Touch(t) PROVE NoNewWait
  <2> DEFINE row == Cas(task[t])
  <2>1. task' = [task EXCEPT ![t] = row] /\ row.state = task[t].state
    BY <1>0, <1>2, CasKin DEF Touch
  <2> HIDE DEF row
  <2> QED
    BY <2>1, OneRowWaits
<1>3. ASSUME NEW p \in Projects, HandoverCommit(p) PROVE NoNewWait
  <2>1. task' = task \/ task' = [task EXCEPT ![handing[p].task] = NewTask(handing[p])]
    BY <1>3, Zenon DEF HandoverCommit
  <2>2. \A h : NewTask(h).state = "RECEIVED"
    BY DEF NewTask, NoRow
  <2> QED
    BY <2>1, <2>2, OneRowWaits DEF NoNewWait
<1>4. ASSUME NEW t \in Tasks, NEW a, NEW n, OpenAttempt(t, a, n) PROVE NoNewWait
  <2> DEFINE given == [Cas(task[t]) EXCEPT !.attempt = a, !.reserved = task[t].reserved + n]
             row == IF task[t].state = "QUEUED" THEN MovedTo(given, "RUNNING", "") ELSE given
  <2>1. task' = [task EXCEPT ![t] = row]
    BY <1>4, Zenon DEF OpenAttempt
  <2>2. given.state = task[t].state
    <3>1. \A x \in TaskRow : \A b, m : [Cas(x) EXCEPT !.attempt = b, !.reserved = m].state = x.state
      BY DEF Cas, TaskRow
    <3> QED
      BY <1>0, <3>1
  <2>3. MovedTo(given, "RUNNING", "").state = "RUNNING"
    <3>1. \A x \in TaskRow : \A b, m :
            MovedTo([Cas(x) EXCEPT !.attempt = b, !.reserved = m], "RUNNING", "").state = "RUNNING"
      BY DEF MovedTo, Cas, TaskRow
    <3> QED
      BY <1>0, <3>1
  <2> HIDE DEF given
  <2>4. row.state = "WAITING" => task[t].state = "WAITING"
    BY <2>2, <2>3
  <2> HIDE DEF row
  <2> QED
    BY <2>1, <2>4, OneRowWaits
<1>5. ASSUME NEW t \in Tasks, NEW i, NEW kind, OpenInteraction(t, i, kind) PROVE WaitsAtMost(t)
  <2>1. task' = [task EXCEPT ![t] = WaitingFor(task[t], i, kind)]
    BY <1>5 DEF OpenInteraction
  <2> QED
    BY <2>1, OneRowWaits
<1> QED
  BY <1>1, <1>2, <1>3, <1>4, <1>5

LEMMA AttemptTransitionWaits ==
  ASSUME TypeOK, NEW a \in Attempts, NEW to \in AttemptStates, NEW cost \in Nat, NEW i,
         AttemptTransition(a, to, cost, i)
  PROVE  WaitsAtMost(attempt[a].task) /\ (to # "BUDGET_EXCEEDED" => NoNewWait)
<1> SUFFICES ASSUME NEW t, t = attempt[a].task,
                    NEW charged, charged = Charged(task[t], attempt[a].allocated, to, cost)
             PROVE  WaitsAtMost(t) /\ (to # "BUDGET_EXCEEDED" => NoNewWait)
  OBVIOUS
<1>1. \/ task' = [task EXCEPT ![t] = charged]
      \/ to = "BUDGET_EXCEEDED" /\ task' = [task EXCEPT ![t] = WaitingFor(charged, i, "resource")]
  BY Zenon DEF AttemptTransition
<1>2. t \in Tasks /\ task[t] \in TaskRow /\ attempt[a].allocated \in Nat
  <2>1. attempt[a] \in AttemptRow /\ attempt[a].status # "NONE"
    BY DEF TypeOK, AttemptTransition, CanMoveAttempt, AttemptMoves
  <2>2. t \in Tasks /\ attempt[a].allocated \in Nat
    BY <2>1, AttemptStatusType
  <2> QED
    BY <2>2 DEF TypeOK
<1>3. charged.state = task[t].state
  BY <1>2, ChargedKin
<1> QED
  BY <1>1, <1>3, OneRowWaits

\* A question that is there stays, with its task.
InterKept(i) ==
  inter[i].status # "NONE" => inter'[i].status # "NONE" /\ inter'[i].task = inter[i].task

LEMMA StatusKeepsInter ==
  ASSUME NEW row \in InterRow, row.status # "NONE", NEW st \in InterStates
  PROVE  LET e == [row EXCEPT !.status = st] IN e.status # "NONE" /\ e.task = row.task
<1>1. NoInterRow.status = "NONE"
  BY DEF NoInterRow
<1>2. row \in [status: InterStates, kind: Kinds, task: Tasks]
  BY <1>1 DEF InterRow
<1> QED
  BY <1>2 DEF InterStates

LEMMA StepInters ==
  ASSUME TypeOK, [Next]_ledgerVars, NEW i \in Inters
  PROVE  InterKept(i)
<1>0. inter[i] \in InterRow /\ inter \in [Inters -> InterRow]
      /\ {"cancelled", "lapsed", "consumed", "expired"} \subseteq InterStates
  BY DEF TypeOK, InterStates
<1>1. inter' = inter => InterKept(i)
  BY DEF InterKept
<1>2. ASSUME NEW j, inter[j].status = "NONE", NEW row, inter' = [inter EXCEPT ![j] = row]
      PROVE  InterKept(i)
  BY <1>0, <1>2 DEF InterKept
<1>3. ASSUME NEW j, NEW st \in InterStates, inter' = [inter EXCEPT ![j] = [inter[j] EXCEPT !.status = st]]
      PROVE  InterKept(i)
  BY <1>0, <1>3, StatusKeepsInter DEF InterKept
<1>4. ASSUME NEW is \in [Inters -> InterRow], NEW t, NEW ts, NEW u, NEW outcome,
             Terminate(ts, is, t, outcome),
             inter[i].status # "NONE" => is[i].status # "NONE" /\ is[i].task = inter[i].task
      PROVE  InterKept(i)
  <2>1. inter' = Withdrawn(is, t)
    BY <1>4, Zenon DEF Terminate
  <2>2. inter'[i] = is[i] \/ inter'[i] = [is[i] EXCEPT !.status = "cancelled"]
    BY <2>1 DEF Withdrawn
  <2>3. ASSUME inter[i].status # "NONE" PROVE inter'[i].status # "NONE" /\ inter'[i].task = is[i].task
    <3>1. is[i] \in InterRow /\ is[i].status # "NONE" /\ "cancelled" \in InterStates
      BY <1>0, <1>4, <2>3
    <3>2. LET e == [is[i] EXCEPT !.status = "cancelled"] IN e.status # "NONE" /\ e.task = is[i].task
      BY <3>1, StatusKeepsInter
    <3> QED
      BY <2>2, <3>1, <3>2
  <2> QED
    BY <1>4, <2>3 DEF InterKept
<1>5. ASSUME NEW t, NEW to, NEW why, Transition(t, to, why) PROVE InterKept(i)
  <2>1. inter' = inter \/ Terminate(task, inter, t, to)
    BY <1>5, Zenon DEF Transition
  <2> QED
    BY <1>0, <1>1, <1>4, <2>1
<1>6. ASSUME NEW j, NEW d, NEW n, Respond(j, d, n) PROVE InterKept(i)
  <2>1. /\ \/ inter' = Consumed(j)
           \/ \E ts, t, outcome : Terminate(ts, Consumed(j), t, outcome)
        /\ inter[j].status = "pending"
    BY <1>6, Zenon DEF Respond, Answerable
  <2>2. Consumed(j) = [inter EXCEPT ![j] = [inter[j] EXCEPT !.status = "consumed"]]
    BY Zenon DEF Consumed
  <2>3. j \in Inters => [inter[j] EXCEPT !.status = "consumed"] \in InterRow
    <3>1. ASSUME j \in Inters PROVE [inter[j] EXCEPT !.status = "consumed"] \in InterRow
      <4>0. NoInterRow.status = "NONE"
        BY DEF NoInterRow
      <4>1. inter[j] \in [status: InterStates, kind: Kinds, task: Tasks]
        BY <1>0, <2>1, <3>1, <4>0 DEF InterRow
      <4> QED
        BY <1>0, <4>1 DEF InterRow
    <3> QED
      BY <3>1
  <2>4. Consumed(j) \in [Inters -> InterRow]
    BY <1>0, <2>2, <2>3
  <2>5. inter[i].status # "NONE" =>
          Consumed(j)[i].status # "NONE" /\ Consumed(j)[i].task = inter[i].task
    BY <1>0, <2>2, StatusKeepsInter
  <2>6. CASE inter' = Consumed(j)
    BY <1>0, <1>3, <2>2, <2>6
  <2> QED
    BY <1>4, <2>1, <2>4, <2>5, <2>6
<1>7. CASE Next
  <2>1. CASE \E t \in Tasks, s \in Sessions, limit \in Limits : HandoverRead(t, s, limit)
    BY <1>1, <2>1 DEF HandoverRead
  <2>2. CASE \E p \in Projects : HandoverCommit(p) \/ SetOnline(p)
    BY <1>1, <2>2, Zenon DEF HandoverCommit, SetOnline
  <2>3. CASE \E t \in Tasks, to \in TaskStates : DriverMove(t, to)
    BY <1>5, <2>3, Zenon DEF DriverMove
  <2>4. CASE \E t \in Tasks : EnvironmentLost(t) \/ ResumeEnvironment(t)
    BY <1>1, <1>5, <2>4, Zenon DEF EnvironmentLost, ResumeEnvironment
  <2>5. CASE \E t \in Tasks : RequestCancel(t) \/ TakeDrive(t) \/ EnqueueDrive(t) \/ Touch(t)
    <3>1. inter' = inter \/ \E t, ts, outcome : Terminate(ts, inter, t, outcome)
      BY <2>5, Zenon DEF RequestCancel, TakeDrive, EnqueueDrive, Touch
    <3> QED
      BY <1>0, <1>1, <1>4, <3>1
  <2>6. CASE \E t \in Tasks, b \in Attempts, r \in Reserves : DriverOpensAttempt(t, b, r)
    BY <1>1, <2>6, Zenon DEF DriverOpensAttempt, OpenAttempt
  <2>7. CASE \E b \in Attempts, to \in AttemptStates, c \in Costs \cup {0}, j \in Inters \cup {NoInter} :
               AttemptMove(b, to, c, j)
    <3>1. PICK b, to, c, j : AttemptTransition(b, to, c, j)
      BY <2>7, Zenon DEF AttemptMove
    <3>2. \/ inter' = inter
          \/ inter[j].status = "NONE" /\ inter' = [inter EXCEPT ![j] = Asked(attempt[b].task, "resource")]
      BY <3>1, Zenon DEF AttemptTransition
    <3> QED
      BY <1>1, <1>2, <3>2
  <2>8. CASE \E t \in Tasks, j \in Inters, kind \in Kinds : DriverOrTurnAsks(t, j, kind)
    <3>1. PICK t, j, kind : /\ inter[j].status = "NONE"
                            /\ inter' = [inter EXCEPT ![j] = Asked(t, kind)]
      BY <2>8, Zenon DEF DriverOrTurnAsks, OpenInteraction
    <3> QED
      BY <1>2, <3>1
  <2>9. CASE \/ \E j \in Inters, d \in {"decline", "stop", "go"} : Respond(j, d, 0)
             \/ \E j \in Inters, amount \in TopUps : Respond(j, "topup", amount)
    BY <1>6, <2>9
  <2>10. CASE \E j \in Inters : Lapse(j)
    <3>1. PICK j : inter' = [inter EXCEPT ![j] = [inter[j] EXCEPT !.status = "lapsed"]]
      BY <2>10, Zenon DEF Lapse
    <3> QED
      BY <1>0, <1>3, <3>1
  <2>11. CASE \E idle \in SUBSET Drivable : TakeOver(idle)
    <3>1. inter'[i] = inter[i] \/ inter'[i] = [inter[i] EXCEPT !.status = "expired"]
      BY <2>11 DEF TakeOver
    <3> QED
      BY ZenonT(40), <1>0, <3>1, StatusKeepsInter DEF InterKept
  <2> QED
    BY <1>7, <2>1, <2>2, <2>3, <2>4, <2>5, <2>6, <2>7, <2>8, <2>9, <2>10, <2>11, Zenon DEF Next
<1> QED
  BY <1>1, <1>7 DEF ledgerVars

-----------------------------------------------------------------------------
(* No attempt is left behind.                                                    *)

NoNewAttempt == \A a \in Attempts : attempt[a].status = "NONE" => attempt'[a].status = "NONE"

\* A driver that starts a wait of its task leaves in the same transaction.
LeavesWaiting(r, t) ==
  WaitsAtMost(t) /\ OnlyRow(r, t) /\ driver[r][t].pc # "off" /\ driver'[r][t].pc = "leaving"

LEMMA QuietWaits == UNCHANGED ledgerVars => NoNewWait /\ NoNewAttempt
BY DEF ledgerVars, NoNewWait, NoNewAttempt

LEMMA TransitionAttempts == \A t, to, why : Transition(t, to, why) => NoNewAttempt
BY Zenon DEF Transition, NoNewAttempt

LEMMA AttemptTransitionAttempts ==
  ASSUME TypeOK, NEW a \in Attempts, NEW to, NEW cost, NEW i, AttemptTransition(a, to, cost, i)
  PROVE  NoNewAttempt
<1>1. attempt[a].status # "NONE"
  BY DEF AttemptTransition, CanMoveAttempt, AttemptMoves
<1> QED
  BY <1>1, AttemptBecomes DEF NoNewAttempt

LEMMA AskWaits ==
  ASSUME TypeOK, RunnerShape, NEW r \in Runners, NEW t \in Tasks, NEW kind,
         driver[r][t].pc # "off", AskAndLeave(r, t, kind)
  PROVE  (NoNewWait \/ LeavesWaiting(r, t)) /\ NoNewAttempt
<1>1. Leave(r, t) /\ (UNCHANGED ledgerVars \/ \E i : OpenInteraction(t, i, kind))
  BY Zenon DEF AskAndLeave
<1>2. OnlyRow(r, t) /\ driver'[r][t].pc = "leaving"
  BY <1>1, LeaveRow
<1>3. ASSUME NEW i, OpenInteraction(t, i, kind) PROVE LeavesWaiting(r, t) /\ NoNewAttempt
  <2>1. NoNewAttempt
    BY <1>3, Zenon DEF OpenInteraction, NoNewAttempt
  <2> QED
    BY <1>2, <1>3, <2>1, OtherRowsWait DEF LeavesWaiting
<1> QED
  BY <1>1, <1>3, QuietWaits

LEMMA InterpretWaits ==
  ASSUME TypeOK, RunnerShape, DriversOK, NEW r \in Runners, NEW t \in Tasks, Interpret(r, t)
  PROVE  (NoNewWait \/ LeavesWaiting(r, t)) /\ (NoNewAttempt \/ Open(r, t))
<1> DEFINE d == driver[r][t]
           Good == (NoNewWait \/ LeavesWaiting(r, t)) /\ (NoNewAttempt \/ Open(r, t))
<1>0. UNCHANGED ledgerVars => Good
  BY QuietWaits
<1>1. ASSUME NEW to, NEW why, Transition(t, to, why), to # "WAITING" PROVE Good
  BY <1>1, TransitionWaits, TransitionAttempts
<1>2. ASSUME d.pc \in AtTurn, NEW to \in AttemptStates \ {"BUDGET_EXCEEDED"}, NEW cost \in Nat,
             NEW i, AttemptTransition(d.attempt, to, cost, i)
      PROVE  Good
  <2>1. d.attempt \in Attempts
    BY <1>2 DEF DriversOK, DriverOK, InHand
  <2> QED
    BY <1>2, <2>1, AttemptTransitionWaits, AttemptTransitionAttempts
<1>3. ASSUME NEW kind, AskAndLeave(r, t, kind), d.pc # "off" PROVE Good
  BY <1>3, AskWaits
<1>4. d.cost \in Nat
  <2>1. d.cost \in Costs \cup {0}
    BY DriverTyped DEF DriverRow
  <2>2. \A c \in Costs \cup {0} : c \in Nat
    BY LedgerAssumption
  <2> HIDE DEF d
  <2> QED
    BY <2>1, <2>2, Zenon
<1>5. {"RUNNING", "CANCELLED", "COMPLETED", "FAILED"} \subseteq AttemptStates \ {"BUDGET_EXCEEDED"}
  BY DEF AttemptStates, AttemptTerminal
<1> SUFFICES Good
  OBVIOUS
<1> HIDE DEF Good
<1>6. CASE Begin(r, t)
  BY <1>0, <1>1, <1>6 DEF Begin
<1>7. CASE Validate(r, t)
  BY <1>0, <1>1, <1>7 DEF Validate
<1>8. CASE Step(r, t)
  BY <1>0, <1>1, <1>8 DEF Step
<1>9. CASE Open(r, t)
  <2>1. UNCHANGED ledgerVars \/ \E a, n : OpenAttempt(t, a, n)
    BY <1>9, Zenon DEF Open
  <2>2. NoNewWait
    BY <2>1, QuietWaits, OtherRowsWait
  <2> QED
    BY <1>9, <2>2 DEF Good
<1>10. CASE Broke(r, t)
  BY <1>3, <1>10 DEF Broke, At
<1>11. CASE AskFirst(r, t)
  <2>1. d.pc \in AtTurn /\ AttemptTransition(d.attempt, "CANCELLED", 0, NoInter)
    BY <1>11 DEF AskFirst, At, AtTurn
  <2> QED
    BY <1>2, <1>5, <2>1
<1>12. CASE Asking(r, t)
  <2>1. d.pc # "off" /\ AskAndLeave(r, t, "question")
    BY <1>12, Zenon DEF Asking, At, AskAndLeave
  <2> QED
    BY <1>3, <2>1
<1>13. CASE Start(r, t) \/ Judge(r, t) \/ Left(r, t)
  BY <1>0, <1>13 DEF Start, Judge, Left
<1>14. CASE Turned(r, t)
  <2>1. d.pc \in AtTurn /\ AttemptTransition(d.attempt, "RUNNING", 0, NoInter)
    BY <1>14 DEF Turned, At, AtTurn
  <2> QED
    BY <1>2, <1>5, <2>1
<1>15. CASE Settle(r, t)
  <2>1. d.pc = "settle" /\ d.pc \in AtTurn
    BY <1>15 DEF Settle, At, AtTurn
  <2>2. \/ d.outcome # "over" /\ AttemptTransition(d.attempt, EndOf(d.outcome), d.cost, NoInter)
        \/ Leave(r, t) /\ \E i : AttemptTransition(d.attempt, "BUDGET_EXCEEDED", d.cost, i)
        \/ UNCHANGED ledgerVars
    BY <1>15, Zenon DEF Settle
  <2>3. CASE d.outcome # "over" /\ AttemptTransition(d.attempt, EndOf(d.outcome), d.cost, NoInter)
    <3>1. EndOf(d.outcome) \in {"CANCELLED", "COMPLETED", "FAILED"}
      BY <2>3 DEF EndOf
    <3> QED
      BY <1>2, <1>4, <1>5, <2>1, <2>3, <3>1
  <2>4. ASSUME NEW i, Leave(r, t), AttemptTransition(d.attempt, "BUDGET_EXCEEDED", d.cost, i) PROVE Good
    <3>1. d.attempt \in Attempts /\ attempt[d.attempt].task = t
      BY <2>1 DEF DriversOK, DriverOK, InHand
    <3>2. "BUDGET_EXCEEDED" \in AttemptStates
      BY DEF AttemptStates, AttemptTerminal
    <3>3. WaitsAtMost(t) /\ NoNewAttempt
      BY <1>4, <2>4, <3>1, <3>2, AttemptTransitionWaits, AttemptTransitionAttempts
    <3>4. OnlyRow(r, t) /\ driver'[r][t].pc = "leaving"
      BY <2>4, LeaveRow
    <3> QED
      BY <2>1, <3>3, <3>4 DEF Good, LeavesWaiting
  <2> QED
    BY <1>0, <2>2, <2>3, <2>4
<1>16. CASE AfterTurn(r, t)
  <2>1. d.pc # "off"
    BY <1>16 DEF AfterTurn, At
  <2>2. \/ UNCHANGED ledgerVars
        \/ AskAndLeave(r, t, "question")
        \/ Transition(t, "CANCELLED", "") \/ Transition(t, "FAILED", "")
        \/ Transition(t, "WAITING", "ENVIRONMENT") /\ Leave(r, t)
    BY <1>16, Zenon DEF AfterTurn, Try
  <2>3. CASE Transition(t, "WAITING", "ENVIRONMENT") /\ Leave(r, t)
    <3>1. WaitsAtMost(t) /\ NoNewAttempt
      BY <2>3, TransitionWaits, TransitionAttempts
    <3>2. OnlyRow(r, t) /\ driver'[r][t].pc = "leaving"
      BY <2>3, LeaveRow
    <3> QED
      BY <2>1, <3>1, <3>2 DEF Good, LeavesWaiting
  <2> QED
    BY <1>0, <1>1, <1>3, <2>1, <2>2, <2>3
<1>17. CASE MoveCursor(r, t)
  <2>1. NoNewAttempt
    BY <1>17, Zenon DEF MoveCursor, Touch, NoNewAttempt
  <2>2. NoNewWait
    BY <1>17, OtherRowsWait DEF MoveCursor
  <2> QED
    BY <2>1, <2>2 DEF Good
<1>18. CASE Requeue(r, t)
  BY <1>0, <1>1, <1>18 DEF Requeue
<1>19. CASE Finish(r, t)
  BY <1>0, <1>1, <1>19 DEF Finish
<1> QED
  BY <1>6, <1>7, <1>8, <1>9, <1>10, <1>11, <1>12, <1>13, <1>14, <1>15, <1>16, <1>17, <1>18,
     <1>19, Zenon DEF Interpret

\* A question that a turn has put for task t.
TurnAsked(t) == \E i \in fromTurn \cap Inters : inter[i].task = t /\ inter[i].status # "NONE"

LEMMA AroundWaits ==
  ASSUME TypeOK, OwedDrives, Web \/ Aside \/ (\E r \in Runners : Loop(r)) \/ UNCHANGED vars
  PROVE  NoNewWait /\ NoNewAttempt
<1>0. UNCHANGED ledgerVars \/ (task' = task /\ attempt' = attempt) => NoNewWait /\ NoNewAttempt
  BY QuietWaits DEF NoNewWait, NoNewAttempt
<1>1. attempt' = attempt => NoNewAttempt
  BY DEF NoNewAttempt
<1>2. ASSUME NEW i \in Inters, NEW d, NEW n \in Nat, Respond(i, d, n) PROVE NoNewWait /\ NoNewAttempt
  <2>1. attempt' = attempt
    BY <1>2, Zenon DEF Respond
  <2> QED
    BY <1>1, <1>2, <2>1, RespondWaits
<1>3. CASE Web
  <2>1. CASE \E t \in Tasks, s \in Sessions, limit \in Limits : AskForHandover(t, s, limit)
    BY <1>0, <2>1 DEF AskForHandover, HandoverRead
  <2>2. CASE \E p \in Projects : FinishHandover(p)
    <3>1. PICK p \in Projects : HandoverCommit(p)
      BY <2>2 DEF FinishHandover
    <3>2. attempt' = attempt
      BY <3>1, Zenon DEF HandoverCommit
    <3> QED
      BY <1>1, <3>1, <3>2, OtherRowsWait
  <2>3. CASE \E t \in Tasks : CancelTask(t)
    <3>1. PICK t \in Tasks : RequestCancel(t)
      BY <2>3 DEF CancelTask
    <3>2. attempt' = attempt
      BY <3>1, Zenon DEF RequestCancel
    <3> QED
      BY <1>1, <3>1, <3>2, RequestCancelWaits
  <2>4. CASE \/ \E i \in Inters, d \in {"go", "stop", "decline"}, halt \in BOOLEAN :
                  AnswerInteraction(i, d, 0, halt)
             \/ \E i \in Inters, amount \in TopUps : AnswerInteraction(i, "topup", amount, FALSE)
    <3>1. \/ \E i \in Inters : \E d : Respond(i, d, 0)
          \/ \E i \in Inters, n \in TopUps : Respond(i, "topup", n)
      BY <2>4, Zenon DEF AnswerInteraction
    <3>2. TopUps \subseteq Nat /\ 0 \in Nat
      BY LedgerAssumption
    <3> QED
      BY <1>2, <3>1, <3>2
  <2>5. CASE \E c \in owed : Post(c)
    <3>1. (\E t : EnqueueDrive(t)) \/ UNCHANGED ledgerVars
      BY <2>5 DEF Post
    <3> QED
      BY <1>0, <3>1 DEF EnqueueDrive
  <2>6. CASE WebDies
    BY <1>0, <2>6 DEF WebDies
  <2> QED
    BY <1>3, <2>1, <2>2, <2>3, <2>4, <2>5, <2>6, Zenon DEF Web
<1>4. CASE Aside
  <2>1. UNCHANGED ledgerVars \/ \E i \in Inters : Respond(i, "go", 0)
    BY <1>4, Zenon DEF Aside, LeaseLapses, OrphanEnds, Listens, AskTimesOut, UserStopsOwnTurn
  <2> QED
    BY <1>0, <1>2, <2>1
<1>5. CASE \E r \in Runners : Loop(r)
  <2>1. \/ UNCHANGED ledgerVars \/ (\E us : TakeOver(us)) \/ (\E t : TakeDrive(t))
        \/ \E t \in Tasks : ResumeEnvironment(t)
    BY <1>5, Zenon DEF Loop, RunOnce, Crash, HandleDrive, Reconnect, HandleAnswer,
                       HandleInterrupt, CommandFails
  <2>2. CASE \E t \in Tasks : ResumeEnvironment(t)
    <3>1. attempt' = attempt
      BY <2>2 DEF ResumeEnvironment
    <3> QED
      BY <1>1, <2>2, <3>1, OtherRowsWait
  <2> QED
    BY <1>0, <2>1, <2>2 DEF TakeOver, TakeDrive
<1>6. CASE UNCHANGED vars
  BY <1>0, <1>6 DEF vars
<1> QED
  BY <1>3, <1>4, <1>5, <1>6

LEMMA TurnsWait ==
  ASSUME TypeOK, WheelInv, TurnsExist, NEW r \in Runners, NEW t \in Tasks, Turns(r, t)
  PROVE  /\ NoNewAttempt
         /\ NoNewWait \/ \E u \in Tasks : WaitsAtMost(u) /\ TurnAsked(u)' /\ driver' = driver
<1>1. CASE TurnEnds(r, t) \/ TurnTimesOut(r, t) \/ StartRefused(r, t)
  BY <1>1, QuietWaits DEF TurnEnds, TurnTimesOut, StartRefused
<1>2. ASSUME NEW i \in Inters, NEW kind, TurnAsks(r, t, i, kind)
      PROVE  /\ NoNewAttempt
             /\ \E u \in Tasks : WaitsAtMost(u) /\ TurnAsked(u)' /\ driver' = driver
  <2> DEFINE u == sess[task[t].session].active
  <2>1. OpenInteraction(u, i, kind) /\ fromTurn' = fromTurn \cup {i} /\ driver' = driver
    BY <1>2, Zenon DEF TurnAsks
  <2>3. u \in Tasks
    <3>1. Exists(t) /\ task[t].session \in Sessions
      BY <1>2 DEF TurnAsks, TurnsExist, WheelInv, RowsInLine
    <3> QED
      BY <1>2, <3>1 DEF TurnAsks, TypeOK, SessionRow
  <2> HIDE DEF u
  <2>2. inter' = [inter EXCEPT ![i] = Asked(u, kind)] /\ attempt' = attempt
    BY <2>1, Zenon DEF OpenInteraction
  <2>4. inter'[i].task = u /\ inter'[i].status # "NONE"
    BY <2>2 DEF TypeOK, Asked
  <2> QED
    BY <2>1, <2>2, <2>3, <2>4, OtherRowsWait DEF NoNewAttempt, TurnAsked
<1> QED
  BY <1>1, <1>2, Zenon DEF Turns

\* A driver that has read its task as ready and has not left the step again.
AtStep == AtTurn \cup {"open", "broke", "asking", "after", "requeue", "finish"}

\* Whoever has opened an attempt of a live task still has it in hand, or a turn of
\* the task has put a question; so it is for a task that waits under its driver.
LeftBehind ==
  faults = 0 /\ lapses = 0 =>
    /\ \A a \in Attempts : LiveAttempt(a) /\ Live(attempt[a].task) =>
         \/ \E r \in Runners : LET d == driver[r][attempt[a].task] IN
                               d.pc \in AtTurn /\ d.attempt = a
         \/ TurnAsked(attempt[a].task)
    /\ \A r \in Runners, t \in Tasks :
         driver[r][t].pc \in AtStep /\ task[t].state = "WAITING" => TurnAsked(t)

LEMMA NoFault ==
  ASSUME RunnerShape, [RunnerNext]_vars, faults' = 0
  PROVE  /\ faults = 0
         /\ ~WebDies /\ \A r \in Runners, t \in Tasks : ~Crash(r) /\ ~StartRefused(r, t)
<1>1. faults \in Nat
  BY DEF RunnerShape
<1>2. faults' = faults \/ faults' = faults + 1
  <2>1. CASE Web
    BY <2>1, WebRows
  <2>2. CASE Aside
    BY <2>2, AsideRows
  <2>3. CASE \E r \in Runners : Loop(r)
    BY <2>3, LoopRows
  <2>4. CASE \E r \in Runners, t \in Tasks : Interpret(r, t)
    BY <2>4, InterpretRows
  <2>5. CASE \E r \in Runners, t \in Tasks : Turns(r, t)
    BY <2>5, TurnsRows
  <2>6. CASE UNCHANGED vars
    BY <2>6 DEF vars, runnerVars
  <2> QED
    BY <2>1, <2>2, <2>3, <2>4, <2>5, <2>6, NextParts, Zenon
<1>3. faults = 0
  BY <1>1, <1>2
<1> QED
  BY <1>1, <1>3 DEF WebDies, Crash, StartRefused

LEMMA AskedStays ==
  ASSUME TypeOK, [RunnerNext]_vars, [Next]_ledgerVars, NEW t \in Tasks, TurnAsked(t)
  PROVE  TurnAsked(t)'
<1>1. PICK i \in fromTurn \cap Inters : inter[i].task = t /\ inter[i].status # "NONE"
  BY DEF TurnAsked
<1>2. inter'[i].task = t /\ inter'[i].status # "NONE"
  BY <1>1, StepInters DEF InterKept
<1>3. fromTurn \subseteq fromTurn'
  <2>1. CASE Web
    BY <2>1, WebRows
  <2>2. CASE Aside
    BY <2>2, AsideRows
  <2>3. CASE \E r \in Runners : Loop(r)
    BY <2>3, LoopRows
  <2>4. CASE \E r \in Runners, u \in Tasks : Interpret(r, u)
    BY <2>4, InterpretRows
  <2>5. CASE \E r \in Runners, u \in Tasks : Turns(r, u)
    BY <2>5, TurnsRows
  <2>6. CASE UNCHANGED vars
    BY <2>6 DEF vars, runnerVars
  <2> QED
    BY <2>1, <2>2, <2>3, <2>4, <2>5, <2>6, NextParts, Zenon
<1> QED
  BY <1>1, <1>2, <1>3 DEF TurnAsked

\* What becomes of a driver at its turn when nothing fails: it goes on with the
\* same attempt, closes it, or finds that its task waits already.
LEMMA TurnHeld ==
  ASSUME TypeOK, RunnerShape, DriversOK, [RunnerNext]_vars, faults' = 0,
         NEW r \in Runners, NEW t \in Tasks, driver[r][t].pc \in AtTurn, Live(t)
  PROVE  \/ driver'[r][t].pc \in AtTurn /\ driver'[r][t].attempt = driver[r][t].attempt
         \/ attempt'[driver[r][t].attempt].status \in AttemptTerminal
         \/ task[t].state = "WAITING"
<1> DEFINE d == driver[r][t]
           Good == \/ driver'[r][t].pc \in AtTurn /\ driver'[r][t].attempt = d.attempt
                   \/ attempt'[d.attempt].status \in AttemptTerminal
                   \/ task[t].state = "WAITING"
<1>0. driver'[r][t] = d => Good
  OBVIOUS
<1>1. d.attempt \in Attempts /\ d.pc # "off" /\ Came(d, task[t])
  BY DEF DriversOK, DriverOK, InHand, AtTurn
<1> SUFFICES Good
  OBVIOUS
<1>2. ASSUME OnlyRow(r, t), OwnStep(r, t), driver'[r][t].pc \in AtTurn PROVE Good
  BY <1>2 DEF OwnStep, AtTurn
<1>3. CASE Interpret(r, t)
  <2>1. OnlyRow(r, t) /\ OwnStep(r, t)
    BY <1>3, OwnSteps
  <2>2. CASE AskFirst(r, t)
    <3>1. attempt'[d.attempt].status = "CANCELLED"
      BY <1>1, <2>2, AttemptBecomes DEF AskFirst
    <3> QED
      BY <3>1 DEF AttemptTerminal
  <2>3. CASE Settle(r, t)
    <3>1. \/ d.outcome # "over" /\ AttemptTransition(d.attempt, EndOf(d.outcome), d.cost, NoInter)
          \/ \E i : AttemptTransition(d.attempt, "BUDGET_EXCEEDED", d.cost, i)
          \/ ~CanMove(task[t].state, "WAITING")
      BY <2>3, Zenon DEF Settle
    <3>2. CASE d.outcome # "over" /\ AttemptTransition(d.attempt, EndOf(d.outcome), d.cost, NoInter)
      <4>1. attempt'[d.attempt].status = EndOf(d.outcome)
        BY <1>1, <3>2, AttemptBecomes
      <4> QED
        BY <4>1 DEF EndOf, AttemptTerminal
    <3>3. CASE \E i : AttemptTransition(d.attempt, "BUDGET_EXCEEDED", d.cost, i)
      <4>1. attempt'[d.attempt].status = "BUDGET_EXCEEDED"
        BY <1>1, <3>3, AttemptBecomes
      <4> QED
        BY <4>1 DEF AttemptTerminal
    <3>4. CASE ~CanMove(task[t].state, "WAITING")
      <4>1. d.pc = "settle"
        BY <2>3 DEF Settle, At
      <4>2. task[t].state # "RECEIVED"
        BY <1>1, <4>1 DEF Came
      <4> QED
        BY <3>4, <4>2 DEF Live, CanMove, TaskMoves, TaskStates, Terminal
    <3> QED
      BY <3>1, <3>2, <3>3, <3>4
  <2>4. Start(r, t) \/ Turned(r, t) \/ Judge(r, t) \/ AskFirst(r, t) \/ Settle(r, t)
    BY <1>3 DEF Interpret, Begin, Validate, Step, Open, Broke, Asking, AfterTurn, MoveCursor,
                Requeue, Finish, Left, At, AtTurn
  <2>5. CASE Start(r, t) \/ Turned(r, t)
    <3>1. Goto(r, t, "wait") \/ Goto(r, t, "judge")
      BY <2>5 DEF Start, Turned
    <3>2. {"wait", "judge"} \subseteq AtTurn /\ AtTurn \subseteq Pcs
      BY DEF AtTurn, Pcs
    <3> QED
      BY <3>1, <3>2, GotoRow
  <2>6. CASE Judge(r, t)
    <3>1. PICK o : driver' = [driver EXCEPT ![r][t].pc = "settle", ![r][t].outcome = o]
      BY <2>6 DEF Judge
    <3>2. \A x \in DriverRow : [x EXCEPT !.pc = "settle", !.outcome = o].pc = "settle"
      BY DEF DriverRow
    <3>3. driver'[r][t] = [d EXCEPT !.pc = "settle", !.outcome = o]
      BY <3>1 DEF RunnerShape
    <3>4. driver'[r][t].pc \in AtTurn
      BY <3>2, <3>3, DriverTyped DEF AtTurn
    <3> QED
      BY <1>2, <2>1, <3>4
  <2> QED
    BY <2>2, <2>3, <2>4, <2>5, <2>6
<1>4. CASE TurnEnds(r, t) \/ TurnTimesOut(r, t)
  <2>1. OnlyRow(r, t) /\ OwnStep(r, t)
    BY <1>4, OwnSteps
  <2>2. PICK c, o : driver' = [driver EXCEPT ![r][t].pc = "turned", ![r][t].cost = c, ![r][t].outcome = o]
    BY <1>4 DEF TurnEnds, TurnTimesOut, Returns
  <2>3. \A x \in DriverRow : [x EXCEPT !.pc = "turned", !.cost = c, !.outcome = o].pc = "turned"
    BY DEF DriverRow
  <2>4. driver'[r][t] = [d EXCEPT !.pc = "turned", !.cost = c, !.outcome = o]
    BY <2>2 DEF RunnerShape
  <2>5. driver'[r][t].pc \in AtTurn
    BY <2>3, <2>4, DriverTyped DEF AtTurn
  <2> QED
    BY <1>2, <2>1, <2>5
<1>5. ASSUME NEW q \in Runners, NEW u \in Tasks, q # r \/ u # t,
             Interpret(q, u) \/ TurnEnds(q, u) \/ TurnTimesOut(q, u)
      PROVE  Good
  <2>1. OnlyRow(q, u)
    BY <1>5, OwnSteps
  <2> QED
    BY <1>0, <1>5, <2>1 DEF OnlyRow
<1>6. ASSUME NEW q, Loop(q) PROVE Good
  <2>1. CASE RunOnce(q)
    <3>1. driver' = driver \/ driver' = Deafened(q)
      BY <2>1, Zenon DEF RunOnce
    <3>2. \A x \in DriverRow : LET e == [x EXCEPT !.pc = "deaf"] IN e.pc = "deaf" /\ e.attempt = x.attempt
      BY DEF DriverRow
    <3>3. ASSUME driver' = Deafened(q) PROVE Good
      <4>1. driver'[r][t] = d \/ driver'[r][t] = [d EXCEPT !.pc = "deaf"]
        BY <3>3 DEF Deafened, RunnerShape
      <4>2. LET e == [d EXCEPT !.pc = "deaf"] IN e.pc = "deaf" /\ e.attempt = d.attempt
        BY <3>2, DriverTyped
      <4> QED
        BY <1>0, <4>1, <4>2 DEF AtTurn
    <3> QED
      BY <1>0, <3>1, <3>3
  <2>2. CASE Crash(q) \/ \E c : CommandFails(q, c)
    <3>1. faults' = faults + 1 /\ faults \in Nat
      BY <2>2 DEF Crash, CommandFails, RunnerShape
    <3> QED
      BY <3>1
  <2>3. ASSUME NEW u \in Tasks, HandleDrive(q, u) PROVE Good
    <3>1. driver' = driver \/ (driver[q][u].pc = "off" /\ driver' = [driver EXCEPT ![q][u] = [Idle EXCEPT !.pc = "begin"]])
      BY <2>3, Zenon DEF HandleDrive
    <3>2. driver'[r][t] = d
      BY <1>1, <3>1 DEF RunnerShape
    <3> QED
      BY <1>0, <3>2
  <2>4. CASE \E u \in Tasks : Reconnect(q, u)
    BY <1>0, <2>4 DEF Reconnect, runnerVars
  <2>5. CASE \E c \in queue : HandleAnswer(q, c) \/ HandleInterrupt(q, c)
    BY <1>0, <2>5 DEF HandleAnswer, HandleInterrupt
  <2> QED
    BY <1>6, <2>1, <2>2, <2>3, <2>4, <2>5, Zenon DEF Loop
<1>7. CASE \E q \in Runners, u \in Tasks : Interpret(q, u)
  BY <1>3, <1>5, <1>7
<1>8. CASE \E q \in Runners, u \in Tasks : Turns(q, u)
  <2>1. PICK q \in Runners, u \in Tasks : Turns(q, u)
    BY <1>8
  <2>2. CASE \E i \in Inters, kind \in TurnKinds : TurnAsks(q, u, i, kind)
    <3>1. driver' = driver
      BY <2>2, Zenon DEF TurnAsks
    <3> QED
      BY <1>0, <3>1
  <2>3. ~StartRefused(q, u)
    BY NoFault
  <2>4. CASE TurnEnds(q, u) \/ TurnTimesOut(q, u)
    BY <1>4, <1>5, <2>4
  <2> QED
    BY <2>1, <2>2, <2>3, <2>4, Zenon DEF Turns
<1>9. CASE \E q \in Runners : Loop(q)
  BY <1>6, <1>9
<1>10. CASE Web \/ Aside \/ UNCHANGED vars
  BY <1>0, <1>10, WebRows, AsideRows DEF vars, runnerVars
<1> HIDE DEF Good
<1> QED
  BY <1>7, <1>8, <1>9, <1>10, NextParts, Zenon

\* A driver enters its step only for a task it has just read as ready.
LEMMA EntersStep ==
  ASSUME TypeOK, RunnerShape, DriversOK, [RunnerNext]_vars, NEW r \in Runners, NEW t \in Tasks,
         driver'[r][t].pc \in AtStep, driver[r][t].pc \notin AtStep
  PROVE  task'[t].state # "WAITING"
<1>0. driver'[r][t] # driver[r][t]
  OBVIOUS
<1>1. "off" \notin AtStep /\ "begin" \notin AtStep /\ "wait" \in AtStep /\ "deaf" \in AtStep
  BY DEF AtStep, AtTurn
<1>2. ~StillRow(r, t) /\ driver'[r][t].pc # "begin"
  BY <1>1 DEF StillRow
<1>3. driver' # driver
  BY <1>0
<1>4. ASSUME NEW q \in Runners, Loop(q) PROVE FALSE
  BY <1>2, <1>4, LoopStill
<1>5. ~Web /\ ~Aside /\ ~UNCHANGED vars
  BY <1>3, WebRows, AsideRows DEF vars, runnerVars
<1>6. ASSUME NEW q \in Runners, NEW u \in Tasks, Turns(q, u) PROVE FALSE
  <2>1. CASE \E i \in Inters, kind \in TurnKinds : TurnAsks(q, u, i, kind)
    BY <1>3, <2>1, Zenon DEF TurnAsks
  <2>2. CASE TurnEnds(q, u) \/ TurnTimesOut(q, u) \/ StartRefused(q, u)
    <3>1. OnlyRow(q, u)
      BY <2>2, OwnSteps
    <3>2. q = r /\ u = t
      BY <1>0, <3>1 DEF OnlyRow
    <3>3. driver[r][t].pc \in {"wait", "deaf", "turn"}
      BY <2>2, <3>2 DEF TurnEnds, TurnTimesOut, StartRefused, At
    <3> QED
      BY <3>3 DEF AtStep, AtTurn
  <2> QED
    BY <1>6, <2>1, <2>2, Zenon DEF Turns
<1>7. ASSUME NEW q \in Runners, NEW u \in Tasks, Interpret(q, u) PROVE task'[t].state # "WAITING"
  <2>1. OnlyRow(q, u)
    BY <1>7, OwnSteps
  <2>2. q = r /\ u = t
    BY <1>0, <2>1 DEF OnlyRow
  <2>3. Left(r, t) \/ Begin(r, t) \/ Validate(r, t) \/ Step(r, t)
    BY <1>7, <2>2 DEF Interpret, Open, Broke, AskFirst, Asking, Start, Turned, Judge, Settle,
                      AfterTurn, MoveCursor, Requeue, Finish, At, AtStep, AtTurn
  <2>4. {"off", "validate", "step", "leaving"} \cap AtStep = {}
        /\ {"off", "validate", "step"} \subseteq Pcs
    BY DEF AtStep, AtTurn, Pcs
  <2>5. ~Goto(r, t, "off") /\ ~Goto(r, t, "validate") /\ ~Goto(r, t, "step") /\ ~Leave(r, t)
    BY <2>4, GotoRow, LeaveRow
  <2>6. Step(r, t)
    BY <2>3, <2>5 DEF Left, Begin, Validate
  <2>7. task[t].state \in {"QUEUED", "RUNNING"} /\ UNCHANGED ledgerVars
    BY <2>5, <2>6, Zenon DEF Step
  <2> QED
    BY <2>7 DEF ledgerVars
<1> QED
  BY <1>4, <1>5, <1>6, <1>7, NextParts, Zenon

LEMMA OpenTakes ==
  ASSUME TypeOK, RunnerShape, NEW r \in Runners, NEW t \in Tasks, Open(r, t),
         NEW a \in Attempts, attempt[a].status = "NONE", attempt'[a].status # "NONE"
  PROVE  driver'[r][t].pc \in AtTurn /\ driver'[r][t].attempt = a /\ attempt'[a].task = t
<1>1. PICK b \in Attempts, n \in Reserves, pc \in {"turn", "askfirst"} :
        OpenAttempt(t, b, n) /\ driver' = [driver EXCEPT ![r][t].pc = pc, ![r][t].attempt = b]
  <2>1. attempt' # attempt
    OBVIOUS
  <2>2. UNCHANGED ledgerVars => attempt' = attempt
    BY DEF ledgerVars
  <2> QED
    BY <2>1, <2>2, Zenon DEF Open
<1>2. attempt' = [attempt EXCEPT ![b] = [status |-> "CREATED", task |-> t, allocated |-> n]]
  BY <1>1, Zenon DEF OpenAttempt
<1>3. a = b /\ attempt'[a].task = t
  BY <1>2 DEF TypeOK
<1>4. \A x \in DriverRow : LET e == [x EXCEPT !.pc = pc, !.attempt = b] IN e.pc = pc /\ e.attempt = b
  BY DEF DriverRow
<1>5. driver'[r][t] = [driver[r][t] EXCEPT !.pc = pc, !.attempt = b]
  BY <1>1 DEF RunnerShape
<1>6. driver'[r][t].pc = pc /\ driver'[r][t].attempt = b
  BY <1>4, <1>5, DriverTyped
<1> QED
  BY <1>3, <1>6 DEF AtTurn

LEMMA StepLeft == AllInv /\ StepsInv /\ LeftBehind /\ [RunnerNext]_vars => LeftBehind'
<1> SUFFICES ASSUME AllInv, StepsInv, LeftBehind, [RunnerNext]_vars, faults' = 0, lapses' = 0
             PROVE  /\ \A a \in Attempts : LiveAttempt(a)' /\ Live(attempt[a].task)' =>
                         \/ \E r \in Runners : LET d == driver'[r][attempt'[a].task] IN
                                               d.pc \in AtTurn /\ d.attempt = a
                         \/ TurnAsked(attempt[a].task)'
                    /\ \A r \in Runners, t \in Tasks :
                         driver'[r][t].pc \in AtStep /\ task'[t].state = "WAITING" => TurnAsked(t)'
  BY DEF LeftBehind
<1>1. /\ TypeOK /\ WheelInv /\ HeldInv /\ RunnerShape /\ DriversOK /\ OwedDrives /\ TurnsExist
      /\ [Next]_ledgerVars
  BY StepAll DEF AllInv, RunnerInv
<1>2. faults = 0 /\ lapses = 0
  BY <1>1, NoFault, NoLapse
<1>3. SoleHolder
  BY <1>2 DEF StepsInv
<1>4. /\ \A a \in Attempts : LiveAttempt(a) /\ Live(attempt[a].task) =>
           \/ \E r \in Runners : LET d == driver[r][attempt[a].task] IN
                                 d.pc \in AtTurn /\ d.attempt = a
           \/ TurnAsked(attempt[a].task)
      /\ \A r \in Runners, t \in Tasks :
           driver[r][t].pc \in AtStep /\ task[t].state = "WAITING" => TurnAsked(t)
  BY <1>2 DEF LeftBehind
<1>5. \A t \in Tasks : TurnAsked(t) => TurnAsked(t)'
  BY <1>1, AskedStays
<1>6. ASSUME NEW a \in Attempts, LiveAttempt(a)', Live(attempt[a].task)'
      PROVE  \/ \E r \in Runners : LET d == driver'[r][attempt'[a].task] IN
                                   d.pc \in AtTurn /\ d.attempt = a
             \/ TurnAsked(attempt[a].task)'
  <2>0. attempt'[a].status # "NONE" /\ attempt'[a].status \notin AttemptTerminal
    BY <1>6 DEF LiveAttempt, AttemptStates, AttemptTerminal
  <2>1. CASE attempt[a].status = "NONE"
    <3>1. \E r \in Runners, t \in Tasks : Open(r, t)
      <4>1. ~NoNewAttempt
        BY <2>0, <2>1 DEF NoNewAttempt
      <4> QED
        BY <1>1, <4>1, NextParts, AroundWaits, InterpretWaits, TurnsWait
    <3>2. PICK r \in Runners, t \in Tasks : Open(r, t)
      BY <3>1
    <3>3. driver'[r][t].pc \in AtTurn /\ driver'[r][t].attempt = a /\ attempt'[a].task = t
      BY <1>1, <2>0, <2>1, <3>2, OpenTakes
    <3> QED
      BY <3>3
  <2>2. CASE attempt[a].status # "NONE"
    <3>1. PICK t \in Tasks : attempt[a].task = t /\ attempt'[a].task = t /\ Exists(t)
      BY <1>1, <2>2, AttemptsGoOn DEF HeldInv, AttemptsHaveTasks
    <3>2. LiveAttempt(a)
      <4>1. attempt[a].status \notin AttemptTerminal
        BY <1>1, <2>0, <2>2, AttemptsGoOn
      <4>2. attempt[a].status \in AttemptStates
        <5>1. attempt[a] \in AttemptRow /\ NoAttemptRow.status = "NONE"
          BY <1>1 DEF TypeOK, NoAttemptRow
        <5> QED
          BY <2>2, <5>1 DEF AttemptRow
      <4> QED
        BY <4>1, <4>2 DEF LiveAttempt
    <3>3. Live(t)
      <4>1. task'[t].state \in TaskStates \ Terminal
        BY <1>6, <3>1 DEF Live
      <4>2. EndingKept(t)
        BY <1>1, <3>1, StepHeld
      <4>3. task[t].state \in TaskStates
        BY <1>1, <3>1 DEF TypeOK, TaskRow, Exists
      <4> QED
        BY <4>1, <4>2, <4>3 DEF EndingKept, Live
    <3>4. CASE TurnAsked(t)
      <4>1. TurnAsked(t)'
        BY <1>5, <3>1, <3>4
      <4> QED
        BY <3>1, <4>1 DEF TurnAsked
    <3>5. ASSUME NEW r \in Runners, driver[r][t].pc \in AtTurn, driver[r][t].attempt = a
          PROVE  TurnAsked(t) \/ (driver'[r][t].pc \in AtTurn /\ driver'[r][t].attempt = a)
      <4>1. \/ driver'[r][t].pc \in AtTurn /\ driver'[r][t].attempt = a
            \/ attempt'[a].status \in AttemptTerminal
            \/ task[t].state = "WAITING"
        BY <1>1, <3>1, <3>3, <3>5, TurnHeld
      <4>2. driver[r][t].pc \in AtStep
        BY <3>5 DEF AtStep
      <4> QED
        BY <1>4, <2>0, <3>1, <4>1, <4>2
    <3>6. TurnAsked(t) \/ \E r \in Runners : driver[r][t].pc \in AtTurn /\ driver[r][t].attempt = a
      BY <1>4, <3>1, <3>2, <3>3
    <3> QED
      BY <3>1, <3>4, <3>5, <3>6
  <2> QED
    BY <2>1, <2>2
<1>7. ASSUME NEW r \in Runners, NEW t \in Tasks, driver'[r][t].pc \in AtStep,
             task'[t].state = "WAITING"
      PROVE  TurnAsked(t)'
  <2>1. CASE task[t].state = "WAITING"
    <3>1. driver[r][t].pc \in AtStep
      BY <1>1, <1>7, EntersStep
    <3> QED
      BY <1>4, <1>5, <2>1, <3>1
  <2>2. CASE task[t].state # "WAITING"
    <3>1. ~NoNewWait
      BY <1>7, <2>2 DEF NoNewWait
    <3>2. ASSUME NEW u \in Tasks, WaitsAtMost(u) PROVE u = t
      BY <1>7, <2>2, <3>2 DEF WaitsAtMost
    <3>3. ASSUME NEW q \in Runners, NEW u \in Tasks, LeavesWaiting(q, u) PROVE FALSE
      <4>1. /\ u = t /\ OnlyRow(q, t) /\ driver[q][t].pc # "off"
            /\ driver'[q][t].pc = "leaving"
        BY <3>2, <3>3 DEF LeavesWaiting
      <4>2. q # r
        BY <1>7, <4>1 DEF AtStep, AtTurn
      <4>3. driver[r][t].pc # "off"
        BY <1>7, <4>1, <4>2 DEF OnlyRow, AtStep, AtTurn
      <4> QED
        BY <1>3, <4>1, <4>2, <4>3, OneDrives
    <3>4. CASE \E q \in Runners, u \in Tasks : Interpret(q, u)
      BY <1>1, <3>1, <3>3, <3>4, InterpretWaits
    <3>5. CASE \E q \in Runners, u \in Tasks : Turns(q, u)
      <4>1. PICK u \in Tasks : WaitsAtMost(u) /\ TurnAsked(u)'
        BY <1>1, <3>1, <3>5, TurnsWait
      <4>2. u = t
        BY <3>2, <4>1
      <4> QED
        BY <4>1, <4>2
    <3>6. CASE Web \/ Aside \/ (\E q \in Runners : Loop(q)) \/ UNCHANGED vars
      BY <1>1, <3>1, <3>6, AroundWaits
    <3> QED
      BY <3>4, <3>5, <3>6, NextParts, Zenon
  <2> QED
    BY <2>1, <2>2
<1> QED
  BY <1>6, <1>7

LEMMA InitLeft == RunnerInit => LeftBehind
<1> SUFFICES ASSUME RunnerInit PROVE LeftBehind
  OBVIOUS
<1>1. /\ \A a \in Attempts : attempt[a].status = "NONE"
      /\ \A r \in Runners, t \in Tasks : driver[r][t].pc = "off"
  BY DEF RunnerInit, Init, Idle, NoAttemptRow
<1> QED
  BY <1>1 DEF LeftBehind, LiveAttempt, AttemptStates, AttemptTerminal, AtStep, AtTurn

LEMMA LeftFollows == AllInv /\ LeftBehind => AttemptHasDriver
<1> SUFFICES ASSUME AllInv, LeftBehind, faults = 0, lapses = 0,
                    NEW t \in Tasks, Live(t), task[t].attempt # NoAttempt
             PROVE  \/ \E r \in Runners : /\ driver[r][t].pc \in AtTurn
                                          /\ driver[r][t].attempt = task[t].attempt
                    \/ \E i \in fromTurn : inter[i].task = t
  BY DEF AttemptHasDriver
<1> DEFINE a == task[t].attempt
<1>1. a \in Attempts
  BY DEF AllInv, TypeOK, TaskRow
<1>2. LiveAttempt(a) /\ attempt[a].task = t
  BY <1>1 DEF AllInv, HeldInv, OneAttemptPerTask
<1> HIDE DEF a
<1>3. \/ \E r \in Runners : driver[r][t].pc \in AtTurn /\ driver[r][t].attempt = a
      \/ TurnAsked(t)
  BY <1>1, <1>2 DEF LeftBehind
<1> QED
  BY <1>3 DEF TurnAsked, a

\* As long as no process has died and no living runner has lost its lease: an open
\* attempt of a live task has the driver that will close it, unless a turn of the
\* task has put a question to a person.
THEOREM NoAttemptIsLeft == RunnerSpec => []AttemptHasDriver
<1> QED
  BY InitAll, StepAll, InitSteps, StepSteps, InitLeft, StepLeft, LeftFollows, PTL DEF RunnerSpec

=============================================================================
