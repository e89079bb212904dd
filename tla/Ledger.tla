------------------------------- MODULE Ledger -------------------------------
(***************************************************************************)
(* The ledger of the workbench (application/workbench/ledger.py): the only *)
(* code that moves an expert task between its states, the attempts made at *)
(* its steps, the interactions that stop it until a person answers, its    *)
(* budget, and the steering wheel of the conversation it was started from. *)
(*                                                                         *)
(* One action is one database transaction.  A transaction locks the rows   *)
(* it decides on, so it is atomic here, with one exception: handover reads *)
(* "is an expert busy in this project" WITHOUT locking that task, and is   *)
(* therefore two steps, HandoverRead and HandoverCommit, between which it  *)
(* holds the rows of its session and its project.                          *)
(*                                                                         *)
(* Next lets every caller of the ledger (routes, workflow interpreter,     *)
(* runner) make any call it contains at any moment; Runner.tla puts the    *)
(* callers' own control around the same actions.                           *)
(***************************************************************************)
EXTENDS Integers, FiniteSets

CONSTANTS
  Tasks,        \* identifiers of the tasks a run may create
  Sessions,     \* conversations
  Projects,
  ProjectOf,    \* [Sessions -> Projects]: a session is attached once, for good
  Attempts,     \* identifiers of the attempts a run may create
  Inters,       \* identifiers of the interactions a run may create
  Limits,       \* budgets a user may set at handover
  Reserves,     \* amounts the steps of a workflow reserve
  Costs,        \* amounts a finished turn may have cost
  TopUps,       \* amounts a user may add to an exhausted budget
  MaxPending,   \* bound: task.drive commands of one task waiting in the queue
  NoTask, NoSession, NoAttempt, NoInter, Unlimited

ASSUME LedgerAssumption ==
  /\ ProjectOf \in [Sessions -> Projects]
  /\ Limits \subseteq (Nat \ {0}) \cup {Unlimited}
  /\ Reserves \subseteq Nat /\ Costs \subseteq Nat /\ TopUps \subseteq Nat \ {0}
  /\ MaxPending \in Nat \ {0}
  /\ NoTask \notin Tasks /\ NoSession \notin Sessions
  /\ NoAttempt \notin Attempts /\ NoInter \notin Inters /\ Unlimited \notin Int

VARIABLES
  task,      \* table workbench_tasks
  attempt,   \* table workbench_attempts
  inter,     \* table workbench_interactions (the rows that belong to a task)
  sess,      \* table workbench_sessions: who holds the wheel, for which task
  handing,   \* the handover transaction open in a project, if any
  pending,   \* table workbench_commands: pending task.drive commands per task
  online     \* status of the environment each project works in

ledgerVars == <<task, attempt, inter, sess, handing, pending, online>>

-----------------------------------------------------------------------------
(* State words and legal transitions (domain/workbench/states.py). "NONE" is
   a row that does not exist. *)

Terminal == {"SUCCEEDED", "REJECTED", "FAILED", "CANCELLED"}
TaskStates == {"RECEIVED", "VALIDATING", "QUEUED", "RUNNING", "WAITING"} \cup Terminal
Reasons == {"INPUT", "APPROVAL", "RESOURCE", "ENVIRONMENT"}

TaskMoves ==
  ({"RECEIVED"} \X {"VALIDATING", "CANCELLED"}) \cup
  ({"VALIDATING"} \X {"QUEUED", "WAITING", "REJECTED", "CANCELLED"}) \cup
  ({"QUEUED"} \X {"RUNNING", "WAITING", "FAILED", "CANCELLED"}) \cup
  ({"RUNNING"} \X {"QUEUED", "WAITING", "SUCCEEDED", "FAILED", "CANCELLED"}) \cup
  ({"WAITING"} \X {"VALIDATING", "QUEUED", "FAILED", "CANCELLED"})

AttemptTerminal == {"COMPLETED", "FAILED", "BUDGET_EXCEEDED", "CANCELLED", "ABANDONED"}
AttemptStates == {"CREATED", "RUNNING", "SUSPENDED"} \cup AttemptTerminal

AttemptMoves ==
  ({"CREATED"} \X {"RUNNING", "CANCELLED", "FAILED"}) \cup
  ({"RUNNING"} \X {"SUSPENDED", "COMPLETED", "FAILED", "BUDGET_EXCEEDED", "CANCELLED"}) \cup
  ({"SUSPENDED"} \X {"RUNNING", "ABANDONED", "CANCELLED"})

CanMove(from, to) == <<from, to>> \in TaskMoves
CanMoveAttempt(from, to) == <<from, to>> \in AttemptMoves

\* "question" stands for the kinds question and input, which the ledger treats alike.
Kinds == {"resource", "tool_approval", "question"}
ReasonOf(kind) ==
  CASE kind = "resource" -> "RESOURCE" [] kind = "tool_approval" -> "APPROVAL" [] OTHER -> "INPUT"

-----------------------------------------------------------------------------
(* Rows. `fresh` stands for the optimistic version: it names the interaction
   whose target_state_version equals the task's current state_version, so it
   is set when an interaction is opened and cleared by every later cas_task. *)

NoRow == [state |-> "NONE", why |-> "", session |-> NoSession, queued |-> FALSE,
          cancel |-> FALSE, attempt |-> NoAttempt, ask |-> NoInter, fresh |-> NoInter,
          limit |-> Unlimited, reserved |-> 0, used |-> 0, ahead |-> {}]

NoAttemptRow == [status |-> "NONE", task |-> NoTask, allocated |-> 0]
NoInterRow == [status |-> "NONE", kind |-> "", task |-> NoTask]
NoHandover == [task |-> NoTask, session |-> NoSession, busy |-> FALSE, limit |-> Unlimited]
UserDrives == [wheel |-> "user", active |-> NoTask]

Exists(t) == task[t].state # "NONE"
Live(t) == task[t].state \in TaskStates \ Terminal
LiveAttempt(a) == attempt[a].status \in AttemptStates \ AttemptTerminal
Project(ts, t) == ProjectOf[ts[t].session]

\* A session row locked by a handover that has not committed yet.
Locked(s) == handing[ProjectOf[s]].session = s

\* Rows of the partial unique index uq_workbench_tasks_project_active.
ActiveIn(ts, p) ==
  {u \in Tasks : /\ ts[u].state \in TaskStates \ Terminal
                 /\ Project(ts, u) = p
                 /\ ~(ts[u].state = "RECEIVED" /\ ts[u].queued)}
\* Mutant: the partial unique index is missing.
UniqueActiveUnchecked(ts, p) == TRUE
UniqueActive(ts, p) == \A u, v \in ActiveIn(ts, p) : u = v

\* Tasks of a project that wait for the one before them, and the oldest one.
QueuedIn(ts, p) ==
  {u \in Tasks : ts[u].state = "RECEIVED" /\ ts[u].queued /\ Project(ts, u) = p}
NextQueued(ts, p) == {u \in QueuedIn(ts, p) : ts[u].ahead \cap QueuedIn(ts, p) = {}}

TaskRow ==
  [state: TaskStates \cup {"NONE"}, why: Reasons \cup {""},
   session: Sessions \cup {NoSession}, queued: BOOLEAN, cancel: BOOLEAN,
   attempt: Attempts \cup {NoAttempt}, ask: Inters \cup {NoInter},
   fresh: Inters \cup {NoInter}, limit: Nat \cup {Unlimited},
   reserved: Nat, used: Nat, ahead: SUBSET Tasks]
AttemptRow == {NoAttemptRow} \cup [status: AttemptStates, task: Tasks, allocated: Nat]
InterStates == {"pending", "lapsed", "consumed", "cancelled", "expired"}
InterRow == {NoInterRow} \cup [status: InterStates, kind: Kinds, task: Tasks]
SessionRow == [wheel: {"user", "advisor"}, active: Tasks \cup {NoTask}]
Handover ==
  [task: Tasks \cup {NoTask}, session: Sessions \cup {NoSession}, busy: BOOLEAN,
   limit: Nat \cup {Unlimited}]

\* Every row has the shape of its table.
TypeOK ==
  /\ task \in [Tasks -> TaskRow]
  /\ attempt \in [Attempts -> AttemptRow]
  /\ inter \in [Inters -> InterRow]
  /\ sess \in [Sessions -> SessionRow]
  /\ handing \in [Projects -> Handover]
  /\ pending \in [Tasks -> Nat]
  /\ online \in [Projects -> BOOLEAN]

Init ==
  /\ task = [t \in Tasks |-> NoRow]
  /\ attempt = [a \in Attempts |-> NoAttemptRow]
  /\ inter = [i \in Inters |-> NoInterRow]
  /\ sess = [s \in Sessions |-> UserDrives]
  /\ handing = [p \in Projects |-> NoHandover]
  /\ pending = [t \in Tasks |-> 0]
  /\ online = [p \in Projects |-> TRUE]

-----------------------------------------------------------------------------
(* Handover: the user gives the wheel of session s to the expert, task t.
   The first step checks the session and reads whether an expert is busy in
   the project; the second inserts the task, queued behind the busy one or
   driving at once.  If the unique index refuses the row the transaction
   rolls back.  The task.drive command is enqueued by the caller, in a
   transaction of its own. *)

HandoverRead(t, s, limit) ==
  LET p == ProjectOf[s] IN
  /\ ~Exists(t) /\ \A q \in Projects : handing[q].task # t
  /\ sess[s] = UserDrives
  /\ online[p]
  /\ handing[p] = NoHandover
  /\ handing' = [handing EXCEPT ![p] =
       [task |-> t, session |-> s, busy |-> ActiveIn(task, p) # {}, limit |-> limit]]
  /\ UNCHANGED <<task, attempt, inter, sess, pending, online>>

NewTask(h) ==
  [NoRow EXCEPT !.state = "RECEIVED", !.session = h.session, !.queued = h.busy,
                !.limit = h.limit,
                !.ahead = {u \in Tasks : Exists(u) /\ Project(task, u) = ProjectOf[h.session]}]

\* Mutant: the wheel is handed over although the task is in line.
HandoverCommitWheelAnyway(p) ==
  LET h == handing[p]
      inserted == [task EXCEPT ![h.task] = NewTask(h)] IN
  /\ h # NoHandover
  /\ handing' = [handing EXCEPT ![p] = NoHandover]
  /\ IF UniqueActive(inserted, p)
     THEN /\ task' = inserted
          /\ sess' = [sess EXCEPT ![h.session] = [wheel |-> "advisor", active |-> h.task]]
     ELSE UNCHANGED <<task, sess>>
  /\ UNCHANGED <<attempt, inter, pending, online>>

HandoverCommit(p) ==
  LET h == handing[p]
      inserted == [task EXCEPT ![h.task] = NewTask(h)] IN
  /\ h # NoHandover
  /\ handing' = [handing EXCEPT ![p] = NoHandover]
  /\ IF UniqueActive(inserted, p)
     THEN /\ task' = inserted
          /\ sess' = IF h.busy THEN sess
                     ELSE [sess EXCEPT ![h.session] = [wheel |-> "advisor", active |-> h.task]]
     ELSE UNCHANGED <<task, sess>>
  /\ UNCHANGED <<attempt, inter, pending, online>>

-----------------------------------------------------------------------------
(* transition(): cas_task on the row, and for a terminal state the wheel goes
   back to the user, pending interactions are cancelled and the next queued
   task of the project starts, all in one transaction. *)

\* cas_task: change columns and bump the version, which no interaction targets then.
Cas(row) == [row EXCEPT !.fresh = NoInter]

MovedTo(row, to, why) == [Cas(row) EXCEPT !.state = to, !.why = why]

Closed(row, outcome) ==
  [MovedTo(row, outcome, "") EXCEPT !.attempt = NoAttempt, !.ask = NoInter]

\* Mutant: a task ends and leaves its questions open.
WithdrawnNone(is, t) == is

\* cancel_pending_interactions: also those whose time has passed.
Withdrawn(is, t) ==
  [i \in Inters |->
     IF is[i].task = t /\ is[i].status \in {"pending", "lapsed"}
     THEN [is[i] EXCEPT !.status = "cancelled"] ELSE is[i]]

\* ts and is are the task and interaction tables as the caller has changed them.
Terminate(ts, is, t, outcome) ==
  LET s == ts[t].session
      closed == [ts EXCEPT ![t] = Closed(ts[t], outcome)]
      home == IF sess[s].active = t THEN [sess EXCEPT ![s] = UserDrives] ELSE sess
      oldest == NextQueued(closed, ProjectOf[s])
      startable == {u \in oldest : home[closed[u].session] = UserDrives}
  IN
  /\ ~Locked(s) /\ \A u \in oldest : ~Locked(closed[u].session)
  /\ inter' = Withdrawn(is, t)
  /\ \/ /\ startable = {}
        /\ task' = closed /\ sess' = home /\ pending' = pending
     \/ \E u \in startable :
          /\ task' = [closed EXCEPT ![u] = [Cas(@) EXCEPT !.queued = FALSE]]
          /\ UniqueActive(task', ProjectOf[s])
          /\ sess' = [home EXCEPT ![closed[u].session] = [wheel |-> "advisor", active |-> u]]
          /\ pending' = [pending EXCEPT ![u] = @ + 1]

Transition(t, to, why) ==
  /\ CanMove(task[t].state, to)
  /\ \/ /\ to \in Terminal
        /\ Terminate(task, inter, t, to)
     \/ /\ to \notin Terminal
        /\ task' = [task EXCEPT ![t] = MovedTo(@, to, why)]
        /\ UNCHANGED <<inter, sess, pending>>
  /\ UNCHANGED <<attempt, handing, online>>

\* A runner has probed the environment of a task that waits for it.
ResumeEnvironment(t) ==
  /\ task[t].state = "WAITING" /\ task[t].why = "ENVIRONMENT"
  /\ ~task[t].cancel /\ task[t].attempt = NoAttempt /\ task[t].ask = NoInter
  /\ sess[task[t].session] = [wheel |-> "advisor", active |-> t]
  /\ online[Project(task, t)]
  /\ pending[t] < MaxPending
  /\ task' = [task EXCEPT ![t] = MovedTo(@, "QUEUED", "")]
  /\ pending' = [pending EXCEPT ![t] = @ + 1]
  /\ UNCHANGED <<attempt, inter, sess, handing, online>>

\* The intent is recorded at once; a task that is not RUNNING ends here.
RequestCancel(t) ==
  LET wished == [task EXCEPT ![t] = [Cas(@) EXCEPT !.cancel = TRUE]] IN
  /\ Live(t)
  /\ \/ /\ task[t].state = "RUNNING"
        /\ task' = wished
        /\ UNCHANGED <<inter, sess, pending>>
     \/ /\ task[t].state # "RUNNING"
        /\ Terminate(wished, inter, t, "CANCELLED")
  /\ UNCHANGED <<attempt, handing, online>>

-----------------------------------------------------------------------------
(* Attempts and budget. *)

Available(row, amount) ==
  row.limit # Unlimited => amount <= row.limit - row.reserved - row.used

\* Mutant: a second attempt is opened beside the current one.
OpenAttemptUnchecked(t, a, reserve) ==
  LET row == [Cas(task[t]) EXCEPT !.attempt = a, !.reserved = task[t].reserved + reserve] IN
  /\ Exists(t) /\ attempt[a].status = "NONE"
  /\ Available(task[t], reserve)
  /\ attempt' = [attempt EXCEPT ![a] = [status |-> "CREATED", task |-> t, allocated |-> reserve]]
  /\ task' = [task EXCEPT ![t] =
       IF task[t].state = "QUEUED" THEN MovedTo(row, "RUNNING", "") ELSE row]
  /\ UNCHANGED <<inter, sess, handing, pending, online>>

\* Mutant: opening an attempt always makes the task RUNNING.
OpenAttemptAlwaysRuns(t, a, reserve) ==
  LET row == [Cas(task[t]) EXCEPT !.attempt = a, !.reserved = task[t].reserved + reserve] IN
  /\ Exists(t) /\ attempt[a].status = "NONE"
  /\ task[t].attempt = NoAttempt
  /\ Available(task[t], reserve)
  /\ attempt' = [attempt EXCEPT ![a] = [status |-> "CREATED", task |-> t, allocated |-> reserve]]
  /\ task' = [task EXCEPT ![t] = MovedTo(row, "RUNNING", "")]
  /\ UNCHANGED <<inter, sess, handing, pending, online>>

\* open_attempt asks for no particular task state; only QUEUED becomes RUNNING.
OpenAttempt(t, a, reserve) ==
  LET row == [Cas(task[t]) EXCEPT !.attempt = a, !.reserved = task[t].reserved + reserve] IN
  /\ Exists(t) /\ attempt[a].status = "NONE"
  /\ task[t].attempt = NoAttempt
  /\ Available(task[t], reserve)
  /\ attempt' = [attempt EXCEPT ![a] = [status |-> "CREATED", task |-> t, allocated |-> reserve]]
  /\ task' = [task EXCEPT ![t] =
       IF task[t].state = "QUEUED" THEN MovedTo(row, "RUNNING", "") ELSE row]
  /\ UNCHANGED <<inter, sess, handing, pending, online>>

Lesser(m, n) == IF m < n THEN m ELSE n
Greater(m, n) == IF m > n THEN m ELSE n

\* What is still reserved once an attempt holding `allocated` has consumed `cost`.
AfterConsume(reserved, allocated, cost) == Greater(0, reserved - Lesser(cost, allocated))

\* Mutant: a finished attempt keeps what it reserved.
AfterReleaseKeeps(reserved, allocated, cost) == reserved

\* Mutant: a finished attempt gives back all it reserved, the part it used too.
AfterReleaseAll(reserved, allocated, cost) == reserved - allocated

\* A finished attempt gives back what it reserved and did not use.
AfterRelease(reserved, allocated, cost) ==
  reserved - Lesser(Greater(0, allocated - cost), reserved)

Charged(row, allocated, to, cost) ==
  LET left == AfterConsume(row.reserved, allocated, cost) IN
  IF to \in AttemptTerminal
  THEN [Cas(row) EXCEPT !.used = @ + cost, !.attempt = NoAttempt,
                        !.reserved = AfterRelease(left, allocated, cost)]
  ELSE [Cas(row) EXCEPT !.used = @ + cost, !.reserved = left]

\* The row while it waits for interaction i, opened in the same transaction.
WaitingFor(row, i, kind) ==
  [row EXCEPT !.state = "WAITING", !.why = ReasonOf(kind), !.ask = i, !.fresh = i]

Asked(t, kind) == [status |-> "pending", kind |-> kind, task |-> t]

\* i is the interaction a hard stop of the budget opens; other outcomes ignore it.
AttemptTransition(a, to, cost, i) ==
  LET t == attempt[a].task
      charged == Charged(task[t], attempt[a].allocated, to, cost)
  IN
  /\ CanMoveAttempt(attempt[a].status, to)
  /\ attempt' = [attempt EXCEPT ![a].status = to]
  /\ IF to = "BUDGET_EXCEEDED"
     THEN /\ CanMove(task[t].state, "WAITING")
          /\ inter[i].status = "NONE"
          /\ inter' = [inter EXCEPT ![i] = Asked(t, "resource")]
          /\ task' = [task EXCEPT ![t] = WaitingFor(charged, i, "resource")]
     ELSE /\ task' = [task EXCEPT ![t] = charged]
          /\ UNCHANGED inter
  /\ UNCHANGED <<sess, handing, pending, online>>

-----------------------------------------------------------------------------
(* Interactions. *)

OpenInteraction(t, i, kind) ==
  /\ CanMove(task[t].state, "WAITING")
  /\ inter[i].status = "NONE"
  /\ inter' = [inter EXCEPT ![i] = Asked(t, kind)]
  /\ task' = [task EXCEPT ![t] = WaitingFor(@, i, kind)]
  /\ UNCHANGED <<attempt, sess, handing, pending, online>>

\* Mutant: the deadline of an interaction is not looked at.
AnswerableForever(i) ==
  LET t == inter[i].task IN
  inter[i].status \in {"pending", "lapsed"} /\ task[t].ask = i /\ task[t].fresh = i

\* consume_interaction and the two checks that roll it back when they fail.
Answerable(i) ==
  LET t == inter[i].task IN
  inter[i].status = "pending" /\ task[t].ask = i /\ task[t].fresh = i

Consumed(i) == [inter EXCEPT ![i].status = "consumed"]
Answered(row) == [Cas(row) EXCEPT !.ask = NoInter]

ToppedUp(row, amount) ==
  [row EXCEPT !.limit = IF @ = Unlimited THEN amount ELSE @ + amount]

\* decision: "topup" and "decline" answer a resource interaction, "stop" and
\* "go" (anything else a person may answer) the others.
Respond(i, decision, amount) ==
  LET t == inter[i].task
      row == IF decision = "topup" THEN ToppedUp(task[t], amount) ELSE task[t]
      answered == [task EXCEPT ![t] = Answered(row)]
  IN
  /\ Answerable(i)
  /\ (inter[i].kind = "resource") <=> (decision \in {"topup", "decline"})
  /\ \/ /\ decision \in {"decline", "stop"}
        /\ CanMove(task[t].state, "FAILED")
        /\ Terminate(answered, Consumed(i), t, "FAILED")
     \/ /\ decision \in {"topup", "go"}
        /\ CanMove(task[t].state, "QUEUED")
        /\ task' = [answered EXCEPT ![t] = MovedTo(@, "QUEUED", "")]
        /\ inter' = Consumed(i)
        /\ UNCHANGED <<sess, pending>>
  /\ UNCHANGED <<attempt, handing, online>>

\* expires_at passes: the row still says pending but can no longer be consumed.
Lapse(i) ==
  /\ inter[i].status = "pending"
  /\ inter' = [inter EXCEPT ![i].status = "lapsed"]
  /\ UNCHANGED <<task, attempt, sess, handing, pending, online>>

\* A runner that takes over the sandbox expires the tool approvals it finds and
\* enqueues a drive for the tasks nobody drives (set `idle`).
TakeOver(idle) ==
  /\ inter' = [i \in Inters |->
       IF inter[i].kind = "tool_approval" /\ inter[i].status \in {"pending", "lapsed"}
       THEN [inter[i] EXCEPT !.status = "expired"] ELSE inter[i]]
  /\ pending' = [t \in Tasks |-> IF t \in idle THEN pending[t] + 1 ELSE pending[t]]
  /\ UNCHANGED <<task, attempt, sess, handing, online>>

-----------------------------------------------------------------------------
(* Around the ledger: the machine of a project reports in or goes away, task.drive
   commands enter and leave the queue, and the interpreter changes columns of a
   task that are not modelled (its cursor, its versions). *)

SetOnline(p) ==
  /\ online' = [online EXCEPT ![p] = ~@]
  /\ UNCHANGED <<task, attempt, inter, sess, handing, pending>>

TakeDrive(t) ==
  /\ pending[t] > 0
  /\ pending' = [pending EXCEPT ![t] = @ - 1]
  /\ UNCHANGED <<task, attempt, inter, sess, handing, online>>

EnqueueDrive(t) ==
  /\ Exists(t) /\ ~task[t].queued /\ pending[t] < MaxPending
  /\ pending' = [pending EXCEPT ![t] = @ + 1]
  /\ UNCHANGED <<task, attempt, inter, sess, handing, online>>

Touch(t) ==
  /\ Exists(t)
  /\ task' = [task EXCEPT ![t] = Cas(@)]
  /\ UNCHANGED <<attempt, inter, sess, handing, pending, online>>

-----------------------------------------------------------------------------
(* Who calls what.  The moves of the workflow interpreter (advisor.py); it
   drives only a task whose task.drive was enqueued, so never a queued one,
   and closes a task as CANCELLED only on the user's intent. *)

DriverMoves ==
  {<<"RECEIVED", "VALIDATING">>, <<"VALIDATING", "QUEUED">>, <<"VALIDATING", "REJECTED">>,
   <<"QUEUED", "RUNNING">>, <<"QUEUED", "FAILED">>, <<"QUEUED", "CANCELLED">>,
   <<"RUNNING", "QUEUED">>, <<"RUNNING", "SUCCEEDED">>, <<"RUNNING", "FAILED">>,
   <<"RUNNING", "CANCELLED">>, <<"WAITING", "FAILED">>, <<"WAITING", "CANCELLED">>}

DriverMove(t, to) ==
  /\ <<task[t].state, to>> \in DriverMoves
  /\ ~task[t].queued
  /\ to = "CANCELLED" => task[t].cancel
  /\ Transition(t, to, "")

EnvironmentLost(t) ==
  /\ task[t].state \in {"QUEUED", "RUNNING"}
  /\ Transition(t, "WAITING", "ENVIRONMENT")

\* The driver opens an attempt for a task it has read as QUEUED or RUNNING; the
\* read takes no lock, so a cancellation or another driver may have moved it on.
DriverOpensAttempt(t, a, reserve) ==
  /\ task[t].state \notin {"RECEIVED", "VALIDATING", "REJECTED"}
  /\ OpenAttempt(t, a, reserve)

\* Tasks that a take-over finds at work or ready for it.
Drivable == {t \in Tasks : task[t].state \in {"QUEUED", "RUNNING"} /\ pending[t] < MaxPending}

\* A started attempt costs nothing yet; an attempt is over budget only when the
\* task has a limit, which may have been raised since the driver compared the cost
\* of the turn with what was left of it.
AttemptMove(a, to, cost, i) ==
  /\ LiveAttempt(a)
  /\ to \in {"RUNNING", "COMPLETED", "FAILED", "BUDGET_EXCEEDED", "CANCELLED"}
  /\ attempt[a].status = "CREATED" => (to \in {"RUNNING", "CANCELLED"} /\ cost = 0)
  /\ to = "BUDGET_EXCEEDED" => task[attempt[a].task].limit # Unlimited
  /\ (to = "BUDGET_EXCEEDED") <=> (i # NoInter)
  /\ AttemptTransition(a, to, cost, i)

\* The driver asks, or a turn for whoever holds the wheel of its conversation now,
\* be it a later task that is still being validated.
DriverOrTurnAsks(t, i, kind) ==
  /\ kind = "resource" => task[t].limit # Unlimited
  /\ OpenInteraction(t, i, kind)

Next ==
  \/ \E t \in Tasks, s \in Sessions, limit \in Limits : HandoverRead(t, s, limit)
  \/ \E p \in Projects : HandoverCommit(p) \/ SetOnline(p)
  \/ \E t \in Tasks, to \in TaskStates : DriverMove(t, to)
  \/ \E t \in Tasks : EnvironmentLost(t) \/ ResumeEnvironment(t)
  \/ \E t \in Tasks : RequestCancel(t) \/ TakeDrive(t) \/ EnqueueDrive(t) \/ Touch(t)
  \/ \E t \in Tasks, a \in Attempts, r \in Reserves : DriverOpensAttempt(t, a, r)
  \/ \E a \in Attempts, to \in AttemptStates, c \in Costs \cup {0}, i \in Inters \cup {NoInter} :
       AttemptMove(a, to, c, i)
  \/ \E t \in Tasks, i \in Inters, kind \in Kinds : DriverOrTurnAsks(t, i, kind)
  \/ \E i \in Inters, d \in {"decline", "stop", "go"} : Respond(i, d, 0)
  \/ \E i \in Inters, amount \in TopUps : Respond(i, "topup", amount)
  \/ \E i \in Inters : Lapse(i)
  \/ \E idle \in SUBSET Drivable : TakeOver(idle)

Spec == Init /\ [][Next]_ledgerVars

-----------------------------------------------------------------------------
(* Properties. *)

\* The wheel and the task agree: a session that is being driven names a live,
\* started task of its own, and every live task that is not queued holds the
\* wheel of its session (I12: handover, dequeue and every ending keep them in
\* step across two tables).
WheelMatchesTask ==
  /\ \A s \in Sessions :
       \/ sess[s] = UserDrives
       \/ /\ sess[s].wheel = "advisor" /\ sess[s].active \in Tasks
          /\ LET t == sess[s].active IN
             Live(t) /\ ~task[t].queued /\ task[t].session = s
  /\ \A t \in Tasks : Live(t) /\ ~task[t].queued =>
       sess[task[t].session].active = t

\* At most one expert drives in a project, whoever starts it: a handover, or
\* the ending of another task that starts the next one in the queue.
OneExpertPerProject ==
  \A t, u \in Tasks :
    /\ Live(t) /\ ~task[t].queued /\ Live(u) /\ ~task[u].queued
    /\ Project(task, t) = Project(task, u)
    => t = u

\* A pending interaction is the one its task is waiting for, so answering it is
\* never an answer to a wait that is over; and a task waits on at most one.
PendingIsCurrentWait ==
  \A i \in Inters : inter[i].status \in {"pending", "lapsed"} =>
    LET t == inter[i].task IN task[t].state = "WAITING" /\ task[t].ask = i

\* A task that waits for a person has an interaction of its own to answer, which
\* nobody has answered or withdrawn; a wait for the machine has none.
WaitHasItsQuestion ==
  \A t \in Tasks : task[t].state = "WAITING" =>
    IF task[t].why = "ENVIRONMENT" THEN task[t].ask = NoInter
    ELSE /\ task[t].ask \in Inters
         /\ inter[task[t].ask].task = t
         /\ inter[task[t].ask].status \in {"pending", "lapsed", "expired"}

\* A live task has at most the one attempt it names, so no step of it runs twice
\* at the same time, and it never names an attempt that is over.
OneAttemptPerTask ==
  \A t \in Tasks : Live(t) =>
    \A a \in Attempts : (LiveAttempt(a) /\ attempt[a].task = t) <=> (task[t].attempt = a)

\* What a live task has reserved is what its running attempt holds: nothing
\* leaks and nothing is released twice, whatever the turns cost.
ReservedIsHeld ==
  \A t \in Tasks : Live(t) =>
    task[t].reserved = IF task[t].attempt = NoAttempt THEN 0
                       ELSE attempt[task[t].attempt].allocated

\* A task that has ended stays as it ended, whatever late call reaches it.
EndedForGood ==
  [][\A t \in Tasks : task[t].state \in Terminal =>
       task'[t].state = task[t].state /\ task'[t].why = ""]_ledgerVars

\* An answer, once given or withdrawn, is never changed, and an interaction
\* that was left to lapse can no longer be answered.
AnsweredOnce ==
  [][\A i \in Inters :
       /\ inter[i].status \in {"consumed", "cancelled", "expired"} => inter'[i] = inter[i]
       /\ inter[i].status = "lapsed" => inter'[i].status # "consumed"]_ledgerVars

-----------------------------------------------------------------------------
(* The inductive strengthening of WheelMatchesTask and OneExpertPerProject. *)

\* A task in line has not been touched, and every row belongs to a session.
RowsInLine ==
  \A t \in Tasks : Exists(t) =>
    /\ task[t].session \in Sessions
    /\ Live(t) /\ task[t].queued => task[t].state = "RECEIVED"

\* An open handover holds an idle session of its project and a new task of its
\* own: the row locks it keeps between its read and its commit.
HandoverHoldsRows ==
  \A p \in Projects : handing[p] # NoHandover =>
    LET h == handing[p] IN
    /\ h.task \in Tasks /\ ~Exists(h.task)
    /\ h.session \in Sessions /\ ProjectOf[h.session] = p
    /\ sess[h.session] = UserDrives
    /\ \A q \in Projects \ {p} : handing[q].task # h.task

\* All of it holds together: no action can break one part without another.
WheelInv ==
  /\ WheelMatchesTask
  /\ RowsInLine
  /\ HandoverHoldsRows
  /\ \A p \in Projects : UniqueActive(task, p)

-----------------------------------------------------------------------------
(* What the code says of itself and does not keep. *)

\* "When the expert in front ends, the next one in line starts"
\* (_start_next_queued): a task is left in line only behind an expert at work.
QueueHasAHead ==
  \A p \in Projects :
    handing[p] = NoHandover /\ QueuedIn(task, p) # {} => ActiveIn(task, p) # {}

\* "The intent to cancel is persisted first" (request_cancel): the transaction
\* that records it commits for every task that has not ended (once no handover
\* holds a lock it has to wait for).
CancelIsRecorded ==
  (\A p \in Projects : handing[p] = NoHandover) =>
    \A t \in Tasks : Live(t) => ENABLED RequestCancel(t)
=============================================================================
