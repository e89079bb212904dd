------------------------------- MODULE Runner -------------------------------
(***************************************************************************)
(* The runner and what stands around it: the web process that enqueues     *)
(* commands after it has changed the ledger, the lease on the sandbox, the *)
(* workflow interpreter (advisor.py) that drives each task in a coroutine  *)
(* of the runner, and the turns of the app-server with the requests they   *)
(* put to a person.  The tables and their transactions are Ledger's; every *)
(* step here is a step of Ledger or leaves its tables alone.               *)
(*                                                                         *)
(* All sessions of a run live in one sandbox, as those of one user do.  A  *)
(* driver is a program counter over the awaits of Advisor._step_once: what *)
(* it has read it may act on later.  An exception ends a driver (_drive    *)
(* logs it), which is pc = "off".                                          *)
(*                                                                         *)
(* Abstracted: a command is handled when it is claimed (a claim that is    *)
(* lost with its runner is pending again after 300 s); the thread of a     *)
(* session exists; what a turn answers is one of a few outcomes.           *)
(***************************************************************************)
EXTENDS Ledger

CONSTANTS
  Runners,
  NoRunner,
  Steps,       \* length of the workflow
  TurnKinds,   \* what a turn may ask of a person
  MaxFaults,   \* bound: crashes of processes, commands that fail, turns that are refused
  MaxLapses    \* bound: times a living runner lets its lease expire

ASSUME RunnerAssumption ==
  /\ NoRunner \notin Runners /\ Steps \in Nat \ {0}
  /\ TurnKinds \subseteq {"tool_approval", "question"}
  /\ MaxFaults \in Nat /\ MaxLapses \in Nat

VARIABLES
  lease,     \* table workbench_sandbox_leases: the row of the sandbox
  held,      \* Runner.leased: the runners that believe they hold the sandbox
  claiming,  \* runners whose last iteration left them with the lease
  driver,    \* Runner.driving: each runner's interpreter of each task
  cursor,    \* column current_step
  stepOf,    \* column step_id of the attempts
  turning,   \* tasks with a turn in flight at the app-server
  opening,   \* questions of a turn no future waits on yet: <<runner, interaction>>
  asks,      \* SandboxLink.pending_approvals: <<runner, interaction>>
  unheard,   \* questions whose link was dropped before their future was made
  fromTurn,  \* interactions that carry the request_id of a turn's question
  first,     \* <<interaction, step>>: asked before the step (subject.ask_before)
  halted,    \* SandboxLink.user_stops: <<runner, session>>
  own,       \* tasks whose turn in flight was stopped by a person
  owed,      \* commands the web process still has to enqueue
  queue,     \* turn.interrupt and approval.respond commands in the table
  lost,      \* ghost: commands that died with the process about to enqueue or to
             \* begin them, or that failed before they did anything
  faults, lapses

leases == <<lease, held, claiming>>
futures == <<opening, asks, unheard>>
runnerVars == <<leases, driver, cursor, stepOf, turning, futures, fromTurn, first,
                halted, own, owed, queue, lost, faults, lapses>>
vars == <<ledgerVars, runnerVars>>

Idle == [pc |-> "off", attempt |-> NoAttempt, step |-> 0, outcome |-> "", cost |-> 0]
Outcomes == {"done", "error", "lost", "timeout", "stopped", "cancel", "over", "ok", "bad"}
Drive(t) == [kind |-> "task.drive", task |-> t]
Interrupt(t) == [kind |-> "turn.interrupt", task |-> t]
Answer(i, halt) == [kind |-> "approval.respond", inter |-> i, halt |-> halt]

RunnerInit ==
  /\ Init
  /\ lease = [holder |-> NoRunner, live |-> FALSE] /\ held = {} /\ claiming = {}
  /\ driver = [r \in Runners |-> [t \in Tasks |-> Idle]]
  /\ cursor = [t \in Tasks |-> 0] /\ stepOf = [a \in Attempts |-> 0]
  /\ turning = {} /\ opening = {} /\ asks = {} /\ unheard = {} /\ fromTurn = {} /\ first = {}
  /\ halted = {} /\ own = {} /\ owed = {} /\ queue = {} /\ lost = {}
  /\ faults = 0 /\ lapses = 0

-----------------------------------------------------------------------------
(* Bounds: a person, a machine or a model that asks for one more round does so
   only while identifiers for that round are left. *)

FreeAttempts == {a \in Attempts : attempt[a].status = "NONE"}
FreeInters == {i \in Inters : inter[i].status = "NONE"}
CanGoOn == FreeAttempts # {} /\ FreeInters # {}
CanAsk == FreeAttempts # {} /\ Cardinality(FreeInters) > 1

-----------------------------------------------------------------------------
(* The web process: a transaction on the ledger, and then another one that
   enqueues the commands it owes. *)

webOnly == <<leases, driver, cursor, stepOf, turning, futures, fromTurn, first,
             halted, own, queue, lost, faults, lapses>>

AskForHandover(t, s, limit) ==
  HandoverRead(t, s, limit) /\ UNCHANGED runnerVars

\* Mutant: the command of a task that drives at once is left to somebody else.
FinishHandoverQuietly(p) ==
  /\ HandoverCommit(p)
  /\ UNCHANGED <<owed, webOnly>>

FinishHandover(p) ==
  /\ HandoverCommit(p)
  /\ owed' = IF task' # task /\ ~handing[p].busy
             THEN owed \cup {Drive(handing[p].task)} ELSE owed
  /\ UNCHANGED webOnly

\* cancel_task: an interrupt follows unless the ledger says there is none to send.
CancelTask(t) ==
  /\ RequestCancel(t)
  /\ owed' = IF task[t].state \in {"RUNNING", "WAITING"}
             THEN owed \cup {Interrupt(t)} ELSE owed
  /\ UNCHANGED webOnly

\* Mutant: the turn is told only if the task goes on.
AnswerTellsTaskOnly(i, decision, amount, halt) ==
  LET t == inter[i].task IN
  /\ CanGoOn \/ decision \in {"stop", "decline"}
  /\ decision = "stop" => i \notin fromTurn
  /\ halt => i \in fromTurn /\ inter[i].kind = "tool_approval"
  /\ Respond(i, decision, amount)
  /\ owed' = owed \cup (IF task'[t].state = "QUEUED" THEN {Drive(t)} ELSE {})
  /\ UNCHANGED webOnly

\* answer_interaction: the task is driven on, and the turn that asked is told.
AnswerInteraction(i, decision, amount, halt) ==
  LET t == inter[i].task IN
  /\ CanGoOn \/ decision \in {"stop", "decline"}
  /\ decision = "stop" => i \notin fromTurn
  /\ halt => i \in fromTurn /\ inter[i].kind = "tool_approval"
  /\ Respond(i, decision, amount)
  /\ owed' = owed \cup (IF task'[t].state = "QUEUED" THEN {Drive(t)} ELSE {})
                  \cup (IF i \in fromTurn THEN {Answer(i, halt)} ELSE {})
  /\ UNCHANGED webOnly

Post(c) ==
  /\ c \in owed
  /\ owed' = owed \ {c}
  /\ \/ c.kind = "task.drive" /\ EnqueueDrive(c.task) /\ UNCHANGED queue
     \/ c.kind # "task.drive" /\ queue' = queue \cup {c} /\ UNCHANGED ledgerVars
  /\ UNCHANGED <<leases, driver, cursor, stepOf, turning, futures, fromTurn, first,
                 halted, own, lost, faults, lapses>>

WebDies ==
  /\ owed # {} /\ faults < MaxFaults
  /\ owed' = {} /\ lost' = lost \cup owed /\ faults' = faults + 1
  /\ UNCHANGED <<ledgerVars, leases, driver, cursor, stepOf, turning, futures,
                 fromTurn, first, halted, own, queue, lapses>>

-----------------------------------------------------------------------------
(* The lease and the loop of the runner. *)

HoldsRow(r) == lease = [holder |-> r, live |-> TRUE]
\* Commands are claimed by a loop that has just renewed or acquired the lease, also
\* one of its own that had expired (which it does not note as leased).
Claims(r) == HoldsRow(r) /\ r \in claiming
Driving(r) == {t \in Tasks : driver[r][t].pc # "off"}
AsksOf(r) == {x \in asks : x[1] = r}
OpeningOf(r) == {x \in opening : x[1] = r}

\* _take_over: tasks at work that this runner does not drive yet.
Unmanned(r) ==
  {t \in Tasks : task[t].state \in {"QUEUED", "RUNNING"} /\ pending[t] < MaxPending} \ Driving(r)

\* _drop_link: what the link waited for is declined; its turns are heard no more,
\* nor is the answer to a question that is not waited for yet.
Deafened(r) ==
  [driver EXCEPT ![r] = [t \in Tasks |->
     IF driver[r][t].pc = "wait" THEN [driver[r][t] EXCEPT !.pc = "deaf"] ELSE driver[r][t]]]

\* run_once up to its claims: renew, acquire (only a sandbox with pending
\* commands), take over what is freshly held, drop what is lost.
RunOnce(r) ==
  LET wanted == queue # {} \/ \E t \in Tasks : pending[t] > 0
      kept == HoldsRow(r)
      taken == wanted /\ (lease.holder \in {r, NoRunner} \/ ~lease.live)
      fresh == taken /\ lease.holder # r
      dropped == r \in held /\ ~kept /\ ~fresh
  IN
  /\ lease' = IF kept \/ taken THEN [holder |-> r, live |-> TRUE] ELSE lease
  /\ held' = IF kept \/ fresh THEN held \cup {r} ELSE held \ {r}
  /\ claiming' = IF kept \/ taken THEN claiming \cup {r} ELSE claiming \ {r}
  /\ IF fresh THEN TakeOver(Unmanned(r)) ELSE UNCHANGED ledgerVars
  /\ driver' = IF dropped THEN Deafened(r) ELSE driver
  /\ asks' = IF dropped THEN asks \ AsksOf(r) ELSE asks
  /\ opening' = IF dropped THEN opening \ OpeningOf(r) ELSE opening
  /\ unheard' = IF dropped THEN unheard \cup OpeningOf(r) ELSE unheard
  /\ UNCHANGED <<cursor, stepOf, turning, fromTurn, first, halted, own, owed, queue,
                 lost, faults, lapses>>

LeaseLapses ==
  /\ lease.live
  /\ lease' = [lease EXCEPT !.live = FALSE]
  /\ IF lease.holder \in claiming THEN lapses < MaxLapses /\ lapses' = lapses + 1
                              ELSE lapses' = lapses
  /\ UNCHANGED <<ledgerVars, held, claiming, driver, cursor, stepOf, turning, futures, fromTurn,
                 first, halted, own, owed, queue, lost, faults>>

\* A runner loses its memory, with it the commands it has taken and not begun to
\* obey; its rows, its lease and its turns stay.
Crash(r) ==
  /\ faults < MaxFaults /\ faults' = faults + 1
  /\ r \in held \cup claiming \/ Driving(r) # {}
  /\ held' = held \ {r} /\ claiming' = claiming \ {r}
  /\ driver' = [driver EXCEPT ![r] = [t \in Tasks |-> Idle]]
  /\ asks' = asks \ AsksOf(r) /\ opening' = opening \ OpeningOf(r)
  /\ unheard' = {x \in unheard : x[1] # r}
  /\ halted' = {x \in halted : x[1] # r}
  /\ lost' = lost \cup {Drive(t) : t \in {u \in Tasks : driver[r][u].pc = "begin"}}
  /\ UNCHANGED <<ledgerVars, lease, cursor, stepOf, turning, fromTurn, first, own, owed,
                 queue, lapses>>

-----------------------------------------------------------------------------
(* Commands. *)

\* task.drive: ignored while the task has a driver, the one about to leave too.
HandleDrive(r, t) ==
  /\ Claims(r)
  /\ TakeDrive(t)
  /\ driver' = IF driver[r][t].pc = "off"
               THEN [driver EXCEPT ![r][t] = [Idle EXCEPT !.pc = "begin"]] ELSE driver
  /\ UNCHANGED <<leases, cursor, stepOf, turning, futures, fromTurn, first, halted, own,
                 owed, queue, lost, faults, lapses>>

\* The database, the connection or the start of a thread fails before a command
\* has done anything (link_for, ensure_connected, _thread_for_task): it is marked
\* failed, and nobody enqueues it again.
CommandFails(r, c) ==
  /\ Claims(r) /\ faults < MaxFaults /\ faults' = faults + 1
  /\ \/ \E t \in Tasks : c = Drive(t) /\ TakeDrive(t) /\ UNCHANGED queue
     \/ c \in queue /\ queue' = queue \ {c} /\ UNCHANGED ledgerVars
  /\ lost' = lost \cup {c}
  /\ UNCHANGED <<leases, driver, cursor, stepOf, turning, futures, fromTurn, first,
                 halted, own, owed, lapses>>

SessionOf(i) == task[inter[i].task].session
TurnsOn(s) == {t \in turning : task[t].session = s}

\* A request stops the turn of its thread (user_stops; `own` if it still runs).
Halt(r, s) ==
  /\ halted' = halted \cup {<<r, s>>}
  /\ own' = own \cup TurnsOn(s)

\* approval.respond: fails when nobody waits for it any more, or yet.
HandleAnswer(r, c) ==
  /\ Claims(r) /\ c \in queue /\ c.kind = "approval.respond"
  /\ queue' = queue \ {c}
  /\ asks' = asks \ {<<r, c.inter>>}
  /\ IF c.halt /\ <<r, c.inter>> \in asks THEN Halt(r, SessionOf(c.inter)) ELSE UNCHANGED <<halted, own>>
  /\ UNCHANGED <<ledgerVars, leases, driver, cursor, stepOf, turning, opening, unheard,
                 fromTurn, first, owed, lost, faults, lapses>>

\* turn.interrupt of a cancelled task: release_waits on its thread, then stop
\* the turn in flight, if there is one yet.
HandleInterrupt(r, c) ==
  LET s == task[c.task].session
      released == {x \in AsksOf(r) : SessionOf(x[2]) = s}
  IN
  /\ Claims(r) /\ c \in queue /\ c.kind = "turn.interrupt"
  /\ queue' = queue \ {c}
  /\ asks' = asks \ released
  /\ halted' = IF released # {} THEN halted \cup {<<r, s>>} ELSE halted
  /\ own' = own \cup TurnsOn(s)
  /\ UNCHANGED <<ledgerVars, leases, driver, cursor, stepOf, turning, opening, unheard,
                 fromTurn, first, owed, lost, faults, lapses>>

-----------------------------------------------------------------------------
(* The interpreter. *)

At(r, t, pc) == driver[r][t].pc = pc
Goto(r, t, pc) == driver' = [driver EXCEPT ![r][t].pc = pc]
\* The coroutine has nothing left to do; _drive removes it in its next step.
Leave(r, t) == driver' = [driver EXCEPT ![r][t] = [Idle EXCEPT !.pc = "leaving"]]

driverOnly == <<leases, turning, futures, halted, own, owed, queue, lost, lapses>>
rowsOnly == <<cursor, stepOf, fromTurn, first, faults>>

\* _drive: finally, self.driving.pop.
Left(r, t) ==
  /\ At(r, t, "leaving") /\ Goto(r, t, "off")
  /\ UNCHANGED <<ledgerVars, driverOnly, rowsOnly>>

Begin(r, t) ==
  /\ At(r, t, "begin") /\ Goto(r, t, "validate")
  /\ IF task[t].state = "RECEIVED" THEN Transition(t, "VALIDATING", "") ELSE UNCHANGED ledgerVars
  /\ UNCHANGED <<driverOnly, rowsOnly>>

Validate(r, t) ==
  /\ At(r, t, "validate")
  /\ \/ task[t].state # "VALIDATING" /\ Goto(r, t, "step") /\ UNCHANGED ledgerVars
     \/ task[t].state = "VALIDATING" /\ Goto(r, t, "step") /\ Transition(t, "QUEUED", "")
     \/ task[t].state = "VALIDATING" /\ Leave(r, t) /\ Transition(t, "REJECTED", "")
  /\ UNCHANGED <<driverOnly, rowsOnly>>

\* Mutant: the driver closes a task as cancelled without looking at the intent.
StepCancelsAnyway(r, t) ==
  /\ At(r, t, "step")
  /\ \/ task[t].state \notin {"QUEUED", "RUNNING"} /\ Leave(r, t) /\ UNCHANGED ledgerVars
     \/ task[t].state \in {"QUEUED", "RUNNING"} /\ Leave(r, t) /\ Transition(t, "CANCELLED", "")
  /\ UNCHANGED <<driverOnly, rowsOnly>>

\* The read at the top of _step_once and what it decides at once.
Step(r, t) ==
  LET ready == task[t].state \in {"QUEUED", "RUNNING"} IN
  /\ At(r, t, "step")
  /\ \/ ~ready /\ Leave(r, t) /\ UNCHANGED ledgerVars
     \/ ready /\ task[t].cancel /\ Leave(r, t) /\ Transition(t, "CANCELLED", "")
     \/ ready /\ ~task[t].cancel /\ cursor[t] >= Steps /\ Goto(r, t, "finish")
        /\ UNCHANGED ledgerVars
     \/ ready /\ ~task[t].cancel /\ cursor[t] < Steps /\ UNCHANGED ledgerVars
        /\ driver' = [driver EXCEPT ![r][t] = [Idle EXCEPT !.pc = "open", !.step = cursor[t]]]
     \/ ready /\ ~task[t].cancel /\ cursor[t] < Steps   \* an input artifact is missing
        /\ Leave(r, t) /\ Transition(t, "FAILED", "")
  /\ UNCHANGED <<driverOnly, rowsOnly>>

\* A transaction the ledger refuses ends the driver.
Try(r, t, possible, action, pc) ==
  IF possible THEN action /\ IF pc = "leaving" THEN Leave(r, t) ELSE Goto(r, t, pc)
              ELSE Leave(r, t) /\ UNCHANGED ledgerVars

\* A question of the interpreter, after which it leaves.
AskAndLeave(r, t, kind) ==
  \/ \E i \in Inters : OpenInteraction(t, i, kind) /\ Leave(r, t)
  \/ ~CanMove(task[t].state, "WAITING") /\ Leave(r, t) /\ UNCHANGED ledgerVars

\* open_attempt; the step may have to put its questions first, once.
Open(r, t) ==
  LET d == driver[r][t]
      answered == \E x \in first : /\ x[2] = d.step /\ inter[x[1]].task = t
                                   /\ inter[x[1]].status = "consumed"
  IN
  /\ At(r, t, "open")
  /\ \/ task[t].attempt # NoAttempt /\ Leave(r, t) /\ UNCHANGED <<ledgerVars, stepOf>>
     \/ /\ task[t].attempt = NoAttempt
        /\ \E reserve \in Reserves : ~Available(task[t], reserve)
        /\ Goto(r, t, "broke") /\ UNCHANGED <<ledgerVars, stepOf>>
     \/ \E a \in Attempts, reserve \in Reserves, pc \in {"turn", "askfirst"} :
          /\ OpenAttempt(t, a, reserve)
          /\ pc = "askfirst" => ~answered /\ CanAsk /\ Cardinality(FreeAttempts) > 1
          /\ driver' = [driver EXCEPT ![r][t].pc = pc, ![r][t].attempt = a]
          /\ stepOf' = [stepOf EXCEPT ![a] = d.step]
  /\ UNCHANGED <<driverOnly, cursor, fromTurn, first, faults>>

\* _hard_stop.
Broke(r, t) ==
  /\ At(r, t, "broke") /\ AskAndLeave(r, t, "resource")
  /\ UNCHANGED <<driverOnly, rowsOnly>>

\* Mutant: the questions of ask_before are put while the attempt is open.
AskFirstKeepsAttempt(r, t) ==
  /\ At(r, t, "askfirst") /\ Goto(r, t, "asking")
  /\ UNCHANGED <<ledgerVars, driverOnly, rowsOnly>>

\* ask_before: the attempt is closed unused, then the questions are put.
AskFirst(r, t) ==
  /\ At(r, t, "askfirst") /\ Goto(r, t, "asking")
  /\ AttemptTransition(driver[r][t].attempt, "CANCELLED", 0, NoInter)
  /\ UNCHANGED <<driverOnly, rowsOnly>>

Asking(r, t) ==
  /\ At(r, t, "asking") /\ Leave(r, t)
  /\ \/ \E i \in Inters : /\ OpenInteraction(t, i, "question")
                         /\ first' = first \cup {<<i, driver[r][t].step>>}
     \/ ~CanMove(task[t].state, "WAITING") /\ UNCHANGED <<ledgerVars, first>>
  /\ UNCHANGED <<driverOnly, cursor, stepOf, fromTurn, faults>>

\* run_turn: turn/start is accepted, or it raises and the driver ends with it.
Start(r, t) ==
  /\ At(r, t, "turn")
  /\ turning' = turning \cup {t} /\ own' = own \ {t}
  /\ Goto(r, t, "wait")
  /\ UNCHANGED <<ledgerVars, leases, futures, halted, owed, queue, lost, lapses,
                 rowsOnly>>

StartRefused(r, t) ==
  /\ At(r, t, "turn") /\ Leave(r, t)
  /\ faults < MaxFaults /\ faults' = faults + 1
  /\ UNCHANGED <<ledgerVars, driverOnly, cursor, stepOf, fromTurn, first>>

\* The turn returns; a stop noted for its thread since the last turn is taken up.
Returns(r, t, outcome, cost) ==
  LET s == task[t].session
      stop == <<r, s>> \in halted
  IN
  /\ driver' = [driver EXCEPT ![r][t].pc = "turned", ![r][t].cost = cost,
                              ![r][t].outcome = IF stop THEN "stopped" ELSE outcome]
  /\ halted' = halted \ {<<r, s>>}

\* A turn that waits for a person does not end by itself, unless it was stopped.
Blocked(r, t) ==
  t \notin own /\ \E x \in AsksOf(r) \cup OpeningOf(r) : SessionOf(x[2]) = task[t].session

TurnEnds(r, t) ==
  /\ At(r, t, "wait") /\ t \in turning /\ ~Blocked(r, t)
  /\ \E outcome \in {"done", "error", "lost"}, cost \in Costs :
       /\ outcome = "lost" => CanGoOn
       /\ Returns(r, t, outcome, cost)
  /\ turning' = turning \ {t}
  /\ UNCHANGED <<ledgerVars, leases, futures, own, owed, queue, lost, lapses, rowsOnly>>

\* 900 s are over, whether the turn was thinking or waiting for a person; the
\* interrupt it is sent may fail.
TurnTimesOut(r, t) ==
  /\ At(r, t, "wait") \/ At(r, t, "deaf")
  /\ CanGoOn \/ task[t].cancel
  /\ \E cost \in Costs : Returns(r, t, "timeout", cost)
  /\ turning' \in {turning, turning \ {t}}
  /\ UNCHANGED <<ledgerVars, leases, futures, own, owed, queue, lost, lapses, rowsOnly>>

\* A turn nobody waits for ends.
OrphanEnds(t) ==
  /\ t \in turning /\ \A r \in Runners : ~At(r, t, "wait")
  /\ turning' = turning \ {t}
  /\ UNCHANGED <<ledgerVars, leases, driver, futures, halted, own, owed, queue, lost,
                 lapses, rowsOnly>>

Turned(r, t) ==
  /\ At(r, t, "turned") /\ Goto(r, t, "judge")
  /\ AttemptTransition(driver[r][t].attempt, "RUNNING", 0, NoInter)
  /\ UNCHANGED <<driverOnly, rowsOnly>>

\* The read after the turn, and the order in which its outcomes are looked at.
Judge(r, t) ==
  LET d == driver[r][t]
      row == task[t]
      over == row.limit # Unlimited /\ d.cost > row.limit - row.used
      verdicts == IF row.cancel THEN {"cancel"}
                  ELSE IF d.outcome \in {"stopped", "lost", "error"} THEN {d.outcome}
                  ELSE IF over THEN {"over"}
                  ELSE IF d.outcome = "timeout" THEN {"bad"}
                  ELSE {"ok"} \cup (IF CanGoOn THEN {"bad"} ELSE {})
  IN
  /\ At(r, t, "judge")
  /\ \E v \in verdicts :
       driver' = [driver EXCEPT ![r][t].pc = "settle", ![r][t].outcome = v]
  /\ UNCHANGED <<ledgerVars, driverOnly, rowsOnly>>

EndOf(verdict) ==
  CASE verdict = "cancel" -> "CANCELLED" [] verdict = "ok" -> "COMPLETED"
    [] verdict = "over" -> "BUDGET_EXCEEDED" [] OTHER -> "FAILED"

Settle(r, t) ==
  LET d == driver[r][t] IN
  /\ At(r, t, "settle")
  /\ \/ /\ d.outcome # "over" /\ Goto(r, t, "after")
        /\ AttemptTransition(d.attempt, EndOf(d.outcome), d.cost, NoInter)
     \/ /\ d.outcome = "over" /\ Leave(r, t)
        /\ \/ \E i \in Inters : AttemptTransition(d.attempt, "BUDGET_EXCEEDED", d.cost, i)
           \/ ~CanMove(task[t].state, "WAITING") /\ UNCHANGED ledgerVars
  /\ UNCHANGED <<driverOnly, rowsOnly>>

\* What follows the end of the attempt, in a transaction of its own.
AfterTurn(r, t) ==
  LET v == driver[r][t].outcome
      state == task[t].state
  IN
  /\ At(r, t, "after")
  /\ \/ v = "cancel" /\ Try(r, t, state \notin Terminal, Transition(t, "CANCELLED", ""), "leaving")
     \/ v = "stopped" /\ AskAndLeave(r, t, "question")
     \/ v = "lost" /\ Try(r, t, CanMove(state, "WAITING"),
                          Transition(t, "WAITING", "ENVIRONMENT"), "leaving")
     \/ v = "error" /\ Try(r, t, CanMove(state, "FAILED"), Transition(t, "FAILED", ""), "leaving")
     \/ v = "bad" /\ Goto(r, t, "requeue") /\ UNCHANGED ledgerVars
     \/ v = "bad" /\ AskAndLeave(r, t, "question")
  /\ UNCHANGED <<driverOnly, rowsOnly>>

\* Mutant: the cursor moves on whatever the verdict.
MoveCursorAnyway(r, t) ==
  /\ At(r, t, "after") /\ Touch(t)
  /\ driver[r][t].outcome \in {"ok", "bad"} /\ cursor[t] < Steps
  /\ cursor' = [cursor EXCEPT ![t] = @ + 1]
  /\ Goto(r, t, IF cursor[t] + 1 >= Steps THEN "finish" ELSE "requeue")
  /\ UNCHANGED <<driverOnly, stepOf, fromTurn, first, faults>>

\* The cursor moves on after an accepted step, or back to an earlier one (back_to).
MoveCursor(r, t) ==
  LET v == driver[r][t].outcome IN
  /\ At(r, t, "after") /\ Touch(t)
  /\ \/ /\ v = "ok" /\ cursor' = [cursor EXCEPT ![t] = @ + 1]
        /\ Goto(r, t, IF cursor[t] + 1 >= Steps THEN "finish" ELSE "requeue")
     \/ /\ v = "bad" /\ \E k \in 0..(driver[r][t].step - 1) : cursor' = [cursor EXCEPT ![t] = k]
        /\ Goto(r, t, "requeue")
  /\ UNCHANGED <<driverOnly, stepOf, fromTurn, first, faults>>

Requeue(r, t) ==
  /\ At(r, t, "requeue") /\ Goto(r, t, "step")
  /\ IF task[t].state = "RUNNING" THEN Transition(t, "QUEUED", "") ELSE UNCHANGED ledgerVars
  /\ UNCHANGED <<driverOnly, rowsOnly>>

\* _finish.
Finish(r, t) ==
  /\ At(r, t, "finish")
  /\ \/ task[t].state = "QUEUED" /\ Transition(t, "RUNNING", "") /\ Goto(r, t, "finish")
     \/ task[t].state = "RUNNING" /\ Transition(t, "SUCCEEDED", "") /\ Leave(r, t)
     \/ task[t].state \notin {"QUEUED", "RUNNING"} /\ Leave(r, t) /\ UNCHANGED ledgerVars
  /\ UNCHANGED <<driverOnly, rowsOnly>>

-----------------------------------------------------------------------------
(* Requests of a turn to a person (on_server_request, _ask_human, _on_user_input). *)

\* The task that holds the wheel of the thread's session moves to WAITING in the
\* transaction that opens the question; when it cannot, the app-server gets an
\* error instead.
TurnAsks(r, t, i, kind) ==
  LET u == sess[task[t].session].active IN
  /\ t \in turning /\ r \in claiming /\ CanAsk
  /\ u # NoTask /\ OpenInteraction(u, i, kind)
  /\ opening' = opening \cup {<<r, i>>} /\ fromTurn' = fromTurn \cup {i}
  /\ UNCHANGED <<leases, driver, turning, asks, unheard, halted, own, owed, queue, lost,
                 lapses, cursor, stepOf, first, faults>>

\* _wait_answer: the question is in the page, and now its future is in the table.
Listens(r, i) ==
  /\ <<r, i>> \in opening
  /\ opening' = opening \ {<<r, i>>} /\ asks' = asks \cup {<<r, i>>}
  /\ UNCHANGED <<ledgerVars, leases, driver, turning, unheard, halted, own, owed, queue,
                 lost, lapses, rowsOnly>>

\* Nobody answered for an hour, or nobody could: close the question if the ledger
\* lets it, stop the turn.
AskTimesOut(r, i) ==
  /\ <<r, i>> \in asks \cup unheard /\ CanGoOn
  /\ asks' = asks \ {<<r, i>>} /\ unheard' = unheard \ {<<r, i>>}
  /\ IF Answerable(i) THEN Respond(i, "go", 0) ELSE UNCHANGED ledgerVars
  /\ Halt(r, SessionOf(i))
  /\ UNCHANGED <<leases, driver, turning, opening, owed, queue, lost, lapses, rowsOnly>>

\* While the user drives, a turn of their own asks and they press stop.
UserStopsOwnTurn(r, s) ==
  /\ Claims(r) /\ sess[s] = UserDrives /\ TurnsOn(s) = {}
  /\ halted' = halted \cup {<<r, s>>}
  /\ UNCHANGED <<ledgerVars, leases, driver, turning, futures, own, owed, queue, lost,
                 lapses, rowsOnly>>

\* MachineSync has found the machine back and the runner has probed it.
Reconnect(r, t) ==
  /\ Claims(r) /\ ResumeEnvironment(t)
  /\ UNCHANGED runnerVars

-----------------------------------------------------------------------------
Web ==
  \/ \E t \in Tasks, s \in Sessions, limit \in Limits : AskForHandover(t, s, limit)
  \/ \E p \in Projects : FinishHandover(p)
  \/ \E t \in Tasks : CancelTask(t)
  \/ \E i \in Inters, d \in {"go", "stop", "decline"}, halt \in BOOLEAN :
       AnswerInteraction(i, d, 0, halt)
  \/ \E i \in Inters, amount \in TopUps : AnswerInteraction(i, "topup", amount, FALSE)
  \/ \E c \in owed : Post(c)
  \/ WebDies

Loop(r) ==
  \/ RunOnce(r) \/ Crash(r)
  \/ \E t \in Tasks : HandleDrive(r, t) \/ Reconnect(r, t)
  \/ \E c \in queue : HandleAnswer(r, c) \/ HandleInterrupt(r, c)
  \/ \E c \in queue \cup {Drive(t) : t \in Tasks} : CommandFails(r, c)

\* The steps the driver takes by itself, as fast as its transactions commit.
Interpret(r, t) ==
  \/ Begin(r, t) \/ Validate(r, t) \/ Step(r, t) \/ Open(r, t) \/ Broke(r, t)
  \/ AskFirst(r, t) \/ Asking(r, t) \/ Start(r, t) \/ Turned(r, t) \/ Judge(r, t)
  \/ Settle(r, t) \/ AfterTurn(r, t) \/ MoveCursor(r, t) \/ Requeue(r, t)
  \/ Finish(r, t) \/ Left(r, t)

Turns(r, t) ==
  \/ TurnEnds(r, t) \/ TurnTimesOut(r, t) \/ StartRefused(r, t)
  \/ \E i \in Inters, kind \in TurnKinds : TurnAsks(r, t, i, kind)

RunnerNext ==
  \/ Web \/ LeaseLapses
  \/ \E r \in Runners : Loop(r)
  \/ \E r \in Runners, t \in Tasks : Interpret(r, t) \/ Turns(r, t)
  \/ \E t \in Tasks : OrphanEnds(t)
  \/ \E r \in Runners, i \in Inters : Listens(r, i) \/ AskTimesOut(r, i)
  \/ \E r \in Runners, s \in Sessions : UserStopsOwnTurn(r, s)

RunnerSpec == RunnerInit /\ [][RunnerNext]_vars

\* What goes on by itself: drivers, the polling loops, the handler of a question,
\* the web process between its two transactions, and a turn, which ends or is
\* given up after 900 s.  A dead runner's lease expires.  People, machines and
\* faults owe nothing.
CommandsMove ==
  /\ WF_vars(\E c \in owed : Post(c))
  /\ WF_vars(lease.holder \notin claiming /\ LeaseLapses)
  /\ \A r \in Runners :
       /\ WF_vars(RunOnce(r))
       /\ WF_vars(\E c \in queue : HandleAnswer(r, c) \/ HandleInterrupt(r, c))
       /\ \A t \in Tasks : WF_vars(HandleDrive(r, t))

Fairness ==
  /\ CommandsMove
  /\ \A p \in Projects : WF_vars(FinishHandover(p))
  /\ \A r \in Runners :
       /\ WF_vars(\E i \in Inters : Listens(r, i))
       /\ \A t \in Tasks : /\ WF_vars(Interpret(r, t))
                           /\ WF_vars(TurnEnds(r, t) \/ TurnTimesOut(r, t))

\* For the answers: the commands move, drivers and turns may hang for ever.
CommandSpec == RunnerSpec /\ CommandsMove
LiveSpec == RunnerSpec /\ Fairness

-----------------------------------------------------------------------------
(* Properties. *)

AtTurn == {"askfirst", "turn", "wait", "deaf", "turned", "judge", "settle"}
Pcs == AtTurn \cup {"off", "leaving", "begin", "validate", "step", "open", "broke", "asking",
                   "after", "requeue", "finish"}
Commands == [kind: {"task.drive", "turn.interrupt"}, task: Tasks] \cup
            [kind: {"approval.respond"}, inter: Inters, halt: BOOLEAN]

\* The runner's memory and the command table keep their shape, and the cursor
\* stays on the workflow.
RunnerTypeOK ==
  /\ TypeOK
  /\ lease \in [holder: Runners \cup {NoRunner}, live: BOOLEAN]
  /\ held \cup claiming \subseteq Runners
  /\ driver \in [Runners -> [Tasks ->
       [pc: Pcs, attempt: Attempts \cup {NoAttempt}, step: 0..(Steps - 1),
        outcome: Outcomes \cup {""}, cost: Costs \cup {0}]]]
  /\ cursor \in [Tasks -> 0..Steps] /\ stepOf \in [Attempts -> 0..(Steps - 1)]
  /\ turning \subseteq Tasks /\ own \subseteq Tasks
  /\ opening \cup asks \cup unheard \subseteq Runners \X Inters /\ fromTurn \subseteq Inters
  /\ first \subseteq Inters \X (0..(Steps - 1)) /\ halted \subseteq Runners \X Sessions
  /\ owed \cup queue \cup lost \subseteq Commands

\* A live task is worked at by one driver at a time, whichever runners believe
\* they hold the sandbox: the attempt it names keeps a second one out.
OneTurnPerTask ==
  \A t \in Tasks : Live(t) =>
    \A r, q \in Runners : driver[r][t].pc \in AtTurn /\ driver[q][t].pc \in AtTurn => r = q

\* Every step the cursor has passed was accepted: an attempt at it is COMPLETED
\* ("accepted: store the artifact, cursor + 1", advisor.py).
PassedStepsAccepted ==
  \A t \in Tasks : \A k \in 0..(cursor[t] - 1) :
    \E a \in Attempts : attempt[a].task = t /\ attempt[a].status = "COMPLETED" /\ stepOf[a] = k

\* An open attempt of a live task has the driver that will close it: none of the
\* ways out of a step leaves its attempt behind, which would lock the task for
\* every later step.  Exempt is a task whose turn has put a question to a person
\* (see OverBudgetStops), and so is a run in which a process has died.
AttemptHasDriver ==
  faults = 0 /\ lapses = 0 => \A t \in Tasks : Live(t) /\ task[t].attempt # NoAttempt =>
    \/ \E r \in Runners : driver[r][t].pc \in AtTurn /\ driver[r][t].attempt = task[t].attempt
    \/ \E i \in fromTurn : inter[i].task = t

\* A task that has been given the wheel is driven, whether it was handed over or
\* started by the end of the one before it: across four transactions of the web
\* process and the runners its first command is not lost, whoever dies, unless the
\* process that had it in hand died or could not obey it.
StartedIsDriven ==
  \A t \in Tasks :
    task[t].state = "RECEIVED" /\ ~task[t].queued ~> task[t].state # "RECEIVED" \/ Drive(t) \in lost

\* An answer given while a turn listens for it reaches that turn through the
\* command table and ends its wait, unless the command died with the web process
\* or failed before it got to the link.
AnswerIsDelivered ==
  \A r \in Runners, i \in Inters :
    [](<<r, i>> \in asks /\ inter[i].status = "pending" =>
         [](inter[i].status = "consumed" =>
              <>(<<r, i>> \notin asks \/ \E halt \in BOOLEAN : Answer(i, halt) \in lost)))

-----------------------------------------------------------------------------
(* What the code says of itself and does not keep. *)

\* "the intent to cancel is persisted first; the orchestration converges when it
\* sees the intent" (request_cancel): no person is needed to end the task.
CancelEnds == \A t \in Tasks : task[t].cancel ~> task[t].state \in Terminal

\* "carries out the commands the pages put into workbench_commands" (runner.py): a
\* task that holds the wheel is driven, also when a process dies or a command fails.
DriveIsNotLost ==
  \A t \in Tasks : task[t].state = "RECEIVED" /\ ~task[t].queued ~> task[t].state # "RECEIVED"

\* "wait for the answer of the page" (_wait_answer): an answer is not taken from
\* the command table before the turn that asked waits for it.
AnswerFindsItsTurn ==
  [][\A x \in opening, halt \in BOOLEAN :
       Answer(x[2], halt) \in queue => Answer(x[2], halt) \in queue']_vars

\* "hard stop of the budget: an attempt over its limit takes the task to
\* WAITING(RESOURCE)" (attempt_transition).
OverBudgetStops ==
  [][\A r \in Runners, t \in Tasks :
       /\ driver[r][t].pc = "settle" /\ driver[r][t].outcome = "over" /\ Live(t)
       /\ driver'[r][t].pc = "leaving"
       => task'[t].state = "WAITING" /\ task'[t].why = "RESOURCE"]_vars

\* "the expert is doing a step (running, or stuck waiting for a person): this
\* turn is interrupted at once" (cancel_task).
CancelInterrupts ==
  [][\A t \in Tasks : t \in turning /\ task'[t].cancel /\ ~task[t].cancel
       => Interrupt(t) \in owed']_vars

\* "restarted after a crash it goes on from the cursor and the artifact versions"
\* (advisor.py): the step it comes back to can be opened.
ResumedStepOpens ==
  \A r \in Runners, t \in Tasks :
    driver[r][t].pc = "open" /\ Live(t) => task[t].attempt = NoAttempt

\* "a sandbox just leased: tasks without a driver are queued again" (_take_over):
\* a task that is ready to go on does go on.
QueuedGoesOn == \A t \in Tasks : task[t].state = "QUEUED" ~> task[t].state # "QUEUED"

\* "nobody answers in time: close the question and put the task back from
\* WAITING" (_settle_timeout): the question a task waits for can be closed.
WaitCanBeSettled ==
  \A x \in asks : LET t == inter[x[2]].task IN
    task[t].state = "WAITING" /\ task[t].ask = x[2] => Answerable(x[2])

\* "the request is gone with its connection, Codex will ask again"
\* (expire_pending_tool_approvals): a task does not go on waiting for it.
ExpiredIsAskedAgain ==
  \A t \in Tasks, i \in Inters :
    (task[t].state = "WAITING" /\ task[t].ask = i /\ inter[i].status = "expired")
      ~> ~(task[t].state = "WAITING" /\ task[t].ask = i)

\* "the user pressed stop (or nobody came): this turn was stopped by a person"
\* (user_stops): a turn reported as stopped is one somebody stopped.
StopsAreOwn ==
  \A r \in Runners, t \in Tasks :
    driver[r][t].pc = "turned" /\ driver[r][t].outcome = "stopped" => t \in own

\* "in one project one expert runs at a time, who comes later queues" (handover).
OneTurnPerProject ==
  \A t, u \in turning : Project(task, t) = Project(task, u) => t = u

\* "back to QUEUED: a task.drive is enqueued and the driving goes on"
\* (answer_interaction).
QueuedHasDrive ==
  \A t \in Tasks : task[t].state = "QUEUED" =>
    \/ pending[t] > 0 \/ Drive(t) \in owed
    \/ \E r \in Runners : driver[r][t].pc \notin {"off", "leaving"}
=============================================================================
