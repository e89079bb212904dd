--------------------------- MODULE TestRunsProofs ---------------------------
(***************************************************************************)
(* Theorems about TestRuns.tla, for any number of runs, cases, conductors  *)
(* and crashes: "passed" is earned, and as long as no two conductors meet  *)
(* at a run, what is closed has been told to stop.                         *)
(***************************************************************************)
EXTENDS TestRuns, FiniteSetTheorems, WellFoundedInduction, TLAPS

-----------------------------------------------------------------------------
(* The least of a set of cases. *)

LEMMA LeastNumber ==
  ASSUME NEW T, T \subseteq Nat, T # {}
  PROVE  Min(T) \in T
<1>1. PICK x \in T : \A y \in T : ~(<<y, x>> \in OpToRel(<, Nat))
  BY NatLessThanWellFounded, WFMin
<1>2. ASSUME NEW y \in T PROVE x <= y
  <2>1. y \in Nat /\ x \in Nat OBVIOUS
  <2>2. ~(y < x) BY <1>1, <2>1 DEF OpToRel
  <2> QED BY <2>1, <2>2
<1> QED BY <1>2 DEF Min

LEMMA LeastCase ==
  ASSUME NEW T \in SUBSET Cases, T # {}
  PROVE  Min(T) \in T /\ Min(T) \in Cases
<1>1. T \subseteq Nat BY TestRunsAssumption DEF Cases
<1> QED BY <1>1, LeastNumber

LEMMA LeastOfTwo ==
  ASSUME NEW a \in Nat, NEW b \in Nat
  PROVE  Min({a, b}) \in 0..b
<1>1. Min({a, b}) \in {a, b}
  BY LeastNumber
<1>2. \E x \in {a, b} : \A y \in {a, b} : x =< y
  <2>1. CASE a =< b BY <2>1
  <2>2. CASE b =< a BY <2>2
  <2> QED BY <2>1, <2>2
<1>3. \A y \in {a, b} : Min({a, b}) =< y
  BY <1>2 DEF Min
<1> QED BY <1>1, <1>3

-----------------------------------------------------------------------------
(* The shape of the rows. *)

Statuses == {"none"} \cup Active \cup Final
TaskStates == {"none", "queued"} \cup AtWork \cup Ended
Stages == {"idle", "fresh", "account", "begun", "cases", "session", "handover", "book", "follow", "respond",
           "wait", "unwait", "giveup", "stop", "record", "timeout", "error", "conclude"}

RunRow == [status : Statuses, spent : Nat, purged : BOOLEAN]
CaseRow == [session : 0..MaxSessions, task : BOOLEAN, result : Results, waiting : BOOLEAN]
TaskRow == [state : TaskStates, session : 0..MaxSessions, used : Nat, met : BOOLEAN, cancel : BOOLEAN]
Place == [at : Stages, run : Runs \cup {None}, case : Cases \cup {0}, spent : Nat,
          open : SUBSET Cases, booked : SUBSET Cases, waits : BOOLEAN, passed : BOOLEAN,
          human : BOOLEAN, session : 0..MaxSessions]

TableOf(Row) == [Runs -> [Cases -> Row]]

Shapes ==
  /\ run \in [Runs -> RunRow]
  /\ row \in TableOf(CaseRow)
  /\ task \in TableOf(TaskRow)
  /\ opened \in TableOf(0..MaxSessions)
  /\ given \subseteq Runs \X Cases /\ overdue \subseteq Runs \X Cases
  /\ late \subseteq Runs /\ checking \subseteq Runs
  /\ cond \in [Conductors -> Place]
  /\ meetings \in Nat

LEMMA IdleIsPlace == Idle \in Place
BY TestRunsAssumption DEF Idle, Place, Stages

LEMMA NoTaskIsRow == NoTask \in TaskRow
BY TestRunsAssumption DEF NoTask, TaskRow, TaskStates

LEMMA InitialShapes == Init => Shapes
<1> SUFFICES ASSUME Init PROVE Shapes OBVIOUS
<1>1. run \in [Runs -> RunRow]
  BY DEF Init, RunRow, Statuses
<1>2. row \in TableOf(CaseRow)
  <2>1. [session |-> 0, task |-> FALSE, result |-> "none", waiting |-> FALSE] \in CaseRow
    BY TestRunsAssumption DEF CaseRow, Results
  <2> QED BY <2>1 DEF Init, TableOf
<1>3. task \in TableOf(TaskRow)
  BY NoTaskIsRow DEF Init, TableOf
<1>4. opened \in TableOf(0..MaxSessions)
  BY TestRunsAssumption DEF Init, TableOf
<1>5. cond \in [Conductors -> Place]
  BY IdleIsPlace DEF Init
<1>6. /\ given \subseteq Runs \X Cases /\ overdue \subseteq Runs \X Cases
      /\ late \subseteq Runs /\ checking \subseteq Runs /\ meetings \in Nat
  BY DEF Init
<1> QED BY <1>1, <1>2, <1>3, <1>4, <1>5, <1>6, Zenon DEF Shapes

-----------------------------------------------------------------------------
(* What becomes of a task. *)

\* It has ended, or it is marked to be cancelled.
Halted(t) == t.state \in Ended \/ t.cancel

\* A task that was handed over does not vanish, one that was halted stays so, and
\* success is for good.
GoesTo(t, u) ==
  /\ t.state # "none" => u.state # "none"
  /\ Met(t) => Met(u)
  /\ Halted(t) => Halted(u)
  /\ t.state # "none" \/ ~t.cancel => u.state # "none" \/ ~u.cancel

TasksGoOn == \A r \in Runs, c \in Cases : GoesTo(task[r][c], task'[r][c])

LEMMA TasksStay ==
  ASSUME Shapes, task' = task
  PROVE  TasksGoOn /\ task' \in TableOf(TaskRow)
BY DEF TasksGoOn, GoesTo, Shapes

LEMMA OneTaskGoesOn ==
  ASSUME Shapes, NEW r \in Runs, NEW c \in Cases, NEW t \in TaskRow,
         GoesTo(task[r][c], t), task' = [task EXCEPT ![r][c] = t]
  PROVE  TasksGoOn /\ task' \in TableOf(TaskRow) /\ task'[r][c] = t
<1>a. task \in TableOf(TaskRow)
  BY DEF Shapes
<1>1. /\ task' \in TableOf(TaskRow)
      /\ \A q \in Runs, d \in Cases : task'[q][d] = IF q = r /\ d = c THEN t ELSE task[q][d]
  BY <1>a DEF TableOf
<1>2. \A q \in Runs, d \in Cases : GoesTo(task[q][d], task[q][d])
  BY DEF GoesTo
<1> QED BY <1>1, <1>2 DEF TasksGoOn

\* The first of those in line begins.
LEMMA QueuedBegins ==
  ASSUME NEW u \in TaskRow, u.state = "queued", NEW v, v = [u EXCEPT !.state = "working"]
  PROVE  v \in TaskRow /\ GoesTo(u, v)
<1>1. v \in TaskRow
  BY DEF TaskRow, TaskStates, AtWork
<1>2. v.state = "working" /\ v.cancel = u.cancel
  BY DEF TaskRow
<1> QED BY <1>1, <1>2 DEF GoesTo, Halted, Met, Ended

LEMMA EndingGoesOn ==
  ASSUME Shapes, NEW r \in Runs, NEW c \in Cases, NEW t \in TaskRow,
         GoesTo(task[r][c], t), Ends(r, c, t)
  PROVE  TasksGoOn /\ task' \in TableOf(TaskRow) /\ task'[r][c] = t
<1> DEFINE after == [task EXCEPT ![r][c] = t]
<1>1. CASE task' = after
  BY <1>1, OneTaskGoesOn
<1>2. ASSUME task' # after
      PROVE  \E x \in InLine \ {<<r, c>>} : task' = [after EXCEPT ![x[1]][x[2]].state = "working"]
  BY <1>2 DEF Ends
<1>3. ASSUME NEW x \in InLine \ {<<r, c>>}, task' = [after EXCEPT ![x[1]][x[2]].state = "working"]
      PROVE  TasksGoOn /\ task' \in TableOf(TaskRow) /\ task'[r][c] = t
  <2> DEFINE p == x[1]
             q == x[2]
             u == task[p][q]
  <2>1. p \in Runs /\ q \in Cases /\ ~(p = r /\ q = c) /\ u.state = "queued" /\ u \in TaskRow
    BY <1>3 DEF InLine, Shapes, TableOf
  <2>2. /\ after \in TableOf(TaskRow)
        /\ \A s \in Runs, d \in Cases : after[s][d] = IF s = r /\ d = c THEN t ELSE task[s][d]
    <3>1. task \in TableOf(TaskRow)
      BY DEF Shapes
    <3> QED BY <3>1 DEF TableOf
  <2> HIDE DEF after
  <2>3. after[p][q] = u
    BY <2>1, <2>2
  <2>4. PICK v : v = [u EXCEPT !.state = "working"] OBVIOUS
  <2>5. v \in TaskRow /\ GoesTo(u, v)
    BY <2>1, <2>4, QueuedBegins
  <2>6. task' = [after EXCEPT ![p][q] = v]
    BY <1>3, <2>3, <2>4
  <2>7. /\ task' \in TableOf(TaskRow)
        /\ \A s \in Runs, d \in Cases : task'[s][d] = IF s = p /\ d = q THEN v ELSE after[s][d]
    BY <2>1, <2>2, <2>5, <2>6 DEF TableOf
  <2>8. \A s \in Runs, d \in Cases : GoesTo(task[s][d], task[s][d])
    BY DEF GoesTo
  <2>9. task'[r][c] = t
    BY <2>1, <2>2, <2>7
  <2> QED BY <2>1, <2>2, <2>5, <2>7, <2>8, <2>9 DEF TasksGoOn
<1> QED BY <1>1, <1>2, <1>3

\* Whatever cancel_task does, a task that was handed over is halted after it.
LEMMA CancelHalts ==
  ASSUME Shapes, NEW r \in Runs, NEW c \in Cases, CancelTask(r, c)
  PROVE  /\ TasksGoOn /\ task' \in TableOf(TaskRow)
         /\ task[r][c].state # "none" => Halted(task'[r][c])
<1> DEFINE t == task[r][c]
<1>1. t \in TaskRow
  BY DEF Shapes, TableOf
<1>2. CASE t.state = "working"
  <2>1. PICK u : u = [t EXCEPT !.cancel = TRUE] OBVIOUS
  <2>2. u \in TaskRow
    BY <1>1, <2>1 DEF TaskRow
  <2>3. u.state = "working" /\ u.cancel
    BY <1>1, <1>2, <2>1 DEF TaskRow
  <2>4. task' = [task EXCEPT ![r][c] = u]
    BY <1>2, <2>1 DEF CancelTask, Shapes, TableOf
  <2>5. GoesTo(t, u)
    BY <1>2, <2>3 DEF GoesTo, Halted, Met
  <2> QED BY <2>2, <2>3, <2>4, <2>5, OneTaskGoesOn DEF Halted
<1>3. CASE t.state # "working" /\ t.state \in AtWork \cup {"queued"}
  <2>1. PICK u : u = [t EXCEPT !.state = "CANCELLED", !.cancel = TRUE] OBVIOUS
  <2>2. u \in TaskRow
    BY <1>1, <2>1 DEF TaskRow, TaskStates, Ended
  <2>3. u.state = "CANCELLED" /\ u.cancel
    BY <1>1, <2>1 DEF TaskRow
  <2>4. Ends(r, c, u)
    BY <1>3, <2>1 DEF CancelTask
  <2>5. GoesTo(t, u)
    BY <1>3, <2>3 DEF GoesTo, Halted, Met, AtWork
  <2> QED BY <2>2, <2>3, <2>4, <2>5, EndingGoesOn DEF Halted
<1>4. CASE t.state # "working" /\ t.state \notin AtWork \cup {"queued"}
  <2>1. task' = task
    BY <1>4 DEF CancelTask
  <2>2. t.state # "none" => t.state \in Ended
    BY <1>1, <1>4 DEF TaskRow, TaskStates
  <2> QED BY <2>1, <2>2, TasksStay DEF Halted
<1> QED BY <1>2, <1>3, <1>4

LEMMA TurnGoesOn ==
  ASSUME Shapes, NEW r \in Runs, NEW c \in Cases, Turn(r, c)
  PROVE  TasksGoOn /\ task' \in TableOf(TaskRow)
<1> DEFINE t == task[r][c]
<1>1. t \in TaskRow /\ t.state = "working"
  <2>1. t \in TaskRow
    BY DEF Shapes, TableOf
  <2>2. t.state = "working"
    BY DEF Turn
  <2> QED BY <2>1, <2>2
<1>2. PICK w : w = [t EXCEPT !.used = @ + 1] OBVIOUS
<1>3. w \in TaskRow /\ w.state = "working" /\ w.cancel = t.cancel
  BY <1>1, <1>2 DEF TaskRow
<1>4. CASE t.cancel
  <2>1. PICK u : u = [t EXCEPT !.state = "CANCELLED"] OBVIOUS
  <2>2. u \in TaskRow
    BY <1>1, <2>1 DEF TaskRow, TaskStates, Ended
  <2>3. u.state = "CANCELLED"
    BY <1>1, <2>1 DEF TaskRow
  <2>4. Ends(r, c, u)
    BY <1>4, <2>1 DEF Turn
  <2>5. GoesTo(t, u)
    BY <1>1, <2>3 DEF GoesTo, Halted, Met, Ended
  <2> QED BY <2>2, <2>4, <2>5, EndingGoesOn
<1>5. ASSUME ~t.cancel, NEW s \in {"SUCCEEDED", "FAILED"}, NEW met \in BOOLEAN,
             Ends(r, c, [w EXCEPT !.state = s, !.met = met])
      PROVE  TasksGoOn /\ task' \in TableOf(TaskRow)
  <2>1. PICK u : u = [w EXCEPT !.state = s, !.met = met] OBVIOUS
  <2>2. u \in TaskRow
    BY <1>3, <1>5, <2>1 DEF TaskRow, TaskStates, Ended
  <2>3. u.state = s
    BY <1>3, <2>1 DEF TaskRow
  <2>4. GoesTo(t, u)
    BY <1>1, <1>5, <2>3 DEF GoesTo, Halted, Met, Ended
  <2> QED BY <1>5, <2>1, <2>2, <2>4, EndingGoesOn
<1>6. ASSUME ~t.cancel, NEW s \in {"asks", "decides"},
             task' = [task EXCEPT ![r][c] = [w EXCEPT !.state = s]]
      PROVE  TasksGoOn /\ task' \in TableOf(TaskRow)
  <2>1. PICK u : u = [w EXCEPT !.state = s] OBVIOUS
  <2>2. u \in TaskRow
    BY <1>3, <1>6, <2>1 DEF TaskRow, TaskStates, AtWork
  <2>3. u.state = s /\ u.cancel = t.cancel
    BY <1>3, <2>1 DEF TaskRow
  <2>4. GoesTo(t, u)
    BY <1>1, <1>6, <2>3 DEF GoesTo, Halted, Met, Ended
  <2> QED BY <1>6, <2>1, <2>2, <2>4, OneTaskGoesOn
<1> QED BY <1>2, <1>4, <1>5, <1>6 DEF Turn

-----------------------------------------------------------------------------
(* Where a conductor may be, and what it may have read. *)

CaseStages == {"session", "handover", "book", "follow", "respond", "wait", "unwait", "giveup",
               "stop", "record"}
KnownStages == CaseStages \ {"session", "handover"}

\* A conductor at a run: the run has been accepted and is not purged; the task of the
\* case in hand was handed over, from the row of the case or by the conductor; so were
\* those it has seen booked; if it has read that every case passed, every task did; and
\* it gives a case up to a person only on the way to its record.
Placed(p) ==
  IF p.at = "idle" THEN p.run = None
  ELSE /\ p.run \in Runs /\ run[p.run].status # "none" /\ ~run[p.run].purged
       /\ p.at \in CaseStages => p.case \in Cases
       /\ p.at \in KnownStages => task[p.run][p.case].state # "none"
       /\ \A c \in p.booked : task[p.run][c].state # "none"
       /\ p.passed => \A c \in Cases : Met(task[p.run][c])
       /\ p.at = "error" => p.open # {}
       /\ p.human => p.at \in {"unwait", "record"}

\* What the tables say of one another.
Tables ==
  /\ \A r \in checking : run[r].status = "none"
  /\ \A r \in Runs : run[r].purged => run[r].status \in Final
  /\ \A r \in Runs, c \in Cases :
       /\ task[r][c].state = "none" => ~task[r][c].cancel
       /\ row[r][c].task => task[r][c].state # "none"
       /\ row[r][c].result = "passed" /\ ~run[r].purged => Met(task[r][c])

\* The inductive invariant behind a result.
ResultInv ==
  /\ Shapes /\ Tables /\ PassedIsEarned
  /\ \A k \in Conductors : Placed(cond[k])

\* What a conductor that is alone at its run relies on from one commit to the next.
Sound(p) ==
  p.at # "idle" =>
    /\ p.at \in {"session", "handover", "book"} => row[p.run][p.case].result = "none"
    /\ p.at = "record" \/ (p.at = "unwait" /\ p.human) => Halted(task[p.run][p.case])
    /\ p.at \in {"timeout", "error"} => \A c \in p.open \ p.booked : ~row[p.run][c].task
    /\ p.at = "error" /\ row[p.run][Min(p.open)].task => Halted(task[p.run][Min(p.open)])

Apart == \A j, k \in Conductors : j # k /\ cond[j].run = cond[k].run => cond[j].run = None
ClosedIsHalted ==
  \A r \in Runs, c \in Cases : row[r][c].result # "none" /\ row[r][c].task => Halted(task[r][c])

\* The inductive invariant behind what is closed.
StopInv ==
  /\ ResultInv
  /\ meetings = 0 => Apart /\ ClosedIsHalted /\ \A k \in Conductors : Sound(cond[k])

-----------------------------------------------------------------------------
(* What a step must keep. *)

RunsGoOn ==
  \A r \in Runs :
    /\ run[r].status # "none" => run'[r].status # "none"
    /\ run'[r].purged = run[r].purged
    /\ run'[r].purged => run'[r].status \in Final

LEMMA RunsStay ==
  ASSUME Tables, run' = run
  PROVE  RunsGoOn
BY DEF RunsGoOn, Tables

\* Tasks and runs that go on take nothing from a conductor.
LEMMA PlaceStays ==
  ASSUME TasksGoOn, RunsGoOn, NEW p \in Place, Placed(p)
  PROVE  Placed(p)'
<1>1. CASE p.at = "idle"
  BY <1>1 DEF Placed
<1>2. CASE p.at # "idle"
  <2>1. p.run \in Runs /\ run[p.run].status # "none" /\ ~run[p.run].purged
    BY <1>2 DEF Placed
  <2>2. run'[p.run].status # "none" /\ ~run'[p.run].purged
    BY <2>1 DEF RunsGoOn
  <2>3. \A c \in Cases : GoesTo(task[p.run][c], task'[p.run][c])
    BY <2>1 DEF TasksGoOn
  <2>4. p.at \in CaseStages => p.case \in Cases
    BY <1>2 DEF Placed
  <2>5. p.at \in KnownStages => task'[p.run][p.case].state # "none"
    BY <1>2, <2>3, <2>4 DEF Placed, GoesTo, KnownStages
  <2>6. \A c \in p.booked : task'[p.run][c].state # "none"
    <3>1. p.booked \subseteq Cases
      BY DEF Place
    <3> QED BY <1>2, <2>3, <3>1 DEF Placed, GoesTo
  <2>7. p.passed => \A c \in Cases : Met(task'[p.run][c])
    BY <1>2, <2>3 DEF Placed, GoesTo
  <2>8. (p.at = "error" => p.open # {}) /\ (p.human => p.at \in {"unwait", "record"})
    BY <1>2 DEF Placed
  <2> QED BY <1>2, <2>1, <2>2, <2>4, <2>5, <2>6, <2>7, <2>8, Zenon DEF Placed
<1> QED BY <1>1, <1>2

\* One conductor goes to its next place.
LEMMA ConductorMoves ==
  ASSUME ResultInv, TasksGoOn, RunsGoOn, NEW k \in Conductors, NEW p \in Place, Placed(p)',
         cond' = [cond EXCEPT ![k] = p]
  PROVE  /\ cond' \in [Conductors -> Place]
         /\ \A j \in Conductors : Placed(cond[j])'
<1>1. cond \in [Conductors -> Place]
  BY DEF ResultInv, Shapes
<1>2. cond' \in [Conductors -> Place]
  BY <1>1
<1>3. ASSUME NEW j \in Conductors PROVE Placed(cond[j])'
  <2>1. CASE j = k
    <3>1. cond'[j] = p
      BY <1>1, <2>1
    <3> QED BY <3>1 DEF Placed
  <2>2. CASE j # k
    <3>1. cond'[j] = cond[j] /\ cond[j] \in Place
      BY <1>1, <2>2
    <3>2. Placed(cond[j])
      BY DEF ResultInv
    <3>3. PICK q : q = cond[j] OBVIOUS
    <3>4. Placed(q)'
      BY <3>1, <3>2, <3>3, PlaceStays
    <3> QED BY <3>1, <3>3, <3>4 DEF Placed
  <2> QED BY <2>1, <2>2
<1> QED BY <1>2, <1>3

LEMMA ConductorsStay ==
  ASSUME ResultInv, TasksGoOn, RunsGoOn, cond' = cond
  PROVE  /\ cond' \in [Conductors -> Place]
         /\ \A j \in Conductors : Placed(cond[j])'
<1>1. cond \in [Conductors -> Place]
  BY DEF ResultInv, Shapes
<1>2. ASSUME NEW j \in Conductors PROVE Placed(cond[j])'
  <2>1. cond[j] \in Place /\ Placed(cond[j])
    BY <1>1 DEF ResultInv
  <2>2. PICK q : q = cond[j] OBVIOUS
  <2>3. Placed(q)'
    BY <2>1, <2>2, PlaceStays
  <2> QED BY <2>2, <2>3 DEF Placed
<1> QED BY <1>1, <1>2

LEMMA ResultKept ==
  ASSUME ResultInv, Shapes', TasksGoOn, RunsGoOn,
         \A r \in checking' : run'[r].status = "none",
         \A r \in Runs, c \in Cases :
           /\ row'[r][c].task => row[r][c].task \/ task'[r][c].state # "none"
           /\ row'[r][c].result = "passed" => \/ row[r][c].result = "passed"
                                              \/ Met(task'[r][c]),
         \A r \in Runs : run'[r].status = "passed" =>
           run[r].status = "passed" \/ \A c \in Cases : Met(task'[r][c]),
         \A j \in Conductors : Placed(cond[j])'
  PROVE  ResultInv'
<1>1. ASSUME NEW r \in Runs, NEW c \in Cases
      PROVE  /\ task'[r][c].state = "none" => ~task'[r][c].cancel
             /\ row'[r][c].task => task'[r][c].state # "none"
             /\ row'[r][c].result = "passed" /\ ~run'[r].purged => Met(task'[r][c])
  <2>1. GoesTo(task[r][c], task'[r][c])
    BY DEF TasksGoOn
  <2>2. /\ task[r][c].state = "none" => ~task[r][c].cancel
        /\ row[r][c].task => task[r][c].state # "none"
        /\ row[r][c].result = "passed" /\ ~run[r].purged => Met(task[r][c])
    BY DEF ResultInv, Tables
  <2>3. task'[r][c].state = "none" => ~task'[r][c].cancel
    BY <2>1, <2>2 DEF GoesTo
  <2>4. row'[r][c].task => task'[r][c].state # "none"
    BY <2>1, <2>2 DEF GoesTo
  <2>5. row'[r][c].result = "passed" /\ ~run'[r].purged => Met(task'[r][c])
    BY <2>1, <2>2 DEF GoesTo, RunsGoOn
  <2> QED BY <2>3, <2>4, <2>5
<1>2. Tables'
  BY <1>1 DEF Tables, RunsGoOn
<1>3. PassedIsEarned'
  <2> SUFFICES ASSUME NEW r \in Runs, run'[r].status = "passed", ~run'[r].purged, NEW c \in Cases
               PROVE  Met(task'[r][c])
    BY DEF PassedIsEarned
  <2>1. GoesTo(task[r][c], task'[r][c])
    BY DEF TasksGoOn
  <2>2. ~run[r].purged
    BY DEF RunsGoOn
  <2>3. run[r].status = "passed" => Met(task[r][c])
    BY <2>2 DEF ResultInv, PassedIsEarned
  <2> QED BY <2>1, <2>3 DEF GoesTo
<1> QED BY <1>2, <1>3, Zenon DEF ResultInv

LEMMA PlacedParts ==
  ASSUME NEW p, Placed(p)
  PROVE  /\ p.at # "idle" => p.run \in Runs
         /\ p.at \in CaseStages => p.case \in Cases
         /\ p.at = "error" => p.open # {}
BY DEF Placed, CaseStages

\* A step that leaves the row of a run alone takes nothing from who works at it.
LEMMA SoundStays ==
  ASSUME TasksGoOn, NEW p \in Place, p.at # "idle" => p.run \in Runs /\ row'[p.run] = row[p.run],
         p.at \in CaseStages => p.case \in Cases, p.at = "error" => p.open # {}, Sound(p)
  PROVE  Sound(p)'
<1> SUFFICES ASSUME p.at # "idle"
             PROVE  Sound(p)'
  BY DEF Sound
<1>1. \A c \in Cases : GoesTo(task[p.run][c], task'[p.run][c])
  BY DEF TasksGoOn
<1>2. p.at = "error" => Min(p.open) \in Cases
  BY LeastCase DEF Place
<1>3. p.at \in {"record", "unwait"} => p.case \in Cases
  BY DEF CaseStages
<1>4. p.at = "record" \/ (p.at = "unwait" /\ p.human) => Halted(task'[p.run][p.case])
  BY <1>1, <1>3 DEF Sound, GoesTo
<1>5. p.at = "error" /\ row'[p.run][Min(p.open)].task => Halted(task'[p.run][Min(p.open)])
  BY <1>1, <1>2 DEF Sound, GoesTo
<1>6. p.at \in {"session", "handover", "book"} => row'[p.run][p.case].result = "none"
  BY DEF Sound
<1>7. p.at \in {"timeout", "error"} => \A c \in p.open \ p.booked : ~row'[p.run][c].task
  BY DEF Sound
<1> QED BY <1>4, <1>5, <1>6, <1>7, Zenon DEF Sound

LEMMA StopKeptAside ==
  ASSUME StopInv, ResultInv', TasksGoOn, cond' = cond, meetings' = meetings, row' = row
  PROVE  StopInv'
<1> SUFFICES ASSUME meetings = 0
             PROVE  Apart' /\ ClosedIsHalted' /\ \A j \in Conductors : Sound(cond[j])'
  BY DEF StopInv
<1>1. Apart /\ ClosedIsHalted /\ \A j \in Conductors : Sound(cond[j])
  BY DEF StopInv
<1>2. Apart'
  BY <1>1 DEF Apart
<1>3. ClosedIsHalted'
  BY <1>1 DEF ClosedIsHalted, TasksGoOn, GoesTo
<1>4. ASSUME NEW j \in Conductors PROVE Sound(cond[j])'
  <2>1. PICK q : q = cond[j] OBVIOUS
  <2>2. Placed(q) /\ q \in Place /\ Sound(q)
    BY <1>1, <2>1 DEF StopInv, ResultInv, Shapes
  <2>3. Sound(q)'
    <3>1. /\ q.at # "idle" => q.run \in Runs /\ row'[q.run] = row[q.run]
          /\ q.at \in CaseStages => q.case \in Cases
          /\ q.at = "error" => q.open # {}
      BY <2>2, PlacedParts
    <3> QED BY <2>2, <3>1, SoundStays
  <2> QED BY <2>1, <2>3 DEF Sound
<1> QED BY <1>2, <1>3, <1>4

\* A conductor that stays at its run, or leaves it, and writes its row at most.
LEMMA StopKept ==
  ASSUME StopInv, ResultInv', TasksGoOn, meetings' = meetings,
         NEW k \in Conductors, NEW p \in Place, cond' = [cond EXCEPT ![k] = p],
         p.run \in {cond[k].run, None},
         \A r \in Runs : r # cond[k].run => row'[r] = row[r],
         meetings = 0 =>
           /\ Sound(p)'
           /\ \A r \in Runs, c \in Cases :
                r = cond[k].run /\ row'[r][c].result # "none" /\ row'[r][c].task =>
                  \/ row[r][c].result # "none" /\ row[r][c].task
                  \/ Halted(task'[r][c])
  PROVE  StopInv'
<1> SUFFICES ASSUME meetings = 0
             PROVE  Apart' /\ ClosedIsHalted' /\ \A j \in Conductors : Sound(cond[j])'
  BY DEF StopInv
<1>1. Apart /\ ClosedIsHalted /\ \A j \in Conductors : Sound(cond[j])
  BY DEF StopInv
<1>2. cond \in [Conductors -> Place]
  BY DEF StopInv, ResultInv, Shapes
<1>3. cond'[k] = p /\ \A j \in Conductors : j # k => cond'[j] = cond[j]
  BY <1>2
<1>4. Apart'
  BY <1>1, <1>3 DEF Apart
<1>5. ClosedIsHalted'
  BY <1>1 DEF ClosedIsHalted, TasksGoOn, GoesTo
<1>6. ASSUME NEW j \in Conductors PROVE Sound(cond[j])'
  <2>1. CASE j = k
    BY <1>3, <2>1 DEF Sound
  <2>2. CASE j # k
    <3>1. PICK q : q = cond[j] OBVIOUS
    <3>2. Placed(q) /\ q \in Place /\ Sound(q)
      BY <1>1, <1>2, <3>1 DEF StopInv, ResultInv
    <3>3. q.at # "idle" => q.run \in Runs /\ q.run # cond[k].run
      BY <1>1, <2>2, <3>1, <3>2, TestRunsAssumption DEF Apart, Placed
    <3>4. q.at # "idle" => row'[q.run] = row[q.run]
      BY <3>3
    <3>5. Sound(q)'
      <4>1. /\ q.at \in CaseStages => q.case \in Cases
            /\ q.at = "error" => q.open # {}
        BY <3>2, PlacedParts
      <4> QED BY <3>2, <3>3, <3>4, <4>1, SoundStays
    <3> QED BY <1>3, <2>2, <3>1, <3>5 DEF Sound
  <2> QED BY <2>1, <2>2
<1> QED BY <1>4, <1>5, <1>6

\* The same for both invariants: what a commit of a conductor must show.
LEMMA StepKept ==
  ASSUME StopInv, NEW k \in Conductors, NEW p \in Place, cond' = [cond EXCEPT ![k] = p],
         p.run \in {cond[k].run, None},
         run' \in [Runs -> RunRow], row' \in TableOf(CaseRow), task' \in TableOf(TaskRow),
         opened' \in TableOf(0..MaxSessions), overdue' \subseteq Runs \X Cases,
         given' = given, late' = late, checking' = checking, meetings' = meetings,
         TasksGoOn, RunsGoOn,
         \A r \in Runs : run[r].status = "none" => run'[r].status = "none",
         \A r \in Runs : r # cond[k].run => row'[r] = row[r],
         \A r \in Runs, c \in Cases : r = cond[k].run =>
           /\ row'[r][c].task => row[r][c].task \/ task'[r][c].state # "none"
           /\ row'[r][c].result = "passed" => \/ row[r][c].result = "passed"
                                              \/ Met(task'[r][c]),
         \A r \in Runs : run'[r].status = "passed" =>
           run[r].status = "passed" \/ \A c \in Cases : Met(task'[r][c]),
         Placed(p)',
         meetings = 0 =>
           /\ Sound(p)'
           /\ \A r \in Runs, c \in Cases :
                r = cond[k].run /\ row'[r][c].result # "none" /\ row'[r][c].task =>
                  \/ row[r][c].result # "none" /\ row[r][c].task
                  \/ Halted(task'[r][c])
  PROVE  StopInv'
<1>1. ResultInv
  BY DEF StopInv
<1>2. cond' \in [Conductors -> Place] /\ \A j \in Conductors : Placed(cond[j])'
  BY <1>1, ConductorMoves
<1>3. Shapes'
  BY <1>1, <1>2, Zenon DEF ResultInv, Shapes
<1>4. \A r \in checking' : run'[r].status = "none"
  BY <1>1 DEF ResultInv, Tables, Shapes
<1>5. \A r \in Runs, c \in Cases :
        /\ row'[r][c].task => row[r][c].task \/ task'[r][c].state # "none"
        /\ row'[r][c].result = "passed" => \/ row[r][c].result = "passed"
                                           \/ Met(task'[r][c])
  OBVIOUS
<1>6. ResultInv'
  BY <1>1, <1>2, <1>3, <1>4, <1>5, ResultKept
<1> QED BY <1>6, StopKept

\* Nothing changes but where the conductor is.
LEMMA QuietStepKept ==
  ASSUME StopInv, NEW k \in Conductors, NEW p \in Place, cond' = [cond EXCEPT ![k] = p],
         p.run \in {cond[k].run, None},
         run' = run, row' = row, task' = task, opened' = opened, overdue' = overdue,
         given' = given, late' = late, checking' = checking, meetings' = meetings,
         Placed(p), meetings = 0 => Sound(p)
  PROVE  StopInv'
<1>1. ResultInv /\ Shapes
  BY DEF StopInv, ResultInv
<1>2. TasksGoOn /\ task' \in TableOf(TaskRow)
  BY <1>1, TasksStay
<1>3. RunsGoOn
  BY <1>1, RunsStay DEF ResultInv
<1>4. Placed(p)'
  BY DEF Placed
<1>5. meetings = 0 => Sound(p)'
  BY DEF Sound
<1>6. /\ run' \in [Runs -> RunRow] /\ row' \in TableOf(CaseRow)
      /\ opened' \in TableOf(0..MaxSessions) /\ overdue' \subseteq Runs \X Cases
  BY <1>1 DEF Shapes
<1>7. \A r \in Runs, c \in Cases : r = cond[k].run =>
        /\ row'[r][c].task => row[r][c].task \/ task'[r][c].state # "none"
        /\ row'[r][c].result = "passed" => \/ row[r][c].result = "passed"
                                           \/ Met(task'[r][c])
  OBVIOUS
<1>8. meetings = 0 =>
        \A r \in Runs, c \in Cases :
          r = cond[k].run /\ row'[r][c].result # "none" /\ row'[r][c].task =>
            \/ row[r][c].result # "none" /\ row[r][c].task
            \/ Halted(task'[r][c])
  OBVIOUS
<1>9. /\ \A r \in Runs : run[r].status = "none" => run'[r].status = "none"
      /\ \A r \in Runs : r # cond[k].run => row'[r] = row[r]
      /\ \A r \in Runs : run'[r].status = "passed" =>
           run[r].status = "passed" \/ \A c \in Cases : Met(task'[r][c])
  OBVIOUS
<1> QED BY <1>2, <1>3, <1>4, <1>5, <1>6, <1>7, <1>8, <1>9, StepKept

\* Going idle is always possible.
LEMMA IdlePlaced == Idle \in Place /\ Placed(Idle) /\ Sound(Idle) /\ Idle.run = None
BY IdleIsPlace DEF Idle, Placed, Sound

LEMMA IdleAfter == Placed(Idle)' /\ Sound(Idle)'
BY DEF Idle, Placed, Sound

\* What a conductor at work knows.
LEMMA AtRun ==
  ASSUME StopInv, NEW k \in Conductors, cond[k].at # "idle"
  PROVE  /\ cond[k] \in Place /\ Placed(cond[k])
         /\ cond[k].run \in Runs /\ run[cond[k].run].status # "none" /\ ~run[cond[k].run].purged
         /\ meetings = 0 => Sound(cond[k])
BY DEF StopInv, ResultInv, Shapes, Placed

-----------------------------------------------------------------------------
(* The initial states, and the steps of others than conductors. *)

LEMMA InitialStop == Init => StopInv
<1> SUFFICES ASSUME Init PROVE StopInv OBVIOUS
<1>1. Shapes
  BY InitialShapes
<1>2. \A k \in Conductors : cond[k] = Idle
  BY DEF Init
<1>3. \A r \in Runs : run[r].status = "none" /\ ~run[r].purged
  BY DEF Init
<1>4. \A r \in Runs, c \in Cases : /\ row[r][c].result = "none" /\ ~row[r][c].task
                                  /\ task[r][c].state = "none" /\ ~task[r][c].cancel
  BY DEF Init, NoTask
<1>5. Tables
  BY <1>3, <1>4 DEF Tables, Init
<1>6. PassedIsEarned
  BY <1>3 DEF PassedIsEarned
<1>7. \A k \in Conductors : Placed(cond[k]) /\ Sound(cond[k])
  BY <1>2, IdlePlaced
<1>8. Apart
  BY <1>2 DEF Apart, Idle
<1>9. ClosedIsHalted
  BY <1>4 DEF ClosedIsHalted
<1> QED BY <1>1, <1>5, <1>6, <1>7, <1>8, <1>9 DEF StopInv, ResultInv

\* A step of others that writes no row.
LEMMA AsideKept ==
  ASSUME StopInv, Shapes', TasksGoOn, RunsGoOn, row' = row, cond' = cond, meetings' = meetings,
         \A r \in checking' : run'[r].status = "none",
         \A r \in Runs : run'[r].status = "passed" => run[r].status = "passed"
  PROVE  StopInv'
<1>1. ResultInv
  BY DEF StopInv
<1>2. \A j \in Conductors : Placed(cond[j])'
  BY <1>1, ConductorsStay
<1>3. \A r \in Runs, c \in Cases :
        /\ row'[r][c].task => row[r][c].task \/ task'[r][c].state # "none"
        /\ row'[r][c].result = "passed" => \/ row[r][c].result = "passed"
                                           \/ Met(task'[r][c])
  OBVIOUS
<1>4. ResultInv'
  BY <1>1, <1>2, <1>3, ResultKept
<1> QED BY <1>4, StopKeptAside

LEMMA ServiceKeeps ==
  ASSUME StopInv, NEW r \in Runs, Check(r) \/ Accept(r) \/ DeadlinePasses(r)
  PROVE  StopInv'
<1>1. Shapes /\ Tables /\ ResultInv
  BY DEF StopInv, ResultInv
<1>2. TasksGoOn /\ task' \in TableOf(TaskRow)
  BY <1>1, TasksStay DEF Check, Accept, DeadlinePasses
<1>3. CASE Check(r) \/ DeadlinePasses(r)
  <2>1. Shapes'
    BY <1>1, <1>3 DEF Check, DeadlinePasses, Shapes
  <2>2. RunsGoOn
    BY <1>1, <1>3, RunsStay DEF Check, DeadlinePasses
  <2>3. \A q \in checking' : run'[q].status = "none"
    BY <1>1, <1>3 DEF Check, DeadlinePasses, Tables
  <2> QED BY <1>2, <1>3, <2>1, <2>2, <2>3, AsideKept DEF Check, DeadlinePasses
<1>4. CASE Accept(r)
  <2>1. run[r].status = "none" /\ run[r] \in RunRow
    BY <1>1, <1>4 DEF Accept, Tables, Shapes
  <2>2. PICK y : y = [run[r] EXCEPT !.status = "accepted"] OBVIOUS
  <2>3. y \in RunRow /\ y.status = "accepted" /\ y.purged = run[r].purged
    BY <2>1, <2>2 DEF RunRow, Statuses, Active
  <2>4. run' = [run EXCEPT ![r] = y]
    BY <1>4, <2>2 DEF Accept
  <2>5. /\ run' \in [Runs -> RunRow]
        /\ \A q \in Runs : run'[q] = IF q = r THEN y ELSE run[q]
    BY <1>1, <2>3, <2>4 DEF Shapes
  <2>6. ~run[r].purged
    BY <1>1, <2>1 DEF Tables, Final
  <2>7. RunsGoOn
    BY <1>1, <2>3, <2>5, <2>6 DEF RunsGoOn, Tables
  <2>8. \A q \in checking' : run'[q].status = "none"
    BY <1>1, <1>4, <2>5 DEF Accept, Tables, Shapes
  <2>9. Shapes'
    BY <1>1, <1>2, <1>4, <2>5 DEF Accept, Shapes
  <2>10. \A q \in Runs : run'[q].status = "passed" => run[q].status = "passed"
    BY <2>3, <2>5
  <2> QED BY <1>2, <1>4, <2>7, <2>8, <2>9, <2>10, AsideKept DEF Accept
<1> QED BY <1>3, <1>4

LEMMA OthersKeep ==
  ASSUME StopInv, NEW r \in Runs, NEW c \in Cases, Answer(r, c) \/ Turn(r, c) \/ WaitGetsLong(r, c)
  PROVE  StopInv'
<1>1. Shapes /\ Tables /\ ResultInv
  BY DEF StopInv, ResultInv
<1>2. /\ run' = run /\ row' = row /\ cond' = cond /\ meetings' = meetings
      /\ checking' = checking /\ opened' = opened /\ late' = late
  BY DEF Answer, Turn, WaitGetsLong
<1>3. TasksGoOn /\ task' \in TableOf(TaskRow)
  BY <1>1, TasksStay, TurnGoesOn DEF Answer, WaitGetsLong
<1>4. given' \subseteq Runs \X Cases /\ overdue' \subseteq Runs \X Cases
  <2>1. given' = given \/ given' = given \cup {<<r, c>>}
    BY Zenon DEF Answer, Turn, WaitGetsLong
  <2>2. overdue' = overdue \/ overdue' = overdue \cup {<<r, c>>}
    BY Zenon DEF Answer, Turn, WaitGetsLong
  <2> QED BY <1>1, <2>1, <2>2 DEF Shapes
<1>5. Shapes'
  BY <1>1, <1>2, <1>3, <1>4 DEF Shapes
<1>6. RunsGoOn
  BY <1>1, <1>2, RunsStay
<1>7. \A q \in checking' : run'[q].status = "none"
  BY <1>1, <1>2 DEF Tables
<1> QED BY <1>2, <1>3, <1>5, <1>6, <1>7, AsideKept

\* A purge takes the rows and tasks of a run that is over and that nobody is at.
LEMMA PurgeKeeps ==
  ASSUME StopInv, NEW r \in Runs, Purge(r)
  PROVE  StopInv'
<1> DEFINE gone(c) == IF row[r][c].task /\ task[r][c].session = row[r][c].session THEN NoTask ELSE task[r][c]
           left(c) == [row[r][c] EXCEPT !.session = 0, !.task = FALSE]
<1>1. Shapes /\ Tables /\ ResultInv /\ PassedIsEarned
  BY DEF StopInv, ResultInv
<1>2. /\ opened' = opened /\ given' = given /\ late' = late /\ overdue' = overdue
      /\ checking' = checking /\ cond' = cond /\ meetings' = meetings
  BY DEF Purge
<1>3. run[r].status \in Final /\ \A k \in Conductors : cond[k].run # r
  BY DEF Purge
<1>4. PICK y : y = [run[r] EXCEPT !.purged = TRUE] OBVIOUS
<1>5. y \in RunRow /\ y.status = run[r].status /\ y.purged
  BY <1>1, <1>4 DEF RunRow, Shapes
<1>6. run' = [run EXCEPT ![r] = y]
  BY <1>4 DEF Purge
<1>7. /\ run' \in [Runs -> RunRow] /\ run'[r] = y
      /\ \A q \in Runs : q # r => run'[q] = run[q]
  BY <1>1, <1>5, <1>6 DEF Shapes
<1>8. \A c \in Cases : gone(c) \in TaskRow
  BY <1>1, NoTaskIsRow DEF Shapes, TableOf
<1>9. \A c \in Cases : gone(c).state = "none" => ~gone(c).cancel
  BY <1>1 DEF Tables, NoTask
<1>10. task' = [task EXCEPT ![r] = [c \in Cases |-> gone(c)]]
  BY DEF Purge
<1>11. \A c \in Cases : left(c) \in CaseRow /\ ~left(c).task
  <2> SUFFICES ASSUME NEW c \in Cases PROVE left(c) \in CaseRow /\ ~left(c).task
    OBVIOUS
  <2>1. row[r][c] \in CaseRow
    BY <1>1 DEF Shapes, TableOf
  <2>2. 0 \in 0..MaxSessions
    BY TestRunsAssumption
  <2>3. left(c) \in CaseRow
    BY <2>1, <2>2 DEF CaseRow
  <2>4. left(c).task = FALSE
    BY <2>1 DEF CaseRow
  <2> QED BY <2>3, <2>4
<1>12. row' = [row EXCEPT ![r] = [c \in Cases |-> left(c)]]
  BY DEF Purge
<1> HIDE DEF gone, left
<1>13. /\ task' \in TableOf(TaskRow) /\ \A c \in Cases : task'[r][c] = gone(c)
       /\ \A q \in Runs : q # r => task'[q] = task[q]
  BY <1>1, <1>8, <1>10 DEF Shapes, TableOf
<1>14. /\ row' \in TableOf(CaseRow) /\ \A c \in Cases : row'[r][c] = left(c)
       /\ \A q \in Runs : q # r => row'[q] = row[q]
  BY <1>1, <1>11, <1>12 DEF Shapes, TableOf
<1>15. Shapes'
  BY <1>1, <1>2, <1>7, <1>13, <1>14, Zenon DEF Shapes
<1>16. \A q \in checking' : run'[q].status = "none"
  BY <1>1, <1>2, <1>3, <1>7 DEF Tables, Shapes, Final
<1>17. \A q \in Runs : run'[q].purged => run'[q].status \in Final
  BY <1>1, <1>3, <1>5, <1>7 DEF Tables
<1>18. ASSUME NEW q \in Runs, NEW c \in Cases
       PROVE  /\ task'[q][c].state = "none" => ~task'[q][c].cancel
              /\ row'[q][c].task => task'[q][c].state # "none"
              /\ row'[q][c].result = "passed" /\ ~run'[q].purged => Met(task'[q][c])
  <2>1. CASE q = r
    <3>1. run'[q].purged
      BY <1>5, <1>7, <2>1
    <3>2. ~row'[q][c].task
      BY <1>11, <1>14, <2>1
    <3>3. task'[q][c].state = "none" => ~task'[q][c].cancel
      BY <1>9, <1>13, <2>1
    <3> QED BY <3>1, <3>2, <3>3
  <2>2. CASE q # r
    BY <1>1, <1>7, <1>13, <1>14, <2>2 DEF Tables
  <2> QED BY <2>1, <2>2
<1>19. Tables'
  BY <1>16, <1>17, <1>18 DEF Tables
<1>20. PassedIsEarned'
  <2>1. ASSUME NEW q \in Runs, run'[q].status = "passed", ~run'[q].purged
        PROVE  \A c \in Cases : Met(task'[q][c])
    <3>1. q # r
      BY <1>5, <1>7, <2>1
    <3> QED BY <1>1, <1>7, <1>13, <2>1, <3>1 DEF PassedIsEarned
  <2> QED BY <2>1 DEF PassedIsEarned
<1>21. ASSUME NEW k \in Conductors
       PROVE  Placed(cond[k])' /\ (Sound(cond[k]) => Sound(cond[k])')
  <2>1. PICK p : p = cond[k] OBVIOUS
  <2>2. Placed(p) /\ p.run # r
    BY <1>3, <2>1 DEF StopInv, ResultInv
  <2>3. CASE p.at = "idle"
    <3>1. Placed(p)' /\ Sound(p)'
      BY <2>2, <2>3 DEF Placed, Sound
    <3> QED BY <1>2, <2>1, <3>1 DEF Placed, Sound
  <2>4. CASE p.at # "idle"
    <3>1. p.run \in Runs
      BY <2>2, <2>4 DEF Placed
    <3>2. run'[p.run] = run[p.run] /\ task'[p.run] = task[p.run] /\ row'[p.run] = row[p.run]
      BY <1>7, <1>13, <1>14, <2>2, <3>1
    <3>3. Placed(p)'
      BY <2>2, <3>2 DEF Placed
    <3>4. Sound(p) => Sound(p)'
      BY <3>2 DEF Sound
    <3>5. Placed(cond[k])'
      BY <1>2, <2>1, <3>3 DEF Placed
    <3>6. Sound(cond[k]) => Sound(cond[k])'
      BY <1>2, <2>1, <3>4 DEF Sound
    <3> QED BY <3>5, <3>6
  <2> QED BY <2>3, <2>4
<1>22. ResultInv'
  BY <1>2, <1>15, <1>19, <1>20, <1>21 DEF ResultInv
<1>23. ASSUME meetings = 0
       PROVE  Apart' /\ ClosedIsHalted' /\ \A k \in Conductors : Sound(cond[k])'
  <2>1. Apart /\ ClosedIsHalted /\ \A k \in Conductors : Sound(cond[k])
    BY <1>23 DEF StopInv
  <2>2. Apart'
    BY <1>2, <2>1 DEF Apart
  <2>3. ASSUME NEW q \in Runs, NEW c \in Cases, row'[q][c].result # "none", row'[q][c].task
        PROVE  Halted(task'[q][c])
    <3>1. q # r
      BY <1>11, <1>14, <2>3
    <3>2. row'[q] = row[q] /\ task'[q] = task[q]
      BY <1>13, <1>14, <3>1
    <3> QED BY <2>1, <2>3, <3>2 DEF ClosedIsHalted
  <2> QED BY <1>21, <2>1, <2>2, <2>3 DEF ClosedIsHalted
<1> QED BY <1>2, <1>22, <1>23 DEF StopInv

-----------------------------------------------------------------------------
(* The steps of a conductor. *)

\* Nobody else is there, or the two have met.
LEMMA ReadRunKeeps ==
  ASSUME StopInv, NEW k \in Conductors, NEW r \in Runs, ReadRun(k, r)
  PROVE  StopInv'
<1>1. Shapes /\ Tables /\ ResultInv
  BY DEF StopInv, ResultInv
<1>2. /\ run' = run /\ row' = row /\ task' = task /\ opened' = opened /\ given' = given
      /\ late' = late /\ overdue' = overdue /\ checking' = checking
  BY DEF ReadRun
<1>3. run[r].status \in Active /\ run[r] \in RunRow /\ cond[k].at = "idle"
  BY <1>1 DEF ReadRun, At, Shapes
<1>4. ~run[r].purged /\ run[r].status # "none"
  BY <1>1, <1>3 DEF Tables, Active, Final
<1>5. PICK a : a = IF run[r].status = "accepted" THEN "fresh" ELSE "account" OBVIOUS
<1>6. a \in {"fresh", "account"}
  BY <1>5
<1>9. PICK p : p = [Idle EXCEPT !.run = r, !.spent = run[r].spent, !.at = a] OBVIOUS
<1>10. /\ p \in Place /\ p.at = a /\ p.run = r /\ p.booked = {}
       /\ ~p.passed /\ ~p.human
  <2>1. Idle \in Place /\ run[r].spent \in Nat
    BY <1>3, IdleIsPlace DEF RunRow
  <2>2. p \in Place
    BY <1>6, <1>9, <2>1 DEF Place, Stages
  <2>3. p.at = a /\ p.run = r /\ p.booked = {}
    BY <1>9 DEF Idle
  <2>4. p.passed = FALSE
    BY <1>9 DEF Idle
  <2>5. p.human = FALSE
    BY <1>9 DEF Idle
  <2> QED BY <2>2, <2>3, <2>4, <2>5
<1>11. cond' = [cond EXCEPT ![k] = p]
  BY <1>5, <1>9 DEF ReadRun
<1>12. TasksGoOn /\ task' \in TableOf(TaskRow)
  BY <1>1, <1>2, TasksStay
<1>13. RunsGoOn
  BY <1>1, <1>2, RunsStay
<1>14. Placed(p)'
  BY <1>2, <1>4, <1>6, <1>10 DEF Placed, CaseStages, KnownStages
<1>15. cond' \in [Conductors -> Place] /\ \A j \in Conductors : Placed(cond[j])'
  BY <1>1, <1>10, <1>11, <1>12, <1>13, <1>14, ConductorMoves
<1>16. meetings' \in Nat /\ (meetings' = 0 => meetings = 0)
  <2>1. meetings \in Nat /\ (meetings' = meetings \/ meetings' = meetings + 1)
    BY <1>1 DEF ReadRun, Shapes
  <2> QED BY <2>1
<1>17. Shapes'
  BY <1>1, <1>2, <1>12, <1>15, <1>16, Zenon DEF Shapes
<1>18. \A q \in checking' : run'[q].status = "none"
  BY <1>1, <1>2 DEF Tables
<1>19. /\ \A q \in Runs, c \in Cases :
            /\ row'[q][c].task => row[q][c].task \/ task'[q][c].state # "none"
            /\ row'[q][c].result = "passed" => \/ row[q][c].result = "passed"
                                               \/ Met(task'[q][c])
       /\ \A q \in Runs : run'[q].status = "passed" =>
            run[q].status = "passed" \/ \A c \in Cases : Met(task'[q][c])
  BY <1>2
<1>20. ResultInv'
  BY <1>1, <1>12, <1>13, <1>15, <1>17, <1>18, <1>19, ResultKept
<1>21. ASSUME meetings' = 0
       PROVE  Apart' /\ ClosedIsHalted' /\ \A j \in Conductors : Sound(cond[j])'
  <2>1. Apart /\ ClosedIsHalted /\ \A j \in Conductors : Sound(cond[j])
    BY <1>16, <1>21 DEF StopInv
  <2>2. \A j \in Conductors \ {k} : cond[j].run # r
    BY <1>1, <1>21 DEF ReadRun, Shapes
  <2>3. \A j \in Conductors : cond'[j] = IF j = k THEN p ELSE cond[j]
    BY <1>1, <1>11 DEF Shapes
  <2>4. Apart'
    BY <1>10, <2>1, <2>2, <2>3 DEF Apart
  <2>5. ClosedIsHalted'
    BY <1>2, <2>1 DEF ClosedIsHalted
  <2>6. ASSUME NEW j \in Conductors PROVE Sound(cond[j])'
    <3>1. CASE j = k
      <4>1. cond'[j] = p
        BY <2>3, <3>1
      <4>2. Sound(p)'
        BY <1>6, <1>10 DEF Sound
      <4> QED BY <4>1, <4>2 DEF Sound
    <3>2. CASE j # k
      BY <1>2, <2>1, <2>3, <3>2 DEF Sound
    <3> QED BY <3>1, <3>2
  <2> QED BY <2>4, <2>5, <2>6
<1> QED BY <1>20, <1>21 DEF StopInv

LEMMA RestKeeps ==
  ASSUME StopInv, NEW k \in Conductors, Rest(k),
         run' = run, row' = row, task' = task, opened' = opened, overdue' = overdue,
         given' = given, late' = late, checking' = checking, meetings' = meetings
  PROVE  StopInv'
<1>1. cond' = [cond EXCEPT ![k] = Idle]
  BY DEF Rest
<1> QED BY <1>1, IdlePlaced, QuietStepKept

LEMMA CrashKeeps ==
  ASSUME StopInv, NEW k \in Conductors, Crash(k)
  PROVE  StopInv'
BY RestKeeps DEF Crash

\* The status of the run a conductor is at is written, to anything but "passed".
LEMMA StatusWritten ==
  ASSUME StopInv, NEW k \in Conductors, cond[k].at # "idle", NEW u \in Statuses \ {"none", "passed"},
         run' = [run EXCEPT ![cond[k].run].status = u]
  PROVE  /\ run' \in [Runs -> RunRow] /\ RunsGoOn
         /\ \A r \in Runs : run[r].status = "none" => run'[r].status = "none"
         /\ \A r \in Runs : run'[r].status = "passed" => run[r].status = "passed"
<1> DEFINE r == cond[k].run
<1>1. Shapes /\ Tables
  BY DEF StopInv, ResultInv
<1>2. r \in Runs /\ run[r].status # "none" /\ ~run[r].purged
  BY AtRun
<1>3. run[r] \in RunRow
  BY <1>1, <1>2 DEF Shapes
<1>4. PICK y : y = [run[r] EXCEPT !.status = u] OBVIOUS
<1>5. y \in RunRow /\ y.status = u /\ y.purged = run[r].purged
  BY <1>3, <1>4 DEF RunRow
<1>6. run' = [run EXCEPT ![r] = y]
  BY <1>4
<1>7. run' \in [Runs -> RunRow] /\ \A q \in Runs : run'[q] = IF q = r THEN y ELSE run[q]
  BY <1>1, <1>5, <1>6 DEF Shapes
<1>8. RunsGoOn
  BY <1>1, <1>2, <1>5, <1>7 DEF RunsGoOn, Tables
<1> QED BY <1>2, <1>5, <1>7, <1>8

LEMMA UnpairedKeeps ==
  ASSUME StopInv, NEW k \in Conductors, Unpaired(k)
  PROVE  StopInv'
<1>1. Shapes
  BY DEF StopInv, ResultInv
<1>2. cond[k].at # "idle"
  BY DEF Unpaired
<1>3. /\ row' = row /\ task' = task /\ opened' = opened /\ overdue' = overdue /\ given' = given
      /\ late' = late /\ checking' = checking /\ meetings' = meetings
  BY DEF Unpaired
<1>4. cond' = [cond EXCEPT ![k] = Idle]
  BY DEF Unpaired, Rest
<1>5. "error" \in Statuses \ {"none", "passed"}
  BY DEF Statuses, Final
<1>6. run' = [run EXCEPT ![cond[k].run].status = "error"]
  BY DEF Unpaired
<1>7. /\ run' \in [Runs -> RunRow] /\ RunsGoOn
      /\ \A r \in Runs : run[r].status = "none" => run'[r].status = "none"
      /\ \A r \in Runs : run'[r].status = "passed" => run[r].status = "passed"
  BY <1>2, <1>5, <1>6, StatusWritten
<1>8. TasksGoOn /\ task' \in TableOf(TaskRow)
  BY <1>1, <1>3, TasksStay
<1>9. /\ row' \in TableOf(CaseRow) /\ opened' \in TableOf(0..MaxSessions)
      /\ overdue' \subseteq Runs \X Cases
  BY <1>1, <1>3 DEF Shapes
<1> QED BY <1>3, <1>4, <1>7, <1>8, <1>9, IdleAfter, IdlePlaced, StepKept

\* Going to another stage.
LEMMA Going ==
  ASSUME NEW q \in Place, NEW a \in Stages, NEW p, p = [q EXCEPT !.at = a]
  PROVE  /\ p \in Place /\ p.at = a
         /\ p.run = q.run /\ p.case = q.case /\ p.open = q.open /\ p.booked = q.booked
         /\ p.human = q.human /\ p.passed = q.passed
BY DEF Place

LEMMA GoingPlaced ==
  ASSUME NEW q \in Place, Placed(q), q.at # "idle", NEW a \in Stages \ {"idle"},
         NEW p, p = [q EXCEPT !.at = a],
         a \in CaseStages => q.case \in Cases,
         a \in KnownStages => task[q.run][q.case].state # "none",
         a = "error" => q.open # {}, q.human => a \in {"unwait", "record"}
  PROVE  Placed(p)
<1>1. /\ p.at = a /\ p.run = q.run /\ p.case = q.case /\ p.open = q.open /\ p.booked = q.booked
      /\ p.human = q.human /\ p.passed = q.passed
  BY Going
<1>2. /\ q.run \in Runs /\ run[q.run].status # "none" /\ ~run[q.run].purged
      /\ \A c \in q.booked : task[q.run][c].state # "none"
      /\ q.passed => \A c \in Cases : Met(task[q.run][c])
  BY DEF Placed
<1> QED BY <1>1, <1>2 DEF Placed

\* The run is written as running, whatever it has become.
LEMMA BeginKeeps ==
  ASSUME StopInv, NEW k \in Conductors, Begin(k)
  PROVE  StopInv'
<1>1. Shapes /\ ResultInv /\ Tables
  BY DEF StopInv, ResultInv
<1>2. cond[k].at = "fresh"
  BY DEF Begin, At
<1>3. cond[k] \in Place /\ Placed(cond[k])
  BY <1>2, AtRun
<1>4. /\ row' = row /\ task' = task /\ opened' = opened /\ overdue' = overdue /\ given' = given
      /\ checking' = checking /\ meetings' = meetings
  BY DEF Begin
<1>5. "running" \in Statuses \ {"none", "passed"}
  BY DEF Statuses, Active
<1>6. run' = [run EXCEPT ![cond[k].run].status = "running"]
  BY DEF Begin
<1>7. /\ run' \in [Runs -> RunRow] /\ RunsGoOn
      /\ \A r \in Runs : run[r].status = "none" => run'[r].status = "none"
      /\ \A r \in Runs : run'[r].status = "passed" => run[r].status = "passed"
  BY <1>2, <1>5, <1>6, StatusWritten
<1>8. TasksGoOn /\ task' \in TableOf(TaskRow)
  BY <1>1, <1>4, TasksStay
<1>9. PICK p : p = [cond[k] EXCEPT !.at = "begun"] OBVIOUS
<1>10. cond' = [cond EXCEPT ![k] = p]
  BY <1>9 DEF Begin, Go
<1>11. "begun" \in Stages \ {"idle"} /\ "begun" \notin CaseStages /\ "begun" \notin KnownStages
  BY DEF Stages, CaseStages, KnownStages
<1>12. p \in Place /\ p.at = "begun" /\ p.run = cond[k].run
  BY <1>3, <1>9, <1>11, Going
<1>13. ~cond[k].human
  BY <1>2, <1>3 DEF Placed
<1>14. Placed(p)
  BY <1>2, <1>3, <1>9, <1>11, <1>13, GoingPlaced
<1>15. Placed(p)'
  BY <1>7, <1>8, <1>12, <1>14, PlaceStays
<1>16. Sound(p)'
  BY <1>12 DEF Sound
<1>17. cond' \in [Conductors -> Place] /\ \A j \in Conductors : Placed(cond[j])'
  BY <1>1, <1>7, <1>8, <1>10, <1>12, <1>15, ConductorMoves
<1>18. late' \subseteq Runs
  BY <1>1 DEF Begin, Shapes
<1>19. Shapes'
  BY <1>1, <1>4, <1>7, <1>8, <1>17, <1>18, Zenon DEF Shapes
<1>20. \A r \in checking' : run'[r].status = "none"
  BY <1>1, <1>4, <1>7 DEF Tables, Shapes
<1>21. ResultInv'
  BY <1>1, <1>4, <1>7, <1>8, <1>17, <1>19, <1>20, ResultKept
<1> QED BY <1>4, <1>8, <1>10, <1>12, <1>16, <1>21, StopKept

LEMMA ReadAgainKeeps ==
  ASSUME StopInv, NEW k \in Conductors, ReadAgain(k)
  PROVE  StopInv'
<1>1. cond[k].at = "begun"
  BY DEF ReadAgain, At
<1>2. cond[k] \in Place /\ Placed(cond[k]) /\ cond[k].run \in Runs
  BY <1>1, AtRun
<1>3. PICK g : g = [cond[k] EXCEPT !.at = "cases"] OBVIOUS
<1>4. PICK p : p = [g EXCEPT !.spent = run[cond[k].run].spent] OBVIOUS
<1>5. cond' = [cond EXCEPT ![k] = p]
  BY <1>3, <1>4, Zenon DEF ReadAgain
<1>6. "cases" \in Stages \ {"idle"} /\ "cases" \notin CaseStages /\ "cases" \notin KnownStages
  BY DEF Stages, CaseStages, KnownStages
<1>7. g \in Place /\ g.at = "cases" /\ g.run = cond[k].run
  BY <1>2, <1>3, <1>6, Going
<1>8. ~cond[k].human
  BY <1>1, <1>2 DEF Placed
<1>9. Placed(g)
  BY <1>1, <1>2, <1>3, <1>6, <1>8, GoingPlaced
<1>10. run[cond[k].run].spent \in Nat
  <2>1. run[cond[k].run] \in RunRow
    BY <1>2 DEF StopInv, ResultInv, Shapes
  <2> QED BY <2>1 DEF RunRow
<1>11. /\ p \in Place /\ p.at = g.at /\ p.run = g.run /\ p.case = g.case
       /\ p.booked = g.booked /\ p.open = g.open
  BY <1>4, <1>7, <1>10 DEF Place
<1>12. p.passed = g.passed
  BY <1>4, <1>7 DEF Place
<1>13. p.human = g.human
  BY <1>4, <1>7 DEF Place
<1>14. Placed(p)
  BY <1>7, <1>9, <1>11, <1>12, <1>13 DEF Placed
<1>15. Sound(p)
  BY <1>7, <1>11 DEF Sound
<1> QED BY <1>5, <1>7, <1>11, <1>14, <1>15, QuietStepKept DEF ReadAgain

\* What a conductor notes of the cases it has read, one field after the other.
LEMMA PlaceEdits ==
  ASSUME NEW q \in Place, NEW a \in Stages, NEW o \in SUBSET Cases, NEW d \in Cases \cup {0},
         NEW w \in BOOLEAN, NEW b \in SUBSET Cases, NEW z \in BOOLEAN,
         NEW p, p = [q EXCEPT !.at = a, !.open = o, !.case = d, !.waits = w, !.booked = b, !.passed = z]
  PROVE  p \in Place
<1>1. PICK q1 : q1 = [q EXCEPT !.at = a] OBVIOUS
<1>2. PICK q2 : q2 = [q1 EXCEPT !.open = o] OBVIOUS
<1>3. PICK q3 : q3 = [q2 EXCEPT !.case = d] OBVIOUS
<1>4. PICK q4 : q4 = [q3 EXCEPT !.waits = w] OBVIOUS
<1>5. PICK q5 : q5 = [q4 EXCEPT !.booked = b] OBVIOUS
<1>6. q1 \in Place BY <1>1 DEF Place
<1>7. q2 \in Place BY <1>2, <1>6 DEF Place
<1>8. q3 \in Place BY <1>3, <1>7 DEF Place
<1>9. q4 \in Place BY <1>4, <1>8 DEF Place
<1>10. q5 \in Place BY <1>5, <1>9 DEF Place
<1>11. p = [q5 EXCEPT !.passed = z]
  BY <1>1, <1>2, <1>3, <1>4, <1>5, Zenon
<1> QED BY <1>10, <1>11 DEF Place

LEMMA ReadCasesKeeps ==
  ASSUME StopInv, NEW k \in Conductors, ReadCases(k)
  PROVE  StopInv'
<1> DEFINE r == cond[k].run
           open == OpenCases(r)
           c == Min(open)
<1>1. Shapes /\ Tables
  BY DEF StopInv, ResultInv
<1>2. cond[k].at \in {"account", "cases"}
  BY DEF ReadCases
<1>3. /\ cond[k] \in Place /\ r \in Runs /\ run[r].status # "none" /\ ~run[r].purged
  BY <1>2, AtRun
<1>4. open \subseteq Cases
  BY DEF OpenCases
<1>5. open # {} => c \in open /\ c \in Cases
  BY <1>4, LeastCase
<1>6. PICK p : p = [cond[k] EXCEPT !.at = Decide(k), !.open = open,
                            !.case = IF open = {} THEN 0 ELSE c,
                            !.waits = IF open = {} THEN FALSE ELSE row[r][c].waiting,
                            !.booked = {d \in open : row[r][d].task},
                            !.passed = AllPassed(r)]
  OBVIOUS
<1>7. cond' = [cond EXCEPT ![k] = p]
  BY <1>6 DEF ReadCases
<1>8. /\ Decide(k) \in {"timeout", "conclude", "follow", "session"}
      /\ Decide(k) \in {"follow", "session"} => open # {}
      /\ Decide(k) = "follow" => row[r][c].task
  BY DEF Decide
<1>9. (IF open = {} THEN FALSE ELSE row[r][c].waiting) \in BOOLEAN
  <2>1. CASE open = {}
    BY <2>1
  <2>2. CASE open # {}
    <3>1. row[r][c] \in CaseRow
      BY <1>1, <1>3, <1>5, <2>2 DEF Shapes, TableOf
    <3> QED BY <2>2, <3>1 DEF CaseRow
  <2> QED BY <2>1, <2>2
<1>10. AllPassed(r) \in BOOLEAN
  BY DEF AllPassed
<1>11. (IF open = {} THEN 0 ELSE c) \in Cases \cup {0}
  BY <1>5
<1> HIDE DEF open, c
<1>12. p \in Place
  <2>1. Decide(k) \in Stages
    BY <1>8 DEF Stages
  <2>2. {d \in open : row[r][d].task} \in SUBSET Cases /\ open \in SUBSET Cases
    BY <1>4
  <2> QED BY ZenonT(40), <1>3, <1>6, <1>9, <1>10, <1>11, <2>1, <2>2, PlaceEdits
<1>13. /\ p.at = Decide(k) /\ p.run = r /\ p.open = open
       /\ p.case = IF open = {} THEN 0 ELSE c
       /\ p.booked = {d \in open : row[r][d].task}
  BY <1>3, <1>6 DEF Place
<1>14. p.passed = AllPassed(r)
  BY <1>3, <1>6 DEF Place
<1>19. ~p.human
  <2>1. p.human = cond[k].human
    BY <1>3, <1>6 DEF Place
  <2>2. Placed(cond[k])
    BY <1>2, AtRun
  <2> QED BY <1>2, <2>1, <2>2 DEF Placed
<1>15. \A d \in Cases : row[r][d].task => task[r][d].state # "none"
  BY <1>1, <1>3 DEF Tables
<1>16. p.passed => \A d \in Cases : Met(task[r][d])
  BY <1>1, <1>3, <1>14 DEF Tables, AllPassed
<1>17. Placed(p)
  <2>1. p.at # "idle" /\ p.at # "error"
    BY <1>8, <1>13
  <2>2. p.at \in CaseStages => p.case \in Cases
    BY <1>5, <1>8, <1>13 DEF CaseStages
  <2>3. p.at \in KnownStages => task[p.run][p.case].state # "none"
    BY <1>5, <1>8, <1>13, <1>15 DEF KnownStages, CaseStages
  <2>4. \A d \in p.booked : task[p.run][d].state # "none"
    BY <1>4, <1>13, <1>15
  <2> QED BY <1>3, <1>13, <1>16, <1>19, <2>1, <2>2, <2>3, <2>4 DEF Placed
<1>18. Sound(p)
  <2>1. p.at \in {"session", "handover", "book"} => row[p.run][p.case].result = "none"
    <3>1. ASSUME open # {} PROVE row[r][c].result = "none"
      BY <1>5, <3>1 DEF open, OpenCases
    <3> QED BY <1>8, <1>13, <3>1
  <2>2. p.at \in {"timeout", "error"} => \A d \in p.open \ p.booked : ~row[p.run][d].task
    BY <1>13
  <2>3. p.at \notin {"record", "unwait", "error"}
    BY <1>8, <1>13
  <2> QED BY <2>1, <2>2, <2>3 DEF Sound
<1> QED BY <1>7, <1>12, <1>13, <1>17, <1>18, QuietStepKept DEF ReadCases

\* A conductor at a stage of a case.
LEMMA AtCase ==
  ASSUME StopInv, NEW k \in Conductors, cond[k].at \in CaseStages
  PROVE  /\ cond[k].at # "idle" /\ cond[k] \in Place /\ Placed(cond[k])
         /\ cond[k].run \in Runs /\ cond[k].case \in Cases
         /\ cond[k].at \in KnownStages => task[cond[k].run][cond[k].case].state # "none"
         /\ cond[k].human => cond[k].at \in {"unwait", "record"}
         /\ meetings = 0 => Sound(cond[k])
<1>1. cond[k].at # "idle"
  BY DEF CaseStages
<1>2. /\ cond[k] \in Place /\ Placed(cond[k]) /\ cond[k].run \in Runs
      /\ meetings = 0 => Sound(cond[k])
  BY <1>1, AtRun
<1> QED BY <1>1, <1>2 DEF Placed

LEMMA FollowKeeps ==
  ASSUME StopInv, NEW k \in Conductors, Follow(k)
  PROVE  StopInv'
<1> DEFINE q == cond[k]
           a == FollowStep(k)
<1>1. q.at = "follow"
  BY DEF Follow, At
<1>2. /\ q \in Place /\ Placed(q) /\ q.at # "idle" /\ q.case \in Cases /\ ~q.human
      /\ task[q.run][q.case].state # "none"
  BY <1>1, AtCase DEF CaseStages, KnownStages
<1>3. CASE a = "idle"
  BY <1>3, RestKeeps DEF Follow
<1>4. CASE a # "idle"
  <2>1. PICK p : p = [q EXCEPT !.at = a] OBVIOUS
  <2>2. cond' = [cond EXCEPT ![k] = p]
    BY <1>4, <2>1 DEF Follow, Go
  <2>3. a \in {"record", "stop", "unwait", "respond", "wait", "giveup"}
    BY <1>4 DEF FollowStep
  <2>4. a = "record" => Halted(task[q.run][q.case])
    BY DEF FollowStep, Halted
  <2> HIDE DEF a
  <2>5. a \in Stages \ {"idle"}
    BY <2>3 DEF Stages
  <2>6. /\ p \in Place /\ p.at = a /\ p.run = q.run /\ p.case = q.case /\ p.human = q.human
    BY <1>2, <2>1, <2>5, Going
  <2>7. Placed(p)
    BY <1>2, <2>1, <2>3, <2>5, GoingPlaced
  <2>8. Sound(p)
    BY <1>2, <2>3, <2>4, <2>6 DEF Sound
  <2> QED BY <2>2, <2>6, <2>7, <2>8, QuietStepKept DEF Follow
<1> QED BY <1>3, <1>4

LEMMA OpenSessionKeeps ==
  ASSUME StopInv, NEW k \in Conductors, OpenSession(k)
  PROVE  StopInv'
<1> DEFINE q == cond[k]
           s == Min({opened[q.run][q.case] + 1, MaxSessions})
<1>1. q.at = "session"
  BY DEF OpenSession, At
<1>2. /\ q \in Place /\ Placed(q) /\ q.at # "idle" /\ q.run \in Runs /\ q.case \in Cases
      /\ ~q.human /\ (meetings = 0 => Sound(q))
  BY <1>1, AtCase DEF CaseStages
<1>3. Shapes /\ Tables
  BY DEF StopInv, ResultInv
<1>4. s \in 0..MaxSessions
  <2>1. opened[q.run][q.case] \in 0..MaxSessions
    BY <1>2, <1>3 DEF Shapes, TableOf
  <2>2. opened[q.run][q.case] + 1 \in Nat /\ MaxSessions \in Nat
    BY <2>1, TestRunsAssumption
  <2> QED BY <2>2, LeastOfTwo
<1>5. PICK p : p = [q EXCEPT !.at = "handover", !.session = s] OBVIOUS
<1>6. cond' = [cond EXCEPT ![k] = p]
  BY <1>5 DEF OpenSession
<1>7. opened' = [opened EXCEPT ![q.run][q.case] = s]
  BY DEF OpenSession
<1> HIDE DEF s
<1>8. opened' \in TableOf(0..MaxSessions)
  BY <1>2, <1>3, <1>4, <1>7 DEF Shapes, TableOf
<1>9. PICK g : g = [q EXCEPT !.at = "handover"] OBVIOUS
<1>10. "handover" \in Stages \ {"idle"}
  BY DEF Stages
<1>11. /\ g \in Place /\ g.at = "handover" /\ g.run = q.run /\ g.case = q.case /\ g.human = q.human
  BY <1>2, <1>9, <1>10, Going
<1>12. Placed(g)
  BY <1>2, <1>9, <1>10, GoingPlaced DEF KnownStages
<1>13. p = [g EXCEPT !.session = s]
  BY <1>5, <1>9, Zenon
<1>14. /\ p \in Place /\ p.at = g.at /\ p.run = g.run /\ p.case = g.case /\ p.booked = g.booked
       /\ p.open = g.open
  BY <1>4, <1>11, <1>13 DEF Place
<1>15. p.human = g.human /\ p.passed = g.passed
  BY <1>11, <1>13 DEF Place
<1>16. Placed(p)
  BY <1>11, <1>12, <1>14, <1>15 DEF Placed
<1>17. meetings = 0 => Sound(p)
  BY <1>1, <1>2, <1>11, <1>14 DEF Sound
<1>18. TasksGoOn /\ task' \in TableOf(TaskRow)
  BY <1>3, TasksStay DEF OpenSession
<1>19. RunsGoOn
  BY <1>3, RunsStay DEF OpenSession
<1>20. Placed(p)' /\ (meetings = 0 => Sound(p)')
  BY <1>16, <1>17 DEF OpenSession, Placed, Sound
<1>21. /\ run' = run /\ row' = row /\ task' = task /\ overdue' = overdue
       /\ given' = given /\ late' = late /\ checking' = checking /\ meetings' = meetings
  BY DEF OpenSession
<1>22. /\ run' \in [Runs -> RunRow] /\ row' \in TableOf(CaseRow) /\ overdue' \subseteq Runs \X Cases
  BY <1>3, <1>21 DEF Shapes
<1> QED BY <1>6, <1>8, <1>11, <1>14, <1>18, <1>19, <1>20, <1>21, <1>22, StepKept

\* Tasks move and the conductor does, no row.
LEMMA TaskStepKept ==
  ASSUME StopInv, NEW k \in Conductors, NEW p \in Place, cond' = [cond EXCEPT ![k] = p],
         p.run \in {cond[k].run, None},
         run' = run, row' = row, opened' = opened, overdue' = overdue,
         given' = given, late' = late, checking' = checking, meetings' = meetings,
         TasksGoOn, task' \in TableOf(TaskRow),
         Placed(p)', meetings = 0 => Sound(p)'
  PROVE  StopInv'
<1>1. Shapes /\ Tables
  BY DEF StopInv, ResultInv
<1>2. RunsGoOn
  BY <1>1, RunsStay
<1>3. /\ run' \in [Runs -> RunRow] /\ row' \in TableOf(CaseRow)
      /\ opened' \in TableOf(0..MaxSessions) /\ overdue' \subseteq Runs \X Cases
  BY <1>1 DEF Shapes
<1> QED BY <1>2, <1>3, StepKept

LEMMA HandOverKeeps ==
  ASSUME StopInv, NEW k \in Conductors, HandOver(k)
  PROVE  StopInv'
<1> DEFINE q == cond[k]
           r == q.run
           c == q.case
<1>1. q.at = "handover"
  BY DEF HandOver, At
<1>2. /\ q \in Place /\ Placed(q) /\ q.at # "idle" /\ r \in Runs /\ c \in Cases
      /\ ~q.human /\ (meetings = 0 => Sound(q))
  BY <1>1, AtCase DEF CaseStages
<1>3. Shapes /\ Tables
  BY DEF StopInv, ResultInv
<1>4. CASE task[r][c].state # "none"
  BY <1>4, RestKeeps DEF HandOver
<1>5. CASE task[r][c].state = "none"
  <2>1. PICK t : t = [NoTask EXCEPT !.state = IF Busy THEN "queued" ELSE "handed", !.session = q.session]
    OBVIOUS
  <2>2. task' = [task EXCEPT ![r][c] = t] /\ Go(k, "book")
    BY <1>5, <2>1 DEF HandOver
  <2>3. t.state \in {"queued", "handed"}
    BY <2>1 DEF NoTask
  <2>4. t \in TaskRow
    <3>1. q.session \in 0..MaxSessions
      BY <1>2 DEF Place
    <3> QED BY <2>1, <3>1 DEF TaskRow, NoTask, TaskStates, AtWork
  <2>5. GoesTo(task[r][c], t)
    <3>1. ~task[r][c].cancel
      BY <1>2, <1>3, <1>5 DEF Tables
    <3> QED BY <1>5, <2>3, <3>1 DEF GoesTo, Halted, Met, Ended
  <2>6. TasksGoOn /\ task' \in TableOf(TaskRow) /\ task'[r][c] = t
    BY ZenonT(40), <1>2, <1>3, <2>2, <2>4, <2>5, OneTaskGoesOn
  <2>7. PICK p : p = [q EXCEPT !.at = "book"] OBVIOUS
  <2>8. cond' = [cond EXCEPT ![k] = p]
    BY <2>2, <2>7 DEF Go
  <2>9. "book" \in Stages
    BY DEF Stages
  <2>10. /\ p \in Place /\ p.at = "book" /\ p.run = r /\ p.case = c /\ p.booked = q.booked
         /\ p.human = q.human /\ p.passed = q.passed
    BY <1>2, <2>7, <2>9, Going
  <2>11. run' = run /\ row' = row
    BY DEF HandOver
  <2>12. Placed(p)'
    <3>1. RunsGoOn
      BY <1>3, <2>11, RunsStay
    <3>2. PICK z : z = q OBVIOUS
    <3>3. Placed(z)'
      BY <1>2, <2>6, <3>1, <3>2, PlaceStays
    <3>4. /\ r \in Runs /\ run'[r].status # "none" /\ ~run'[r].purged
          /\ \A d \in z.booked : task'[r][d].state # "none"
          /\ z.passed => \A d \in Cases : Met(task'[r][d])
      BY <1>2, <3>2, <3>3 DEF Placed
    <3>5. /\ p.run \in Runs /\ run'[p.run].status # "none" /\ ~run'[p.run].purged
          /\ \A d \in p.booked : task'[p.run][d].state # "none"
          /\ p.passed => \A d \in Cases : Met(task'[p.run][d])
      BY <2>10, <3>2, <3>4
    <3>6. task'[p.run][p.case].state # "none" /\ p.case \in Cases /\ ~p.human
      BY <1>2, <2>3, <2>6, <2>10
    <3> QED BY <2>10, <3>5, <3>6 DEF Placed
  <2>13. meetings = 0 => Sound(p)'
    BY <1>1, <1>2, <2>10, <2>11 DEF Sound
  <2> QED BY <2>6, <2>8, <2>10, <2>12, <2>13, TaskStepKept DEF HandOver
<1> QED BY <1>4, <1>5

\* One row of a case is written.
LEMMA RowStepKept ==
  ASSUME StopInv, NEW k \in Conductors, NEW p \in Place, cond' = [cond EXCEPT ![k] = p],
         cond[k].run \in Runs, p.run \in {cond[k].run, None},
         NEW c \in Cases, NEW y \in CaseRow, row' = [row EXCEPT ![cond[k].run][c] = y],
         run' \in [Runs -> RunRow], RunsGoOn,
         \A r \in Runs : run[r].status = "none" => run'[r].status = "none",
         \A r \in Runs : run'[r].status = "passed" => run[r].status = "passed",
         opened' = opened, overdue' \subseteq Runs \X Cases,
         given' = given, late' = late, checking' = checking, meetings' = meetings,
         TasksGoOn, task' \in TableOf(TaskRow),
         y.task => row[cond[k].run][c].task \/ task'[cond[k].run][c].state # "none",
         y.result = "passed" => \/ row[cond[k].run][c].result = "passed"
                                \/ Met(task'[cond[k].run][c]),
         Placed(p)',
         meetings = 0 =>
           /\ Sound(p)'
           /\ y.result # "none" /\ y.task => \/ /\ row[cond[k].run][c].result # "none"
                                                /\ row[cond[k].run][c].task
                                             \/ Halted(task'[cond[k].run][c])
  PROVE  StopInv'
<1>1. Shapes
  BY DEF StopInv, ResultInv
<1>2. /\ row' \in TableOf(CaseRow)
      /\ \A q \in Runs, d \in Cases :
           row'[q][d] = IF q = cond[k].run /\ d = c THEN y ELSE row[q][d]
      /\ \A q \in Runs : q # cond[k].run => row'[q] = row[q]
  <2>1. row \in TableOf(CaseRow)
    BY <1>1 DEF Shapes
  <2> QED BY <2>1 DEF TableOf
<1>3. opened' \in TableOf(0..MaxSessions)
  BY <1>1 DEF Shapes
<1>4. \A r \in Runs, d \in Cases : r = cond[k].run =>
        /\ row'[r][d].task => row[r][d].task \/ task'[r][d].state # "none"
        /\ row'[r][d].result = "passed" => \/ row[r][d].result = "passed"
                                           \/ Met(task'[r][d])
  BY <1>2
<1>5. meetings = 0 =>
        /\ Sound(p)'
        /\ \A r \in Runs, d \in Cases :
             r = cond[k].run /\ row'[r][d].result # "none" /\ row'[r][d].task =>
               \/ row[r][d].result # "none" /\ row[r][d].task
               \/ Halted(task'[r][d])
  BY <1>2
<1>6. \A r \in Runs : run'[r].status = "passed" =>
        run[r].status = "passed" \/ \A d \in Cases : Met(task'[r][d])
  OBVIOUS
<1> QED BY <1>2, <1>3, <1>4, <1>5, <1>6, StepKept

LEMMA BookKeeps ==
  ASSUME StopInv, NEW k \in Conductors, Book(k)
  PROVE  StopInv'
<1> DEFINE q == cond[k]
           r == q.run
           c == q.case
           t == task[r][c]
<1>1. q.at = "book"
  BY DEF Book, At
<1>2. /\ q \in Place /\ r \in Runs /\ c \in Cases /\ t.state # "none"
      /\ (meetings = 0 => Sound(q))
  BY <1>1, AtCase DEF CaseStages, KnownStages
<1>3. Shapes /\ Tables
  BY DEF StopInv, ResultInv
<1>4. PICK y : y = [row[r][c] EXCEPT !.session = q.session, !.task = TRUE] OBVIOUS
<1>5. row' = [row EXCEPT ![r][c] = y]
  BY <1>2, <1>3, <1>4 DEF Book, Shapes, TableOf
<1>6. y \in CaseRow /\ y.result = row[r][c].result
  <2>1. row[r][c] \in CaseRow /\ q.session \in 0..MaxSessions
    BY <1>2, <1>3 DEF Shapes, TableOf, Place
  <2> QED BY <1>4, <2>1 DEF CaseRow
<1>7. TasksGoOn /\ task' \in TableOf(TaskRow)
  <2>1. CASE t.state # "handed"
    BY <1>3, <2>1, TasksStay DEF Book
  <2>2. CASE t.state = "handed"
    <3>1. PICK u : u = [t EXCEPT !.state = "working"] OBVIOUS
    <3>2. t \in TaskRow
      BY <1>2, <1>3 DEF Shapes, TableOf
    <3>3. u \in TaskRow
      BY <3>1, <3>2 DEF TaskRow, TaskStates, AtWork
    <3>4. u.state = "working" /\ u.cancel = t.cancel
      BY <3>1, <3>2 DEF TaskRow
    <3>5. task' = [task EXCEPT ![r][c] = u]
      BY <1>2, <1>3, <2>2, <3>1 DEF Book, Shapes, TableOf
    <3>6. GoesTo(t, u)
      BY <2>2, <3>4 DEF GoesTo, Halted, Met, Ended
    <3> QED BY <1>2, <1>3, <3>3, <3>5, <3>6, OneTaskGoesOn
  <2> QED BY <2>1, <2>2
<1>8. task'[r][c].state # "none"
  BY <1>2, <1>7 DEF TasksGoOn, GoesTo
<1>9. y.result = "passed" => row[r][c].result = "passed"
  BY <1>6
<1>10. RunsGoOn /\ run' = run
  BY <1>3, RunsStay DEF Book
<1>11. meetings = 0 => y.result = "none"
  BY <1>1, <1>2, <1>6 DEF Sound
<1>12. cond' = [cond EXCEPT ![k] = Idle]
  BY DEF Book, Rest
<1>13. /\ run' \in [Runs -> RunRow] /\ overdue' \subseteq Runs \X Cases
  BY <1>3 DEF Shapes, Book
<1>14. /\ opened' = opened /\ given' = given /\ late' = late /\ checking' = checking
       /\ meetings' = meetings
  BY DEF Book
<1> QED BY <1>2, <1>5, <1>6, <1>7, <1>8, <1>9, <1>10, <1>11, <1>12, <1>13, <1>14,
           IdleAfter, IdlePlaced, RowStepKept

LEMMA RespondKeeps ==
  ASSUME StopInv, NEW k \in Conductors, Respond(k)
  PROVE  StopInv'
<1> DEFINE q == cond[k]
           r == q.run
           c == q.case
           t == task[r][c]
<1>1. q.at = "respond"
  BY DEF Respond, At
<1>2. /\ q \in Place /\ Placed(q) /\ q.at # "idle" /\ r \in Runs /\ c \in Cases
      /\ t.state # "none" /\ ~q.human
  BY <1>1, AtCase DEF CaseStages, KnownStages
<1>3. Shapes /\ Tables
  BY DEF StopInv, ResultInv
<1>4. CASE t.state # "asks"
  BY <1>4, RestKeeps DEF Respond
<1>5. CASE t.state = "asks"
  <2>1. PICK u : u = [t EXCEPT !.state = "working"] OBVIOUS
  <2>2. t \in TaskRow
    BY <1>2, <1>3 DEF Shapes, TableOf
  <2>3. u \in TaskRow
    BY <2>1, <2>2 DEF TaskRow, TaskStates, AtWork
  <2>4. u.state = "working" /\ u.cancel = t.cancel
    BY <2>1, <2>2 DEF TaskRow
  <2>5. task' = [task EXCEPT ![r][c] = u]
    BY <1>2, <1>3, <1>5, <2>1 DEF Respond, Shapes, TableOf
  <2>6. GoesTo(t, u)
    BY <1>5, <2>4 DEF GoesTo, Halted, Met, Ended
  <2>7. TasksGoOn /\ task' \in TableOf(TaskRow)
    BY <1>2, <1>3, <2>3, <2>5, <2>6, OneTaskGoesOn
  <2>8. /\ run' = run /\ row' = row /\ opened' = opened /\ overdue' = overdue /\ given' = given
        /\ late' = late /\ checking' = checking /\ meetings' = meetings
    BY DEF Respond
  <2>9. CASE ~q.waits
    <3>1. cond' = [cond EXCEPT ![k] = Idle]
      BY <1>5, <2>9 DEF Respond, Rest
    <3> QED BY <2>7, <2>8, <3>1, IdleAfter, IdlePlaced, TaskStepKept
  <2>10. CASE q.waits
    <3>1. PICK p : p = [q EXCEPT !.at = "unwait"] OBVIOUS
    <3>2. cond' = [cond EXCEPT ![k] = p]
      BY <1>5, <2>10, <3>1 DEF Respond, Go
    <3>3. "unwait" \in Stages \ {"idle"}
      BY DEF Stages
    <3>4. p \in Place /\ p.at = "unwait" /\ p.run = r /\ p.human = q.human
      BY <1>2, <3>1, <3>3, Going
    <3>5. Placed(p)
      BY <1>2, <3>1, <3>3, GoingPlaced
    <3>6. RunsGoOn
      BY <1>3, <2>8, RunsStay
    <3>7. Placed(p)'
      BY <2>7, <3>4, <3>5, <3>6, PlaceStays
    <3>8. Sound(p)'
      BY <1>2, <3>4 DEF Sound
    <3> QED BY <2>7, <2>8, <3>2, <3>4, <3>7, <3>8, TaskStepKept
  <2> QED BY <2>9, <2>10
<1> QED BY <1>4, <1>5

LEMMA WaitKeeps ==
  ASSUME StopInv, NEW k \in Conductors, Wait(k)
  PROVE  StopInv'
<1> DEFINE q == cond[k]
           r == q.run
           c == q.case
<1>1. q.at = "wait"
  BY DEF Wait, At
<1>2. /\ q \in Place /\ r \in Runs /\ c \in Cases
  BY <1>1, AtCase DEF CaseStages
<1>3. Shapes /\ Tables
  BY DEF StopInv, ResultInv
<1>4. PICK y : y = [row[r][c] EXCEPT !.waiting = TRUE] OBVIOUS
<1>5. row' = [row EXCEPT ![r][c] = y]
  BY <1>2, <1>3, <1>4 DEF Wait, Shapes, TableOf
<1>6. row[r][c] \in CaseRow
  BY <1>2, <1>3 DEF Shapes, TableOf
<1>7. y \in CaseRow /\ y.result = row[r][c].result
  BY <1>4, <1>6 DEF CaseRow
<1>8. y.task = row[r][c].task
  BY <1>4, <1>6 DEF CaseRow
<1>9. TasksGoOn /\ task' \in TableOf(TaskRow)
  BY <1>3, TasksStay DEF Wait
<1>10. RunsGoOn /\ run' = run
  BY <1>3, RunsStay DEF Wait
<1>11. cond' = [cond EXCEPT ![k] = Idle]
  BY DEF Wait, Rest
<1>12. /\ run' \in [Runs -> RunRow] /\ overdue' \subseteq Runs \X Cases
  BY <1>3 DEF Shapes, Wait
<1>13. /\ opened' = opened /\ given' = given /\ late' = late /\ checking' = checking
       /\ meetings' = meetings
  BY DEF Wait
<1> QED BY <1>2, <1>5, <1>7, <1>8, <1>9, <1>10, <1>11, <1>12, <1>13,
           IdleAfter, IdlePlaced, RowStepKept

LEMMA StopWaitingKeeps ==
  ASSUME StopInv, NEW k \in Conductors, StopWaiting(k)
  PROVE  StopInv'
<1> DEFINE q == cond[k]
           r == q.run
           c == q.case
<1>1. q.at = "unwait"
  BY DEF StopWaiting, At
<1>2. /\ q \in Place /\ Placed(q) /\ q.at # "idle" /\ r \in Runs /\ c \in Cases
      /\ task[r][c].state # "none" /\ (meetings = 0 => Sound(q))
  BY <1>1, AtCase DEF CaseStages, KnownStages
<1>3. Shapes /\ Tables
  BY DEF StopInv, ResultInv
<1>4. PICK y : y = [row[r][c] EXCEPT !.waiting = FALSE] OBVIOUS
<1>5. row' = [row EXCEPT ![r][c] = y]
  BY <1>2, <1>3, <1>4 DEF StopWaiting, Shapes, TableOf
<1>6. row[r][c] \in CaseRow
  BY <1>2, <1>3 DEF Shapes, TableOf
<1>7. y \in CaseRow /\ y.result = row[r][c].result
  BY <1>4, <1>6 DEF CaseRow
<1>8. y.task = row[r][c].task
  BY <1>4, <1>6 DEF CaseRow
<1>9. TasksGoOn /\ task' \in TableOf(TaskRow) /\ task' = task
  BY <1>3, TasksStay DEF StopWaiting
<1>10. RunsGoOn /\ run' = run
  BY <1>3, RunsStay DEF StopWaiting
<1>11. run' \in [Runs -> RunRow] /\ overdue' \subseteq Runs \X Cases
  BY <1>3 DEF Shapes, StopWaiting
<1>12. /\ opened' = opened /\ given' = given /\ late' = late /\ checking' = checking
       /\ meetings' = meetings
  BY DEF StopWaiting
<1>13. CASE ~q.human
  <2>1. cond' = [cond EXCEPT ![k] = Idle]
    BY <1>13 DEF StopWaiting, Rest
  <2> QED BY <1>2, <1>5, <1>7, <1>8, <1>9, <1>10, <1>11, <1>12, <2>1,
             IdleAfter, IdlePlaced, RowStepKept
<1>14. CASE q.human
  <2>1. PICK p : p = [q EXCEPT !.at = "record"] OBVIOUS
  <2>2. cond' = [cond EXCEPT ![k] = p]
    BY <1>14, <2>1 DEF StopWaiting, Go
  <2>3. "record" \in Stages \ {"idle"}
    BY DEF Stages
  <2>4. p \in Place /\ p.at = "record" /\ p.run = r /\ p.case = c
    BY <1>2, <2>1, <2>3, Going
  <2>5. Placed(p)
    BY <1>2, <2>1, <2>3, GoingPlaced
  <2>6. Placed(p)'
    BY <1>9, <1>10, <2>4, <2>5, PlaceStays
  <2>7. meetings = 0 => Sound(p)'
    BY <1>1, <1>2, <1>9, <1>14, <2>4 DEF Sound
  <2> QED BY <1>2, <1>5, <1>7, <1>8, <1>9, <1>10, <1>11, <1>12, <2>2, <2>4, <2>6, <2>7, RowStepKept
<1> QED BY <1>13, <1>14

LEMMA GiveUpKeeps ==
  ASSUME StopInv, NEW k \in Conductors, GiveUp(k)
  PROVE  StopInv'
<1> DEFINE q == cond[k]
           r == q.run
           c == q.case
           a == IF At(k, "giveup") THEN "unwait" ELSE "record"
           h == At(k, "giveup")
<1>1. q.at \in {"giveup", "stop"}
  BY DEF GiveUp
<1>2. /\ q \in Place /\ Placed(q) /\ q.at # "idle" /\ r \in Runs /\ c \in Cases
      /\ task[r][c].state # "none" /\ ~q.human
  BY <1>1, AtCase DEF CaseStages, KnownStages
<1>3. Shapes /\ Tables
  BY DEF StopInv, ResultInv
<1>4. TasksGoOn /\ task' \in TableOf(TaskRow) /\ Halted(task'[r][c])
  BY <1>2, <1>3, CancelHalts DEF GiveUp
<1>5. PICK p : p = [q EXCEPT !.at = a, !.human = h] OBVIOUS
<1>6. cond' = [cond EXCEPT ![k] = p]
  BY <1>5 DEF GiveUp
<1>7. h \in BOOLEAN
  BY DEF At
<1>8. a \in {"unwait", "record"}
  OBVIOUS
<1> HIDE DEF a, h
<1>9. PICK g : g = [q EXCEPT !.at = a] OBVIOUS
<1>10. a \in Stages \ {"idle"}
  BY <1>8 DEF Stages
<1>11. /\ g \in Place /\ g.at = a /\ g.run = r /\ g.case = c
  BY <1>2, <1>9, <1>10, Going
<1>12. Placed(g)
  BY <1>2, <1>8, <1>9, <1>10, GoingPlaced
<1>13. p = [g EXCEPT !.human = h]
  BY <1>5, <1>9, Zenon
<1>14. /\ p \in Place /\ p.at = g.at /\ p.run = g.run /\ p.case = g.case /\ p.booked = g.booked
       /\ p.open = g.open
  BY <1>7, <1>11, <1>13 DEF Place
<1>15. p.passed = g.passed
  BY <1>11, <1>13 DEF Place
<1>16. Placed(p)
  BY <1>8, <1>11, <1>12, <1>14, <1>15 DEF Placed
<1>17. /\ run' = run /\ row' = row /\ opened' = opened /\ overdue' = overdue /\ given' = given
       /\ late' = late /\ checking' = checking /\ meetings' = meetings
  BY DEF GiveUp
<1>18. RunsGoOn
  BY <1>3, <1>17, RunsStay
<1>19. Placed(p)'
  BY <1>4, <1>14, <1>16, <1>18, PlaceStays
<1>20. Sound(p)'
  BY <1>4, <1>8, <1>11, <1>14 DEF Sound
<1> QED BY <1>4, <1>6, <1>11, <1>14, <1>17, <1>19, <1>20, TaskStepKept

LEMMA RecordKeeps ==
  ASSUME StopInv, NEW k \in Conductors, Record(k)
  PROVE  StopInv'
<1> DEFINE q == cond[k]
           r == q.run
           c == q.case
           t == task[r][c]
<1>1. q.at = "record"
  BY DEF Record, At
<1>2. /\ q \in Place /\ r \in Runs /\ c \in Cases /\ (meetings = 0 => Sound(q))
  BY <1>1, AtCase DEF CaseStages
<1>3. Shapes /\ Tables
  BY DEF StopInv, ResultInv
<1>4. t \in TaskRow /\ row[r][c] \in CaseRow /\ run[r] \in RunRow
  BY <1>2, <1>3 DEF Shapes, TableOf
<1>5. Judged(k, t) \in Results /\ Judged(k, t) # "none"
  BY DEF Judged, Results
<1>6. Judged(k, t) = "passed" => Met(t)
  BY DEF Judged, Met
<1>7. PICK y : y = [row[r][c] EXCEPT !.result = Judged(k, t)] OBVIOUS
<1>8. row' = [row EXCEPT ![r][c] = y]
  BY <1>2, <1>3, <1>7 DEF Record, Shapes, TableOf
<1>9. y \in CaseRow /\ y.result = Judged(k, t)
  BY <1>4, <1>5, <1>7 DEF CaseRow
<1>10. y.task = row[r][c].task
  BY <1>4, <1>7 DEF CaseRow
<1>11. PICK z : z = [run[r] EXCEPT !.spent = q.spent + t.used] OBVIOUS
<1>12. run' = [run EXCEPT ![r] = z]
  BY <1>11 DEF Record
<1>13. z \in RunRow /\ z.status = run[r].status
  <2>1. q.spent + t.used \in Nat
    BY <1>2, <1>4 DEF Place, TaskRow
  <2> QED BY <1>4, <1>11, <2>1 DEF RunRow
<1>14. z.purged = run[r].purged
  BY <1>4, <1>11 DEF RunRow
<1>15. run' \in [Runs -> RunRow] /\ \A x \in Runs : run'[x] = IF x = r THEN z ELSE run[x]
  BY <1>3, <1>12, <1>13 DEF Shapes
<1>16. RunsGoOn
  BY <1>3, <1>13, <1>14, <1>15 DEF RunsGoOn, Tables
<1>17. /\ \A x \in Runs : run[x].status = "none" => run'[x].status = "none"
       /\ \A x \in Runs : run'[x].status = "passed" => run[x].status = "passed"
  BY <1>13, <1>15
<1>18. TasksGoOn /\ task' \in TableOf(TaskRow) /\ task' = task
  BY <1>3, TasksStay DEF Record
<1>19. cond' = [cond EXCEPT ![k] = Idle]
  BY DEF Record, Rest
<1>20. overdue' \subseteq Runs \X Cases
  BY <1>3 DEF Shapes, Record
<1>21. /\ opened' = opened /\ given' = given /\ late' = late /\ checking' = checking
       /\ meetings' = meetings
  BY DEF Record
<1>22. y.result = "passed" => Met(task'[r][c])
  BY <1>6, <1>9, <1>18
<1>23. meetings = 0 => Halted(task'[r][c])
  BY <1>1, <1>2, <1>18 DEF Sound
<1> QED BY <1>2, <1>8, <1>9, <1>10, <1>15, <1>16, <1>17, <1>18, <1>19, <1>20, <1>21, <1>22, <1>23,
           IdleAfter, IdlePlaced, RowStepKept

LEMMA TimeOutCaseKeeps ==
  ASSUME StopInv, NEW k \in Conductors, TimeOutCase(k)
  PROVE  StopInv'
<1> DEFINE q == cond[k]
           r == q.run
           c == Min(q.open)
<1>1. q.at = "timeout" /\ q.open # {}
  BY DEF TimeOutCase, At
<1>2. /\ q \in Place /\ Placed(q) /\ q.at # "idle" /\ r \in Runs /\ (meetings = 0 => Sound(q))
  BY <1>1, AtRun
<1>3. Shapes /\ Tables
  BY DEF StopInv, ResultInv
<1>4. c \in q.open /\ c \in Cases
  <2>1. q.open \in SUBSET Cases
    BY <1>2 DEF Place
  <2> QED BY <1>1, <2>1, LeastCase
<1>5. CASE c \in q.booked => CancelTask(r, c)
  <2>1. TasksGoOn /\ task' \in TableOf(TaskRow) /\ (c \in q.booked => Halted(task'[r][c]))
    <3>1. CASE c \in q.booked
      <4>1. CancelTask(r, c)
        BY <1>5, <3>1
      <4>2. task[r][c].state # "none"
        BY <1>2, <3>1 DEF Placed
      <4> QED BY <1>2, <1>3, <1>4, <4>1, <4>2, CancelHalts
    <3>2. CASE c \notin q.booked
      BY <1>3, <3>2, TasksStay DEF TimeOutCase
    <3> QED BY <3>1, <3>2
  <2>2. PICK p : p = [q EXCEPT !.at = "error"] OBVIOUS
  <2>3. cond' = [cond EXCEPT ![k] = p]
    BY <2>2 DEF TimeOutCase, Go
  <2>4. "error" \in Stages \ {"idle"} /\ "error" \notin CaseStages /\ "error" \notin KnownStages
    BY DEF Stages, CaseStages, KnownStages
  <2>5. p \in Place /\ p.at = "error" /\ p.run = r /\ p.open = q.open /\ p.booked = q.booked
    BY <1>2, <2>2, <2>4, Going
  <2>6. ~q.human
    BY <1>1, <1>2 DEF Placed
  <2>7. Placed(p)
    BY <1>1, <1>2, <2>2, <2>4, <2>6, GoingPlaced
  <2>8. /\ run' = run /\ row' = row /\ opened' = opened /\ overdue' = overdue /\ given' = given
        /\ late' = late /\ checking' = checking /\ meetings' = meetings
    BY DEF TimeOutCase
  <2>9. RunsGoOn
    BY <1>3, <2>8, RunsStay
  <2>10. Placed(p)'
    BY <2>1, <2>5, <2>7, <2>9, PlaceStays
  <2>11. ASSUME meetings = 0 PROVE Sound(p)'
    <3>1. \A d \in q.open \ q.booked : ~row[r][d].task
      BY <1>1, <1>2, <2>11 DEF Sound
    <3>2. row[r][c].task => Halted(task'[r][c])
      BY <1>4, <2>1, <3>1
    <3>3. /\ \A d \in p.open \ p.booked : ~row'[p.run][d].task
          /\ row'[p.run][Min(p.open)].task => Halted(task'[p.run][Min(p.open)])
      BY <2>5, <2>8, <3>1, <3>2
    <3> QED BY <2>5, <3>3 DEF Sound
  <2> QED BY <2>1, <2>3, <2>5, <2>8, <2>10, <2>11, TaskStepKept
<1> QED BY <1>5 DEF TimeOutCase

LEMMA RecordErrorKeeps ==
  ASSUME StopInv, NEW k \in Conductors, RecordError(k)
  PROVE  StopInv'
<1> DEFINE q == cond[k]
           r == q.run
           c == Min(q.open)
<1>1. q.at = "error"
  BY DEF RecordError, At
<1>2. /\ q \in Place /\ Placed(q) /\ q.at # "idle" /\ r \in Runs /\ (meetings = 0 => Sound(q))
  BY <1>1, AtRun
<1>3. Shapes /\ Tables
  BY DEF StopInv, ResultInv
<1>4. c \in Cases
  <2>1. q.open \in SUBSET Cases /\ q.open # {}
    BY <1>1, <1>2 DEF Place, Placed
  <2> QED BY <2>1, LeastCase
<1>5. PICK y : y = [row[r][c] EXCEPT !.result = "error"] OBVIOUS
<1>6. row' = [row EXCEPT ![r][c] = y]
  BY <1>2, <1>3, <1>4, <1>5 DEF RecordError, Shapes, TableOf
<1>7. row[r][c] \in CaseRow
  BY <1>2, <1>3, <1>4 DEF Shapes, TableOf
<1>8. y \in CaseRow /\ y.result = "error"
  BY <1>5, <1>7 DEF CaseRow, Results
<1>9. y.task = row[r][c].task
  BY <1>5, <1>7 DEF CaseRow
<1>10. TasksGoOn /\ task' \in TableOf(TaskRow) /\ task' = task
  BY <1>3, TasksStay DEF RecordError
<1>11. RunsGoOn /\ run' = run
  BY <1>3, RunsStay DEF RecordError
<1>12. PICK p : p = [q EXCEPT !.at = "timeout", !.open = q.open \ {c}] OBVIOUS
<1>13. cond' = [cond EXCEPT ![k] = p]
  BY <1>2, <1>3, <1>12 DEF RecordError, Shapes
<1>14. PICK g : g = [q EXCEPT !.at = "timeout"] OBVIOUS
<1>15. "timeout" \in Stages \ {"idle"} /\ "timeout" \notin CaseStages /\ "timeout" \notin KnownStages
  BY DEF Stages, CaseStages, KnownStages
<1>16. /\ g \in Place /\ g.at = "timeout" /\ g.run = r /\ g.booked = q.booked /\ g.open = q.open
       /\ g.human = q.human /\ g.passed = q.passed
  BY <1>2, <1>14, <1>15, Going
<1>17. p = [g EXCEPT !.open = q.open \ {c}]
  BY <1>12, <1>14, Zenon
<1>18. q.open \ {c} \in SUBSET Cases
  BY <1>2 DEF Place
<1>19. /\ p \in Place /\ p.at = "timeout" /\ p.run = r /\ p.booked = q.booked
       /\ p.open = q.open \ {c}
  BY <1>16, <1>17, <1>18 DEF Place
<1>20. p.human = q.human /\ p.passed = q.passed
  BY <1>16, <1>17 DEF Place
<1>21. ~q.human
  BY <1>1, <1>2 DEF Placed
<1>22. Placed(p)
  BY <1>2, <1>15, <1>19, <1>20, <1>21 DEF Placed
<1>23. Placed(p)'
  BY <1>10, <1>11, <1>19, <1>22, PlaceStays
<1>24. ASSUME meetings = 0
       PROVE  Sound(p)' /\ (y.task => Halted(task'[r][c]))
  <2>1. /\ \A d \in q.open \ q.booked : ~row[r][d].task
        /\ row[r][c].task => Halted(task[r][c])
    BY <1>1, <1>2, <1>24 DEF Sound
  <2>2. \A d \in Cases : row'[r][d].task = row[r][d].task
    BY <1>2, <1>3, <1>4, <1>6, <1>9 DEF Shapes, TableOf
  <2>3. \A d \in p.open \ p.booked : ~row'[p.run][d].task
    BY <1>18, <1>19, <2>1, <2>2
  <2>4. Sound(p)'
    BY <1>19, <2>3 DEF Sound
  <2> QED BY <1>9, <1>10, <2>1, <2>4
<1>25. /\ run' \in [Runs -> RunRow] /\ overdue' \subseteq Runs \X Cases
  BY <1>3 DEF Shapes, RecordError
<1>26. /\ opened' = opened /\ given' = given /\ late' = late /\ checking' = checking
       /\ meetings' = meetings
  BY DEF RecordError
<1> QED BY <1>2, <1>4, <1>6, <1>8, <1>9, <1>10, <1>11, <1>13, <1>19, <1>23, <1>24, <1>25, <1>26, RowStepKept

LEMMA FinishKeeps ==
  ASSUME StopInv, NEW k \in Conductors, Finish(k)
  PROVE  StopInv'
<1> DEFINE q == cond[k]
           r == q.run
<1>1. q.at # "idle"
  BY DEF Finish, At
<1>2. /\ q \in Place /\ Placed(q) /\ r \in Runs /\ run[r].status # "none" /\ ~run[r].purged
  BY <1>1, AtRun
<1>3. Shapes /\ Tables
  BY DEF StopInv, ResultInv
<1>4. /\ Verdict(k) \in {"timeout", "passed", "failed"}
      /\ Verdict(k) = "passed" => q.passed
  BY DEF Verdict
<1>5. PICK z : z = [run[r] EXCEPT !.status = Verdict(k)] OBVIOUS
<1>6. run' = [run EXCEPT ![r] = z]
  BY <1>5 DEF Finish
<1>7. run[r] \in RunRow
  BY <1>2, <1>3 DEF Shapes
<1>8. z \in RunRow /\ z.status = Verdict(k)
  <2>1. Verdict(k) \in Statuses
    BY <1>4 DEF Statuses, Final
  <2> QED BY <1>5, <1>7, <2>1 DEF RunRow
<1>9. z.purged = run[r].purged
  BY <1>5, <1>7 DEF RunRow
<1>10. run' \in [Runs -> RunRow] /\ \A x \in Runs : run'[x] = IF x = r THEN z ELSE run[x]
  BY <1>3, <1>6, <1>8 DEF Shapes
<1>11. RunsGoOn
  BY <1>2, <1>3, <1>4, <1>8, <1>9, <1>10 DEF RunsGoOn, Tables, Final
<1>12. TasksGoOn /\ task' \in TableOf(TaskRow) /\ task' = task
  BY <1>3, TasksStay DEF Finish
<1>13. \A x \in Runs : run[x].status = "none" => run'[x].status = "none"
  BY <1>2, <1>10
<1>14. \A x \in Runs : run'[x].status = "passed" =>
         run[x].status = "passed" \/ \A c \in Cases : Met(task'[x][c])
  <2>1. Verdict(k) = "passed" => \A c \in Cases : Met(task[r][c])
    BY <1>1, <1>2, <1>4 DEF Placed
  <2> QED BY <1>8, <1>10, <1>12, <2>1
<1>15. cond' = [cond EXCEPT ![k] = Idle]
  BY DEF Finish, Rest
<1>16. /\ row' = row /\ opened' = opened /\ overdue' = overdue /\ given' = given
       /\ late' = late /\ checking' = checking /\ meetings' = meetings
  BY DEF Finish
<1>17. /\ row' \in TableOf(CaseRow) /\ opened' \in TableOf(0..MaxSessions)
       /\ overdue' \subseteq Runs \X Cases
  BY <1>3, <1>16 DEF Shapes
<1> QED BY <1>10, <1>11, <1>12, <1>13, <1>14, <1>15, <1>16, <1>17, IdleAfter, IdlePlaced, StepKept

-----------------------------------------------------------------------------
(* The theorems. *)

LEMMA StopStep ==
  ASSUME StopInv, [Next]_vars
  PROVE  StopInv'
<1>1. CASE UNCHANGED vars
  BY <1>1, Zenon DEF vars, StopInv, ResultInv, Shapes, Tables, PassedIsEarned, Placed, Sound, Apart,
     ClosedIsHalted
<1>2. ASSUME NEW k \in Conductors, Advance(k)
      PROVE  StopInv'
  BY <1>2, ReadRunKeeps, BeginKeeps, ReadAgainKeeps, ReadCasesKeeps, OpenSessionKeeps, HandOverKeeps, BookKeeps, FollowKeeps,
     RespondKeeps, WaitKeeps, StopWaitingKeeps, GiveUpKeeps, RecordKeeps, TimeOutCaseKeeps,
     RecordErrorKeeps, FinishKeeps, Zenon DEF Advance
<1>3. CASE \E r \in Runs : Check(r) \/ Accept(r) \/ DeadlinePasses(r) \/ Purge(r)
  BY <1>3, ServiceKeeps, PurgeKeeps, Zenon
<1>4. CASE \E r \in Runs, c \in Cases : Answer(r, c) \/ Turn(r, c) \/ WaitGetsLong(r, c)
  BY <1>4, OthersKeep, Zenon
<1>5. CASE \E k \in Conductors : Crash(k) \/ Unpaired(k)
  BY <1>5, CrashKeeps, UnpairedKeeps, Zenon
<1> QED BY <1>1, <1>2, <1>3, <1>4, <1>5, Zenon DEF Next

\* Every step of the service, the conductors, the tasks and the purge keeps the
\* rows, the tasks and what each conductor carries in agreement
\* (test_runs.py:310-720).
THEOREM TestRunsInvariant == Spec => []StopInv
<1>1. Init => StopInv
  BY InitialStop
<1>2. StopInv /\ [Next]_vars => StopInv'
  BY StopStep
<1> QED BY <1>1, <1>2, PTL DEF Spec

\* Rows of runs and cases only hold results and states they may have, and a
\* conductor's notes name cases of its run.
THEOREM TestRunsTypes == Spec => []TypeOK
<1>1. StopInv => TypeOK
  <2> SUFFICES ASSUME StopInv PROVE TypeOK OBVIOUS
  <2>1. Shapes
    BY DEF StopInv, ResultInv
  <2>2. \A r \in Runs : run[r] \in RunRow
    BY <2>1 DEF Shapes
  <2>3. \A r \in Runs, c \in Cases : row[r][c] \in CaseRow /\ task[r][c] \in TaskRow
    BY <2>1 DEF Shapes, TableOf
  <2>4. \A k \in Conductors : cond[k].open \subseteq Cases /\ cond[k].booked \subseteq Cases
    BY <2>1 DEF Shapes, Place
  <2>5. \A r \in Runs : run[r].status \in {"none"} \cup Active \cup Final /\ run[r].spent \in Nat
    BY <2>2 DEF RunRow, Statuses
  <2>6. \A r \in Runs, c \in Cases :
          /\ row[r][c].result \in Results /\ row[r][c].session \in 0..MaxSessions
          /\ task[r][c].state \in {"none", "queued"} \cup AtWork \cup Ended
    BY <2>3 DEF CaseRow, TaskRow, TaskStates
  <2>7. given \subseteq Runs \X Cases /\ overdue \subseteq Runs \X Cases /\ late \subseteq Runs
    BY <2>1 DEF Shapes
  <2> QED BY <2>4, <2>5, <2>6, <2>7, Zenon DEF TypeOK
<1> QED BY <1>1, TestRunsInvariant, PTL

\* A run that is called passed has only tasks that succeeded with a result that met
\* what its case expects, however many conductors advance it and whoever writes
\* last (test_runs.py:677, case_result).
THEOREM PassedRunsAreEarned == Spec => []PassedIsEarned
<1>1. StopInv => PassedIsEarned
  BY DEF StopInv, ResultInv
<1> QED BY <1>1, TestRunsInvariant, PTL

\* As long as no two conductors have met at a run, a case that is closed leaves
\* no task at work that nobody told to stop, wherever runners die
\* (test_runs.py:506 and 655).
THEOREM ClosedCasesAreStopped == Spec => []ClosedCaseIsStopped
<1>1. StopInv => ClosedCaseIsStopped
  BY DEF StopInv, ClosedIsHalted, ClosedCaseIsStopped, Halted
<1> QED BY <1>1, TestRunsInvariant, PTL

=============================================================================
