------------------------------ MODULE TestRuns ------------------------------
(* Test runs of drafts (test_runs.py).  knowlab submits a run of several cases  *)
(* under a budget; in every runner process a conductor advances the runs that      *)
(* are open: it starts a conversation and a task for the next case, passes on the   *)
(* answers knowlab gives, waits for people, gives up what waits or runs too long,    *)
(* and records results.  A conductor holds no lock: it reads a run, then its          *)
(* cases, and acts on what it has read.  Tasks are those of Ledger.tla, reduced to     *)
(* what a conductor sees of them; all of them share the project of the test account.    *)
EXTENDS Integers, FiniteSets, FiniteSetsExt

CONSTANTS
    Runs,
    Conductors,     \* runner processes
    NCases,         \* cases of a run
    Preset,         \* cases whose questions the submission answers
    Price,          \* budget_limit of a run; a turn costs one
    Monthly,        \* monthly_limit
    MaxSessions,    \* conversations that may be opened for a case
    MaxMeetings,    \* times a conductor comes to a run that another one is at
    MaxFaults,
    None

ASSUME TestRunsAssumption ==
    /\ NCases \in Nat \ {0} /\ Price \in Nat /\ Monthly \in Nat
    /\ Preset \subseteq 1..NCases
    /\ MaxSessions \in Nat /\ MaxMeetings \in Nat
    /\ None \notin Runs

Cases == 1..NCases

VARIABLES
    run,        \* rows of workbench_test_runs
    row,        \* rows of workbench_test_cases
    task,       \* the task of a case, which its idempotency key makes the only one
    opened,     \* conversations opened for a case
    given,      \* questions of a case that knowlab has answered
    late,       \* runs whose deadline has passed
    overdue,    \* cases that have waited longer than max_wait_seconds
    checking,   \* submissions that have seen the month's sum
    cond,       \* what each conductor is doing
    meetings,
    faults

vars == <<run, row, task, opened, given, late, overdue, checking, cond, meetings, faults>>

Active == {"accepted", "running"}
Final == {"passed", "failed", "timeout", "error"}
Results == {"none", "passed", "failed", "needs_human", "error"}
AtWork == {"handed", "working", "asks", "decides"}
Ended == {"SUCCEEDED", "FAILED", "CANCELLED"}

NoTask == [state |-> "none", session |-> 0, used |-> 0, met |-> FALSE, cancel |-> FALSE]
Idle == [at |-> "idle", run |-> None, case |-> 0, spent |-> 0, open |-> {}, booked |-> {},
         waits |-> FALSE, passed |-> FALSE, human |-> FALSE, session |-> 0]

Init ==
    /\ run = [r \in Runs |-> [status |-> "none", spent |-> 0, purged |-> FALSE]]
    /\ row = [r \in Runs |-> [c \in Cases |-> [session |-> 0, task |-> FALSE, result |-> "none",
                                               waiting |-> FALSE]]]
    /\ task = [r \in Runs |-> [c \in Cases |-> NoTask]]
    /\ opened = [r \in Runs |-> [c \in Cases |-> 0]]
    /\ given = {} /\ late = {} /\ overdue = {} /\ checking = {}
    /\ cond = [k \in Conductors |-> Idle]
    /\ meetings = 0 /\ faults = 0

-----------------------------------------------------------------------------
(* KnowbotTestService. *)

\* committed_test_spend
Committed ==
    MapThenSumSet(LAMBDA r : IF run[r].status = "none" THEN 0
                             ELSE IF run[r].status \in Active THEN Price ELSE run[r].spent, Runs)

\* accept: the sum is read and the row inserted in one transaction, which no
\* lock keeps apart from that of another submission.
Check(r) ==
    /\ run[r].status = "none" /\ r \notin checking
    /\ Committed + Price <= Monthly
    /\ checking' = checking \cup {r}
    /\ UNCHANGED <<run, row, task, opened, given, late, overdue, cond, meetings, faults>>

Accept(r) ==
    /\ r \in checking
    /\ checking' = checking \ {r}
    /\ run' = [run EXCEPT ![r].status = "accepted"]
    /\ UNCHANGED <<row, task, opened, given, late, overdue, cond, meetings, faults>>

\* open_questions: those the submission has not answered, nor knowlab since.
OpenQuestions(r) ==
    IF run[r].status \notin Active THEN {}
    ELSE {c \in Cases \ Preset : /\ row[r][c].task /\ row[r][c].result = "none"
                                 /\ task[r][c].state = "asks" /\ <<r, c>> \notin given}

Answer(r, c) ==
    /\ c \in OpenQuestions(r)
    /\ given' = given \cup {<<r, c>>}
    /\ UNCHANGED <<run, row, task, opened, late, overdue, checking, cond, meetings, faults>>

-----------------------------------------------------------------------------
(* The tasks, and time. *)

Busy == \E r \in Runs, c \in Cases : task[r][c].state \in AtWork
InLine == {x \in Runs \X Cases : task[x[1]][x[2]].state = "queued"}

\* A task that ends lets the next one in line begin.
Ends(r, c, t) ==
    LET after == [task EXCEPT ![r][c] = t] IN
    IF InLine \ {<<r, c>>} = {} \/ t.state = "queued" \/ task[r][c].state = "queued" THEN task' = after
    ELSE \E x \in InLine \ {<<r, c>>} : task' = [after EXCEPT ![x[1]][x[2]].state = "working"]

Turn(r, c) ==
    /\ task[r][c].state = "working"
    /\ LET t == [task[r][c] EXCEPT !.used = @ + 1] IN
       IF task[r][c].cancel THEN Ends(r, c, [task[r][c] EXCEPT !.state = "CANCELLED"])
       ELSE \/ \E s \in {"SUCCEEDED", "FAILED"}, met \in BOOLEAN :
                 Ends(r, c, [t EXCEPT !.state = s, !.met = met])
            \/ /\ t.used = 1
               /\ \E s \in {"asks", "decides"} : task' = [task EXCEPT ![r][c] = [t EXCEPT !.state = s]]
    /\ UNCHANGED <<run, row, opened, given, late, overdue, checking, cond, meetings, faults>>

CancelRunning(r, c) ==
    IF task[r][c].state = "working" THEN task' = [task EXCEPT ![r][c].cancel = TRUE] ELSE UNCHANGED task

\* cancel_task: what is not running ends at once, a turn is interrupted.
CancelTask(r, c) ==
    IF task[r][c].state = "working" THEN task' = [task EXCEPT ![r][c].cancel = TRUE]
    ELSE IF task[r][c].state \in AtWork \cup {"queued"}
         THEN Ends(r, c, [task[r][c] EXCEPT !.state = "CANCELLED", !.cancel = TRUE])
         ELSE UNCHANGED task

Waits(r) == \E c \in Cases : row[r][c].waiting

\* The time a case waits for a person does not count (waited_seconds).
DeadlinePasses(r) ==
    /\ run[r].status = "running" /\ r \notin late /\ ~Waits(r)
    /\ late' = late \cup {r}
    /\ UNCHANGED <<run, row, task, opened, given, overdue, checking, cond, meetings, faults>>

WaitGetsLong(r, c) ==
    /\ run[r].status \in Active /\ row[r][c].waiting /\ <<r, c>> \notin overdue
    /\ overdue' = overdue \cup {<<r, c>>}
    /\ UNCHANGED <<run, row, task, opened, given, late, checking, cond, meetings, faults>>

-----------------------------------------------------------------------------
(* KnowbotTestConductor.advance. *)

At(k, stage) == cond[k].at = stage
Rest(k) == cond' = [cond EXCEPT ![k] = Idle]
Go(k, stage) == cond' = [cond EXCEPT ![k].at = stage]

ReadRun(k, r) ==
    /\ At(k, "idle") /\ run[r].status \in Active
    /\ IF \E j \in Conductors \ {k} : cond[j].run = r
       THEN meetings < MaxMeetings /\ meetings' = meetings + 1
       ELSE UNCHANGED meetings
    /\ cond' = [cond EXCEPT ![k] = [Idle EXCEPT !.run = r, !.spent = run[r].spent,
                                  !.at = IF run[r].status = "accepted" THEN "fresh" ELSE "account"]]
    /\ UNCHANGED <<run, row, task, opened, given, late, overdue, checking, faults>>

\* _account: the test computer is paired no more.  What the run has become since
\* it was read is not asked, here and in Begin.
Unpaired(k) ==
    /\ cond[k].at \in {"fresh", "account"} /\ faults < MaxFaults
    /\ faults' = faults + 1
    /\ run' = [run EXCEPT ![cond[k].run].status = "error"]
    /\ Rest(k)
    /\ UNCHANGED <<row, task, opened, given, late, overdue, checking, meetings>>

\* A run that had not started when it was read: its time begins.
Begin(k) ==
    /\ At(k, "fresh")
    /\ run' = [run EXCEPT ![cond[k].run].status = "running"]
    /\ late' = late \ {cond[k].run}
    /\ Go(k, "begun")
    /\ UNCHANGED <<row, task, opened, given, overdue, checking, meetings, faults>>

ReadAgain(k) ==
    /\ At(k, "begun")
    /\ cond' = [cond EXCEPT ![k].at = "cases", ![k].spent = run[cond[k].run].spent]
    /\ UNCHANGED <<run, row, task, opened, given, late, overdue, checking, meetings, faults>>

OpenCases(r) == {c \in Cases : row[r][c].result = "none"}
AllPassed(r) == \A c \in Cases : row[r][c].result = "passed"

Decide(k) ==
    LET r == cond[k].run
        open == OpenCases(r)
        c == IF open = {} THEN 0 ELSE Min(open) IN
    IF r \in late THEN "timeout" ELSE IF open = {} THEN "conclude"
    ELSE IF row[r][c].task THEN "follow" ELSE "session"

ReadCases(k) ==
    LET r == cond[k].run
        open == OpenCases(r) IN
    /\ cond[k].at \in {"account", "cases"}
    /\ cond' = [cond EXCEPT ![k].at = Decide(k), ![k].open = open,
                            ![k].case = IF open = {} THEN 0 ELSE Min(open),
                            ![k].waits = IF open = {} THEN FALSE ELSE row[r][Min(open)].waiting,
                            ![k].booked = {c \in open : row[r][c].task},
                            ![k].passed = AllPassed(r)]
    /\ UNCHANGED <<run, row, task, opened, given, late, overdue, checking, meetings, faults>>

\* _start_case: a conversation of its own, the handover, the row; each commits.
OpenSession(k) ==
    LET r == cond[k].run
        c == cond[k].case IN
    /\ At(k, "session")
    /\ LET s == Min({opened[r][c] + 1, MaxSessions}) IN
       /\ opened' = [opened EXCEPT ![r][c] = s]
       /\ cond' = [cond EXCEPT ![k].at = "handover", ![k].session = s]
    /\ UNCHANGED <<run, row, task, given, late, overdue, checking, meetings, faults>>

\* The key of the case is taken: its digest names another conversation, and the
\* handover is refused.
HandOver(k) ==
    LET r == cond[k].run
        c == cond[k].case IN
    /\ At(k, "handover")
    /\ \/ /\ task[r][c].state = "none"
          /\ task' = [task EXCEPT ![r][c] = [NoTask EXCEPT !.state = IF Busy THEN "queued" ELSE "handed",
                                                          !.session = cond[k].session]]
          /\ Go(k, "book")
       \/ task[r][c].state # "none" /\ Rest(k) /\ UNCHANGED task
    /\ UNCHANGED <<run, row, opened, given, late, overdue, checking, meetings, faults>>

\* The row of the case, and the command that drives a task that is not in line.
Book(k) ==
    LET r == cond[k].run
        c == cond[k].case IN
    /\ At(k, "book")
    /\ row' = [row EXCEPT ![r][c].session = cond[k].session, ![r][c].task = TRUE]
    /\ task' = IF task[r][c].state = "handed" THEN [task EXCEPT ![r][c].state = "working"] ELSE task
    /\ Rest(k)
    /\ UNCHANGED <<run, opened, given, late, overdue, checking, meetings, faults>>

\* _follow_case, up to its first write.
Ready(r, c) == c \in Preset \/ <<r, c>> \in given
FollowStepPatiently(k) ==
    LET r == cond[k].run
        c == cond[k].case
        s == task[r][c].state IN
    IF s \in Ended THEN "record"
    ELSE IF s = "decides" THEN "stop"
    ELSE IF s # "asks" THEN IF cond[k].waits THEN "unwait" ELSE "idle"
    ELSE IF Ready(r, c) THEN "respond"
    ELSE IF ~cond[k].waits THEN "wait" ELSE "idle"

FollowStep(k) ==
    LET r == cond[k].run
        c == cond[k].case
        s == task[r][c].state IN
    IF s \in Ended THEN "record"
    ELSE IF s = "decides" THEN "stop"
    ELSE IF s # "asks" THEN IF cond[k].waits THEN "unwait" ELSE "idle"
    ELSE IF Ready(r, c) THEN "respond"
    ELSE IF ~cond[k].waits THEN "wait"
    ELSE IF <<r, c>> \in overdue THEN "giveup" ELSE "idle"

Follow(k) ==
    /\ At(k, "follow")
    /\ IF FollowStep(k) = "idle" THEN Rest(k) ELSE Go(k, FollowStep(k))
    /\ UNCHANGED <<run, row, task, opened, given, late, overdue, checking, meetings, faults>>

\* answer_interaction for the test account; refused when the question is gone.
Respond(k) ==
    LET r == cond[k].run
        c == cond[k].case IN
    /\ At(k, "respond")
    /\ \/ /\ task[r][c].state = "asks"
          /\ task' = [task EXCEPT ![r][c].state = "working"]
          /\ IF cond[k].waits THEN Go(k, "unwait") ELSE Rest(k)
       \/ task[r][c].state # "asks" /\ Rest(k) /\ UNCHANGED task
    /\ UNCHANGED <<run, row, opened, given, late, overdue, checking, meetings, faults>>

Wait(k) ==
    LET r == cond[k].run
        c == cond[k].case IN
    /\ At(k, "wait")
    /\ row' = [row EXCEPT ![r][c].waiting = TRUE]
    /\ Rest(k)
    /\ UNCHANGED <<run, task, opened, given, late, overdue, checking, meetings, faults>>

\* _stop_waiting
StopWaiting(k) ==
    LET r == cond[k].run
        c == cond[k].case IN
    /\ At(k, "unwait")
    /\ row' = [row EXCEPT ![r][c].waiting = FALSE]
    /\ overdue' = overdue \ {<<r, c>>}
    /\ IF cond[k].human THEN Go(k, "record") ELSE Rest(k)
    /\ UNCHANGED <<run, task, opened, given, late, checking, meetings, faults>>

\* A question nobody answers in time, or one that is not for a test to answer.
GiveUp(k) ==
    LET r == cond[k].run
        c == cond[k].case IN
    /\ cond[k].at \in {"giveup", "stop"}
    /\ CancelTask(r, c)
    /\ cond' = [cond EXCEPT ![k].at = IF At(k, "giveup") THEN "unwait" ELSE "record",
                            ![k].human = At(k, "giveup")]
    /\ UNCHANGED <<run, row, opened, given, late, overdue, checking, meetings, faults>>

\* case_result
JudgedByState(k, t) ==
    IF cond[k].human THEN "needs_human" ELSE IF t.state = "SUCCEEDED" THEN "passed" ELSE "failed"
Judged(k, t) ==
    IF cond[k].human THEN "needs_human"
    ELSE IF t.state = "SUCCEEDED" /\ t.met THEN "passed" ELSE "failed"

Record(k) ==
    LET r == cond[k].run
        c == cond[k].case IN
    /\ At(k, "record")
    /\ row' = [row EXCEPT ![r][c].result = Judged(k, task[r][c])]
    /\ run' = [run EXCEPT ![r].spent = cond[k].spent + task[r][c].used]
    /\ Rest(k)
    /\ UNCHANGED <<task, opened, given, late, overdue, checking, meetings, faults>>

\* _time_out, one open case after the other.
TimeOutCase(k) ==
    LET r == cond[k].run
        c == Min(cond[k].open) IN
    /\ At(k, "timeout") /\ cond[k].open # {}
    /\ IF c \in cond[k].booked THEN CancelTask(r, c) ELSE UNCHANGED task
    /\ Go(k, "error")
    /\ UNCHANGED <<run, row, opened, given, late, overdue, checking, meetings, faults>>

RecordError(k) ==
    LET r == cond[k].run
        c == Min(cond[k].open) IN
    /\ At(k, "error")
    /\ row' = [row EXCEPT ![r][c].result = "error"]
    /\ cond' = [cond EXCEPT ![k].at = "timeout", ![k].open = @ \ {c}]
    /\ UNCHANGED <<run, task, opened, given, late, overdue, checking, meetings, faults>>

\* _conclude and _finish
Verdict(k) ==
    IF At(k, "timeout") THEN "timeout" ELSE IF cond[k].passed THEN "passed" ELSE "failed"
Finish(k) ==
    /\ At(k, "conclude") \/ (At(k, "timeout") /\ cond[k].open = {})
    /\ run' = [run EXCEPT ![cond[k].run].status = Verdict(k)]
    /\ Rest(k)
    /\ UNCHANGED <<row, task, opened, given, late, overdue, checking, meetings, faults>>

\* A runner dies, or a query of the conductor fails; what it committed stays.
Crash(k) ==
    /\ cond[k] # Idle /\ faults < MaxFaults
    /\ faults' = faults + 1
    /\ Rest(k)
    /\ UNCHANGED <<run, row, task, opened, given, late, overdue, checking, meetings>>

\* cleanup, a week later, when no conductor is still at the run: the
\* conversations the rows name go, with their tasks.
Purge(r) ==
    /\ run[r].status \in Final /\ ~run[r].purged
    /\ \A k \in Conductors : cond[k].run # r
    /\ run' = [run EXCEPT ![r].purged = TRUE]
    /\ task' = [task EXCEPT ![r] = [c \in Cases |->
                   IF row[r][c].task /\ task[r][c].session = row[r][c].session THEN NoTask ELSE task[r][c]]]
    /\ row' = [row EXCEPT ![r] = [c \in Cases |-> [row[r][c] EXCEPT !.session = 0, !.task = FALSE]]]
    /\ UNCHANGED <<opened, given, late, overdue, checking, cond, meetings, faults>>

Advance(k) ==
    \/ \E r \in Runs : ReadRun(k, r)
    \/ Begin(k) \/ ReadAgain(k) \/ ReadCases(k)
    \/ OpenSession(k) \/ HandOver(k) \/ Book(k)
    \/ Follow(k) \/ Respond(k) \/ Wait(k) \/ StopWaiting(k) \/ GiveUp(k) \/ Record(k)
    \/ TimeOutCase(k) \/ RecordError(k) \/ Finish(k)

Next ==
    \/ \E r \in Runs : Check(r) \/ Accept(r) \/ DeadlinePasses(r) \/ Purge(r)
    \/ \E r \in Runs, c \in Cases : Answer(r, c) \/ Turn(r, c) \/ WaitGetsLong(r, c)
    \/ \E k \in Conductors : Advance(k) \/ Crash(k) \/ Unpaired(k)

Spec == Init /\ [][Next]_vars

\* The loops of the runners go on, tasks that are driven get on, time passes.
Fairness ==
    /\ \A k \in Conductors : WF_vars(Advance(k))
    /\ \A r \in Runs :
          /\ WF_vars(DeadlinePasses(r))
          /\ \A c \in Cases : WF_vars(Turn(r, c)) /\ WF_vars(WaitGetsLong(r, c))

FairSpec == Spec /\ Fairness

-----------------------------------------------------------------------------
TypeOK ==
    /\ \A r \in Runs :
         /\ run[r].status \in {"none"} \cup Active \cup Final /\ run[r].spent \in Nat
         /\ \A c \in Cases : /\ row[r][c].result \in Results
                             /\ row[r][c].session \in 0..MaxSessions
                             /\ task[r][c].state \in {"none", "queued"} \cup AtWork \cup Ended
    /\ given \subseteq Runs \X Cases /\ overdue \subseteq Runs \X Cases
    /\ late \subseteq Runs
    /\ \A k \in Conductors : cond[k].open \subseteq Cases /\ cond[k].booked \subseteq Cases

\* A run is called passed only when the task of every case has succeeded and its
\* result met what the case expects, whichever conductor wrote last
\* (test_runs.py:677, case_result).
Met(t) == t.state = "SUCCEEDED" /\ t.met
PassedIsEarned ==
    \A r \in Runs : run[r].status = "passed" /\ ~run[r].purged => \A c \in Cases : Met(task[r][c])

\* As long as conductors have not met at a run, a closed case has nothing at
\* work that nobody told to stop, as far as its row knows, whichever step a
\* runner died at (test_runs.py:506 and 655).
ClosedCaseIsStopped ==
    meetings = 0 => \A r \in Runs, c \in Cases :
        row[r][c].result # "none" /\ row[r][c].task =>
            task[r][c].state \in Ended \/ task[r][c].cancel

\* Every run ends: passed, failed or out of time.
EveryRunEnds == \A r \in Runs : run[r].status = "accepted" ~> run[r].status \in Final

-----------------------------------------------------------------------------
(* What the code says of itself and does not keep. *)

\* "Test output is deleted after seven days (tasks, conversations, artifacts)"
\* (test_runs.py:13).
PurgedIsGone == \A r \in Runs : run[r].purged => \A c \in Cases : task[r][c].state = "none"

\* "The monthly limit of test cost" (test_runs.py:65).
WithinMonth == Committed <= Monthly

\* What a run has spent is what its tasks used.
SpentIsUsed ==
    \A r \in Runs : run[r].status \in Final /\ ~run[r].purged =>
        run[r].spent = MapThenSumSet(LAMBDA c : task[r][c].used, Cases)

\* The result of a case and the status of a run are written once.
ResultStays ==
    [][\A r \in Runs : /\ run[r].status \in Final => run'[r].status = run[r].status
                       /\ \A c \in Cases : row[r][c].result # "none" => row'[r][c].result = row[r][c].result]_vars
=============================================================================
