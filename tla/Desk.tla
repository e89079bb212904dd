-------------------------------- MODULE Desk --------------------------------
(* What the pages show of a task (expert_desk.py and the views under domain/).  A    *)
(* page is put together from several queries, each of which sees what is committed      *)
(* when it runs, while the driver of the task (advisor.py) goes from commit to          *)
(* commit.  One task whose last step may send it back to the first, its driver, its       *)
(* person, and one request for a page.                                                     *)
(* The driver is the one of Runner.tla, seen through its commits: its phase names           *)
(* what it does next.                                                                        *)
EXTENDS Integers, Sequences, FiniteSets, FiniteSetsExt

CONSTANTS
    Steps,          \* steps of the expert's pack
    MaxReworks,     \* times a step is done again before anything else
    MaxBacks,       \* times the last step sends the task back
    EventLimit,     \* events of list_events at once (1000)
    NoCap, Caps,    \* the budget of the task may have a limit
    MaxTurnCost,    \* bound: what a turn costs
    MaxTries,       \* bound: attempts
    MaxAsks,        \* bound: times a person is asked
    MaxDeaths,      \* bound: deaths of the driver's process
    Pages           \* kinds of page somebody asks for

ASSUME DeskAssumption ==
    /\ {Steps, MaxTurnCost, EventLimit} \subseteq Nat \ {0}
    /\ {MaxReworks, MaxBacks, MaxTries, MaxAsks, MaxDeaths} \subseteq Nat
    /\ NoCap \notin Int /\ Caps \subseteq Nat \cup {NoCap}
    /\ Pages \subseteq {"steps", "dossier", "review", "overview"}

VARIABLES
    row,        \* row of workbench_tasks
    tries,      \* rows of workbench_attempts, by created_at
    log,        \* rows of workbench_session_events
    latest,     \* step |-> version of its deliverable, 0 when there is none
    ask,        \* latest row of workbench_interactions
    phase,      \* what the driver does next
    asks, deaths,
    page        \* a request: what it has read, and the reads that are left

writer == <<row, tries, log, latest, ask, phase, asks, deaths>>
deskVars == <<writer, page>>

Index == 0..(Steps - 1)
Ended == {"SUCCEEDED", "FAILED", "CANCELLED"}
NoQuestion == [status |-> "none", kind |-> "", step |-> 0, missing |-> FALSE, late |-> FALSE,
               stale |-> FALSE]
NoPage == [kind |-> "none", since |-> 0, left |-> <<>>, got |-> [r \in {} |-> 0]]

DeskInit ==
    /\ \E cap \in Caps :
          row = [state |-> "QUEUED", why |-> "", step |-> 0, active |-> 0, used |-> 0,
                 limit |-> cap, cancel |-> FALSE]
    /\ tries = <<>> /\ log = <<>> /\ latest = [k \in Index |-> 0]
    /\ ask = NoQuestion /\ phase = "off" /\ asks = 0 /\ deaths = 0
    /\ page = NoPage

-----------------------------------------------------------------------------
(* Commits of the driver. *)

Event(type, try, n) == [type |-> type, try |-> try, n |-> n]
Present == Len(tries)
TryOf(step) == {i \in DOMAIN tries : tries[i].step = step}
Rejections(step) == {i \in TryOf(step) : tries[i].status = "FAILED" /\ tries[i].code = "acceptance"}

Now(p) == phase' = p
OnlyChanged(changed) ==
    /\ "row" \notin changed => row' = row
    /\ "tries" \notin changed => tries' = tries
    /\ "log" \notin changed => log' = log
    /\ "latest" \notin changed => latest' = latest
    /\ "ask" \notin changed => ask' = ask /\ asks' = asks
    /\ deaths' = deaths /\ page' = page

\* transition to an end of the task: its reason is in the event, questions are closed.
End(state, reason) ==
    /\ row' = [row EXCEPT !.state = state, !.why = "", !.active = 0]
    /\ log' = Append(log, Event("task/state", 0, <<state, reason>>))
    /\ ask' = IF ask.status = "pending" THEN [ask EXCEPT !.status = "cancelled"] ELSE ask
    /\ asks' = asks

\* A question of the driver, put when the task can wait.
CanWait == row.state \in {"QUEUED", "RUNNING"}
OpenQuestion(r, kind, missing) ==
    /\ asks < MaxAsks /\ asks' = asks + 1
    /\ row' = [r EXCEPT !.state = "WAITING", !.why = kind]
    /\ ask' = [NoQuestion EXCEPT !.status = "pending", !.kind = kind, !.step = row.step, !.missing = missing]

Drive ==
    /\ phase = "off" /\ row.state \in {"QUEUED", "RUNNING"}
    /\ Now("step") /\ OnlyChanged({})

\* The top of _step_once: leave, cancel, finish, ask for a budget, or open an attempt.
NextStep ==
    /\ phase = "step"
    /\ \/ row.state \notin {"QUEUED", "RUNNING"} /\ Now("off") /\ OnlyChanged({})
       \/ CanWait /\ row.cancel /\ End("CANCELLED", "user") /\ Now("off") /\ OnlyChanged({"row", "log", "ask"})
       \/ CanWait /\ ~row.cancel /\ row.step >= Steps /\ Now("finish") /\ OnlyChanged({})
       \/ CanWait /\ ~row.cancel /\ row.step < Steps /\ row.active # 0 /\ Now("off") /\ OnlyChanged({})
       \/ /\ CanWait /\ ~row.cancel /\ row.step < Steps /\ row.active = 0
          /\ IF row.limit # NoCap /\ row.limit - row.used < 1
             THEN OpenQuestion(row, "resource", FALSE) /\ Now("off") /\ OnlyChanged({"row", "ask"})
             ELSE /\ Present < MaxTries
                  /\ tries' = Append(tries, [step |-> row.step, status |-> "RUNNING", code |-> "",
                                             charged |-> 0, cost |-> 0])
                  /\ row' = [row EXCEPT !.state = "RUNNING", !.active = Present + 1]
                  /\ Now("announce") /\ OnlyChanged({"row", "tries"})

\* step/started is a commit of its own.
Announce ==
    /\ phase = "announce"
    /\ log' = Append(log, Event("step/started", Present, row.step)) /\ Now("begin") /\ OnlyChanged({"log"})

\* Events of the turn, kept by the runner as they come.
TurnStarted ==
    /\ phase = "begin"
    /\ log' = Append(log, Event("turn/started", 0, 0)) /\ Now("turn") /\ OnlyChanged({"log"})

\* priced: the cost of the turn up to now.
TurnReports ==
    /\ phase = "turn" /\ tries[Present].cost < MaxTurnCost
    /\ tries' = [tries EXCEPT ![Present].cost = @ + 1]
    /\ log' = Append(log, Event("usage", 0, tries[Present].cost + 1))
    /\ Now("turn") /\ OnlyChanged({"tries", "log"})

\* A command that has to be approved: the attempt stays the active one.
TurnAsks ==
    /\ phase = "turn" /\ row.state = "RUNNING" /\ ~row.cancel
    /\ OpenQuestion(row, "tool_approval", FALSE) /\ Now("turn") /\ OnlyChanged({"row", "ask"})

Results == {"ok", "bad", "no_data", "stopped", "error", "lost"}
GivenUp == {"bad", "error", "lost"}

\* attempt_transition with the id of the turn: a question that is still open is
\* about an earlier version of the task from here on.
TurnOver(results) ==
    /\ phase = "turn"
    /\ \E result \in results : Now(result)
    /\ ask' = [ask EXCEPT !.stale = (row.state = "WAITING")] /\ asks' = asks

\* While it waits for a person, a turn only fails or runs out of its 900 s.
TurnEnds ==
    /\ TurnOver(IF row.state = "WAITING" THEN GivenUp ELSE Results)
    /\ log' = Append(log, Event("turn/completed", 0, 0)) /\ OnlyChanged({"log", "ask"})

\* A turn that is not heard of again: its time is over, or the connection is gone.
TurnGivenUp == TurnOver({"bad", "error"}) /\ OnlyChanged({"ask"})

\* attempt_transition to an end: the cost of the turn is charged.
TryClosed(status, code) ==
    [tries EXCEPT ![Present].status = status, ![Present].code = code, ![Present].charged = tries[Present].cost]
RowCharged == [row EXCEPT !.used = @ + tries[Present].cost, !.active = 0]

\* What comes after a turn that failed, and after one whose result was rejected.
AfterFailure == [stopped |-> "after stopped", error |-> "after error", lost |-> "after lost"]
AfterVerdict == [bad |-> "reject bad", no_data |-> "reject no_data"]

OverBudget == row.limit # NoCap /\ tries[Present].cost > row.limit - row.used
Settle ==
    /\ phase \in Results
    /\ \/ /\ row.cancel
          /\ tries' = TryClosed("CANCELLED", "cancelled") /\ row' = RowCharged
          /\ Now(IF row.state \in Ended THEN "off" ELSE "cancel") /\ OnlyChanged({"row", "tries"})
       \/ /\ ~row.cancel /\ phase \in {"stopped", "error", "lost"}
          /\ tries' = TryClosed("FAILED", phase) /\ row' = RowCharged
          /\ Now(AfterFailure[phase]) /\ OnlyChanged({"row", "tries"})
       \/ /\ ~row.cancel /\ phase \in {"ok", "bad", "no_data"} /\ OverBudget
          /\ Now("off")
          /\ IF row.state = "WAITING" THEN OnlyChanged({})
             ELSE /\ tries' = TryClosed("BUDGET_EXCEEDED", "")
                  /\ OpenQuestion(RowCharged, "resource", FALSE) /\ OnlyChanged({"row", "tries", "ask"})
       \/ /\ ~row.cancel /\ phase = "ok" /\ ~OverBudget
          /\ latest' = [latest EXCEPT ![row.step] = @ + 1]
          /\ tries' = TryClosed("COMPLETED", "") /\ row' = RowCharged
          /\ Now("accept") /\ OnlyChanged({"row", "tries", "latest"})
       \/ /\ ~row.cancel /\ phase \in {"bad", "no_data"} /\ ~OverBudget
          /\ tries' = TryClosed("FAILED", "acceptance") /\ row' = RowCharged
          /\ Now(AfterVerdict[phase]) /\ OnlyChanged({"row", "tries"})

\* The cursor and step/accepted.
Accept ==
    /\ phase = "accept"
    /\ row' = [row EXCEPT !.step = @ + 1]
    /\ log' = Append(log, Event("step/accepted", Present, row.step))
    /\ Now(IF row.step + 1 = Steps THEN "finish" ELSE "requeue") /\ OnlyChanged({"row", "log"})

Requeue ==
    /\ phase = "requeue"
    /\ row' = IF row.state = "RUNNING" THEN [row EXCEPT !.state = "QUEUED"] ELSE row
    /\ Now("step") /\ OnlyChanged({"row"})

\* _finish; a task that does not run any more refuses.
Finish ==
    /\ phase = "finish" /\ Now("off")
    /\ IF row.state \in {"QUEUED", "RUNNING"}
       THEN End("SUCCEEDED", "") /\ OnlyChanged({"row", "log", "ask"}) ELSE OnlyChanged({})

\* step/rejected with the checks, before anything is decided about it.
Reject ==
    /\ phase \in {"reject bad", "reject no_data"}
    /\ log' = Append(log, Event("step/rejected", Present, row.step))
    /\ Now(IF phase = "reject bad" THEN "judge" ELSE "no_data event") /\ OnlyChanged({"log"})

\* append_event_once: one for the same code.
NoDataEvent ==
    /\ phase = "no_data event"
    /\ log' = IF \E i \in DOMAIN log : log[i].type = "data.missing" THEN log
              ELSE Append(log, Event("data.missing", Present, 0))
    /\ Now("no_data question") /\ OnlyChanged({"log"})

Backs == {i \in DOMAIN log : log[i].type = "step/went_back"}

\* Do the step again, go back, or ask the person.
Judge ==
    /\ phase = "judge"
    /\ IF Cardinality(Rejections(row.step)) <= MaxReworks THEN Now("requeue") /\ OnlyChanged({})
       ELSE IF row.step = Steps - 1 /\ Cardinality(Backs) < MaxBacks
       THEN /\ row' = [row EXCEPT !.step = 0]
            /\ log' = Append(log, Event("step/went_back", Present, row.step))
            /\ Now("requeue") /\ OnlyChanged({"row", "log"})
       ELSE Now("question") /\ OnlyChanged({})

Question ==
    /\ phase \in {"question", "no_data question", "after stopped"}
    /\ Now("off")
    /\ IF CanWait THEN OpenQuestion(row, "input", phase = "no_data question") /\ OnlyChanged({"row", "ask"})
                  ELSE OnlyChanged({})

\* An error ends the task, a lost machine makes it wait, a cancel is carried out.
GiveUp ==
    /\ phase \in {"after error", "after lost", "cancel"}
    /\ Now("off")
    /\ \/ (IF phase = "after lost" THEN ~CanWait ELSE row.state \in Ended) /\ OnlyChanged({})
       \/ /\ row.state \notin Ended /\ phase = "after error"
          /\ End("FAILED", "error") /\ OnlyChanged({"row", "log", "ask"})
       \/ /\ row.state \notin Ended /\ phase = "cancel"
          /\ End("CANCELLED", "user") /\ OnlyChanged({"row", "log", "ask"})
       \/ /\ CanWait /\ phase = "after lost"
          /\ row' = [row EXCEPT !.state = "WAITING", !.why = "environment"] /\ OnlyChanged({"row"})

-----------------------------------------------------------------------------
(* The person, the clock and the process. *)

AnswerTo(choice) ==
    /\ ask.status = "pending" /\ ~ask.late /\ ~ask.stale /\ row.state = "WAITING"
    /\ ask' = [ask EXCEPT !.status = "consumed"] /\ asks' = asks
    /\ \/ /\ choice = "go"
          /\ row' = [row EXCEPT !.state = "QUEUED", !.why = "",
                     !.limit = IF ask.kind = "resource" THEN @ + 1 ELSE @]
          /\ OnlyChanged({"row", "ask"})
       \/ /\ choice = "stop" /\ ask.kind # "tool_approval"
          /\ row' = [row EXCEPT !.state = "FAILED", !.why = "", !.active = 0]
          /\ log' = Append(log, Event("task/state", 0, <<"FAILED", "user stopped">>))
          /\ OnlyChanged({"row", "log", "ask"})
    /\ Now(phase)

CancelIt ==
    /\ row.state \notin Ended /\ ~row.cancel
    /\ IF row.state = "RUNNING"
       THEN row' = [row EXCEPT !.cancel = TRUE] /\ OnlyChanged({"row"})
       ELSE /\ row' = [row EXCEPT !.cancel = TRUE, !.state = "CANCELLED", !.why = "", !.active = 0]
            /\ log' = Append(log, Event("task/state", 0, <<"CANCELLED", "user">>))
            /\ ask' = IF ask.status = "pending" THEN [ask EXCEPT !.status = "cancelled"] ELSE ask
            /\ asks' = asks /\ OnlyChanged({"row", "log", "ask"})
    /\ Now(phase)

\* The machine is back: the task is driven on.
BackOnline ==
    /\ row.state = "WAITING" /\ row.why = "environment"
    /\ row' = [row EXCEPT !.state = "QUEUED", !.why = ""] /\ Now(phase) /\ OnlyChanged({"row"})

Expires ==
    /\ ask.status = "pending" /\ ~ask.late /\ ask' = [ask EXCEPT !.late = TRUE] /\ asks' = asks
    /\ Now(phase) /\ OnlyChanged({"ask"})

Dies ==
    /\ phase # "off" /\ deaths < MaxDeaths /\ deaths' = deaths + 1 /\ phase' = "off"
    /\ UNCHANGED <<row, tries, log, latest, ask, asks, page>>

-----------------------------------------------------------------------------
(* The views: functions of what a request has read. *)

Of(step, p) == {i \in DOMAIN p.got["attempts"] : p.got["attempts"][i].step = step}

\* attempt_outcome.
Outcome(a) ==
    CASE a.status = "COMPLETED" -> "accepted"
      [] a.status = "FAILED" -> IF a.code = "acceptance" THEN "rejected" ELSE "failed"
      [] a.status = "BUDGET_EXCEEDED" -> "over_budget"
      [] a.status = "CANCELLED" -> "cancelled"
      [] OTHER -> "running"
\* check_lines: an attempt has its checks when it was judged and the verdict is there.
HasChecks(i, p) ==
    /\ Outcome(p.got["attempts"][i]) \in {"accepted", "rejected"}
    /\ i \in p.got["verdicts"]

\* attempts_view: an accepted attempt has its deliverable, a rejected one what was kept of it.
AttemptView(i, p) ==
    LET a == p.got["attempts"][i] IN
    [outcome |-> Outcome(a), spent |-> a.charged, checks |-> HasChecks(i, p),
     returned |-> CASE Outcome(a) = "accepted" -> "deliverable"
                    [] Outcome(a) = "rejected" /\ HasChecks(i, p) -> "kept"
                    [] OTHER -> "nothing"]

\* step_status.
StepStatus(step, p) ==
    LET t == p.got["task"]
        last == IF Of(step, p) = {} THEN "" ELSE Outcome(p.got["attempts"][Max(Of(step, p))])
    IN IF t.state \in Ended
       THEN CASE last = "accepted" /\ (t.state = "SUCCEEDED" \/ step < t.step) -> "accepted"
              [] step = t.step /\ t.state = "FAILED" -> "failed"
              [] step = t.step /\ t.state = "CANCELLED" -> "cancelled"
              [] last = "rejected" /\ step > t.step -> "went_back"
              [] OTHER -> "not_reached"
       ELSE CASE step = t.step -> IF t.state = "WAITING" THEN "waiting"
                                  ELSE IF last = "rejected" THEN "reworking" ELSE "running"
              [] step < t.step -> IF last = "accepted" THEN "accepted" ELSE "pending"
              [] OTHER -> IF last = "rejected" THEN "went_back"
                          ELSE IF last = "accepted" THEN "redo" ELSE "pending"

\* steps_view.
SpentOn(views) == FoldSet(LAMBDA v, sum : sum + v[2].spent, 0, views)
StepView(step, p) ==
    LET views == {<<i, AttemptView(i, p)>> : i \in Of(step, p)} IN
    [status |-> StepStatus(step, p), times |-> Cardinality(views),
     rejected |-> Cardinality({v \in views : v[2].outcome = "rejected"}),
     spent |-> SpentOn(views)]

\* position.
Left(p) == IF Steps > p.got["task"].step THEN Steps - p.got["task"].step ELSE 0

\* _running_cost: the reports after the latest step/started, if that is of the active attempt.
\* Mutant: whatever was reported last.
RunningCostOfTheLog(t, events) ==
    LET said == {i \in DOMAIN events : events[i].type = "usage"}
    IN IF t.state # "RUNNING" \/ t.active = 0 \/ said = {} THEN 0 ELSE events[Max(said)].n
RunningCost(t, events) ==
    LET begun == {i \in DOMAIN events : events[i].type = "step/started"}
        said == {i \in DOMAIN events : events[i].type = "usage" /\ \A j \in begun : j < i}
    IN IF t.state # "RUNNING" \/ t.active = 0 \/ begun = {} \/ said = {} THEN 0
       ELSE IF events[Max(begun)].try # t.active THEN 0
       ELSE events[Max(said)].n

\* budget_view.
Spent(p) == p.got["task"].used + p.got["running"]

\* _reason: the latest change to the state the task was read in.
Reason(t, events) ==
    LET to == {i \in DOMAIN events : events[i].type = "task/state" /\ events[i].n[1] = t.state}
    IN IF to = {} THEN "" ELSE events[Max(to)].n[2]

\* doing_of, over the first events after the start of the attempt.
DoingOf(events) ==
    LET told == {i \in DOMAIN events : events[i].type \in {"turn/started", "turn/completed"}}
    IN IF told = {} THEN "queued"
       ELSE IF events[Max(told)].type = "turn/started" THEN "thinking" ELSE "checking"
Since(t, events) ==
    LET begun == {i \in DOMAIN events : events[i].type = "step/started" /\ events[i].try = t.active}
    IN IF t.active = 0 \/ begun = {} THEN <<>> ELSE SubSeq(events, Max(begun) + 1, Len(events))
Doing(t, events) ==
    CASE t.state \in Ended -> "none"
      [] t.state = "WAITING" -> IF t.why = "environment" THEN "offline" ELSE "waiting"
      [] OTHER -> DoingOf(SubSeq(Since(t, events), 1, Min({EventLimit, Len(Since(t, events))})))
\* now_view, its `redo`.
Redo(p) ==
    /\ p.got["task"].state \in {"QUEUED", "RUNNING"}
    /\ StepView(IF p.got["task"].step < Steps THEN p.got["task"].step ELSE Steps - 1, p).rejected > 0

\* head_of and block_view.
HeadOf(p) ==
    LET s == p.got["task"].state IN
    CASE s = "SUCCEEDED" -> "done"
      [] s # "SUCCEEDED" /\ p.got["missing"] -> "no_data"
      [] s \in {"FAILED", "CANCELLED"} /\ ~p.got["missing"] -> "stopped"
      [] OTHER -> "running"
Block(step, p) == IF p.got["artifacts"][step] = 0 THEN "not_reached" ELSE "done"
\* dossier_view.
Dossier(p) ==
    [head |-> HeadOf(p), blocks |-> [k \in Index |-> Block(k, p)],
     how |-> [k \in Index |-> StepView(k, p)]]

\* review_view: the step is the one the task is at now; a question whose time is
\* over is shown as expired, whatever its row says.
ReviewStatus(p) ==
    IF p.got["interaction"].status = "pending" /\ p.got["interaction"].late THEN "expired"
    ELSE p.got["interaction"].status
Why(p) ==
    LET q == p.got["interaction"] IN
    CASE q.kind = "resource" -> "budget"
      [] q.kind = "tool_approval" -> "out of bounds"
      [] q.kind = "input" /\ q.missing -> "no data"
      [] OTHER -> "not accepted"
Review(p) ==
    [status |-> ReviewStatus(p), why |-> Why(p), step |-> p.got["task"].step,
     failed |-> \E i \in Of(p.got["task"].step, p) :
                   i = Max(Of(p.got["task"].step, p)) /\ AttemptView(i, p).returned = "kept"]

\* overview: what waits for me, and the tasks that are at work or have come back.
Waiting(p) == p.got["interaction"].status = "pending" /\ ~p.got["interaction"].late
Returned(p) == p.got["tasks"].state \in Ended
Running(p) == ~Returned(p) /\ ~Waiting(p)

-----------------------------------------------------------------------------
(* A request reads one thing after the other. *)

StepsReads == <<"task", "attempts", "verdicts", "reason", "running", "now">>
DossierReads == <<"task", "attempts", "verdicts", "artifacts", "missing", "reason", "running">>
ReviewReads == <<"interaction", "task", "attempts", "verdicts">>
OverviewReads == Append(ReviewReads, "tasks")
Reads(kind) ==
    CASE kind = "steps" -> StepsReads [] kind = "dossier" -> DossierReads
      [] kind = "review" -> ReviewReads [] kind = "overview" -> OverviewReads

\* list_task_events.
TaskEvents(types) == {log[i] : i \in {j \in DOMAIN log : log[j].type \in types}}
Verdicts == {e.try : e \in TaskEvents({"step/accepted", "step/rejected"})}

ReadOf(r, p) ==
    CASE r \in {"task", "tasks"} -> row
      [] r = "attempts" -> tries
      [] r = "verdicts" -> Verdicts
      [] r = "artifacts" -> latest
      [] r = "missing" -> TaskEvents({"data.missing"}) # {}
      [] r = "reason" -> Reason(p.got["task"], log)
      [] r = "running" -> RunningCost(p.got["task"], log)
      [] r = "now" -> Doing(p.got["task"], log)
      [] r = "interaction" -> ask

With(p, r) ==
    [p EXCEPT !.left = Tail(@),
              !.got = [x \in DOMAIN @ \cup {r} |-> IF x = r THEN ReadOf(r, p) ELSE @[x]]]

\* The request and its first read, and each later read.
AskFor(kind) ==
    /\ page = NoPage
    /\ kind \in {"review", "overview"} => ask.status # "none"
    /\ page' = With([NoPage EXCEPT !.kind = kind, !.since = Len(log), !.left = Reads(kind)], Reads(kind)[1])
    /\ UNCHANGED writer
ReadOn ==
    /\ page.left # <<>> /\ page' = With(page, page.left[1])
    /\ UNCHANGED writer

DeskNext ==
    \/ Drive \/ NextStep \/ Announce \/ TurnStarted \/ TurnReports \/ TurnAsks \/ TurnEnds \/ TurnGivenUp
    \/ Settle \/ Accept \/ Requeue \/ Finish \/ Reject \/ NoDataEvent \/ Judge \/ Question \/ GiveUp
    \/ (\E choice \in {"go", "stop"} : AnswerTo(choice)) \/ CancelIt \/ BackOnline \/ Expires \/ Dies
    \/ (\E kind \in Pages : AskFor(kind)) \/ ReadOn

DeskSpec == DeskInit /\ [][DeskNext]_deskVars

-----------------------------------------------------------------------------
(* What a page says, however the driver moves between its reads. *)

Shown(kind) == page.kind = kind /\ page.left = <<>>
\* What the first i attempts have cost.
CostOf(attempts) ==
    LET upTo[i \in 0..Len(attempts)] == IF i = 0 THEN 0 ELSE upTo[i - 1] + attempts[i].cost IN upTo
CostUpToNow == CostOf(tries)[Len(tries)]

DoneMeansDone ==
    \A kind \in {"steps", "dossier"} :
       Shown(kind) /\ page.got["task"].state = "SUCCEEDED" =>
          /\ \A k \in Index : StepView(k, page).status = "accepted"
          /\ Left(page) = 0 /\ ~Redo(page)
          /\ kind = "dossier" => /\ Dossier(page).head = "done"
                                 /\ \A k \in Index : Dossier(page).blocks[k] = "done"
NeverMoreThanSpent ==
    \A kind \in {"steps", "dossier"} : Shown(kind) => Spent(page) <= CostUpToNow
EndHasItsReason ==
    \A kind \in {"steps", "dossier"} :
       Shown(kind) /\ page.got["task"].state \in {"FAILED", "CANCELLED"} => page.got["reason"] # ""

\* A page that says a task is done shows every step accepted and every part of the
\* dossier; the money it shows was spent; the end of a task has its reason
\* (expert_desk.py: steps, dossier; step_view.py: step_status, budget_view).
PageIsTrue == DoneMeansDone /\ NeverMoreThanSpent /\ EndHasItsReason

(* Not kept: the reads of a page are of different moments, and some rules look at  *)
(* less than they say.                                                               *)

\* "Went back" and "to be done again" are shown only when the task went back.
BackIsBack ==
    Shown("steps") /\ (\E k \in Index : StepView(k, page).status \in {"went_back", "redo"}) => Backs # {}

\* The total covers what the steps of the same page have cost.
StepsAddUp ==
    Shown("steps") => FoldSet(LAMBDA k, sum : sum + StepView(k, page).spent, 0, Index) <= Spent(page)

\* While the task waits, what its turn has cost is shown.
CostOfWaitShown ==
    Shown("steps") /\ page.got["task"] = row /\ row.state = "WAITING" => Spent(page) = CostUpToNow

\* "No data" is shown only while that is what the task stopped at.
HeadIsCurrent ==
    Shown("dossier") /\ Dossier(page).head = "no_data" => ask.missing /\ page.got["task"].state # "RUNNING"

\* The review of a question shows the step the question is about.
ReviewIsOfItsStep == Shown("review") => Review(page).step = page.got["interaction"].step

\* A task is either to be decided or handed back.
ListedOnce == Shown("overview") => ~(Waiting(page) /\ Returned(page))

\* What the page says is being done is the latest there was when it looked.
NowFollowsLog ==
    [][page.left # <<>> /\ page.left[1] = "now" /\ page' # page /\ page.got["task"] = row
         /\ row.state = "RUNNING" => page'.got["now"] = DoingOf(Since(row, log))]_deskVars
=============================================================================
