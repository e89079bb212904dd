------------------------------- MODULE Approvals -------------------------------
(* Requests of the turns of one thread for a decision (runner.py:560-1150,          *)
(* tool_policy.py): by the policy of the expert's step, by a grant of an earlier      *)
(* answer, or by the person, whose answer travels through the command table to the     *)
(* future the handler waits on.  Handlers run side by side while the wheel, the          *)
(* task, its step and the connection to the app-server change under them.                *)
EXTENDS Integers, Sequences, FiniteSets

CONSTANTS
    Requests,       \* requests of the app-server
    Subjects,       \* what the turns of a driver ask for: [cat, cmd], the category and, of a
                    \* command, its first two tokens
    Pack,           \* the tool policy of an expert: a tier by category, allow, questions
    Override,       \* what a step says otherwise, Unset where it says nothing
    MaxTurns, MaxDrives,
    Unset, NoRequest

Steps == DOMAIN Override
Tiers == {"allow", "ask", "deny"}
Strictness(tier) == CASE tier = "allow" -> 0 [] tier = "ask" -> 1 [] tier = "deny" -> 2
TierCats == {"file_in", "file_out", "command", "network"}

\* merge_policy refuses a pack with a step that relaxes it.
ASSUME StepsOnlyTighten ==
    \A s \in Steps, c \in TierCats :
        Override[s][c] # Unset => Strictness(Override[s][c]) >= Strictness(Pack[c])

ASSUME RequestsAreFinite == IsFiniteSet(Requests)

VARIABLES
    wheel, handovers, step,     \* who drives, how often the wheel was handed over, the task's cursor
    ask, current,               \* the request the task waits on; its version has not moved since
    turn, turns,                \* turns in flight, by driver; turns so far
    rq,                         \* the handler of a request, and what it has read
    inter, said,                \* the interaction of a request, and the person's answer to it
    commands,                   \* commands of the web process for this runner
    future,                     \* pending_approvals, by the number of a request
    grants,                     \* workbench_tool_grants
    stop,                       \* user_stops
    astray,                     \* ghost: the result of a turn took the stop of another one
    numbers                     \* how many numbers the app-server has given since it started

threadVars == <<wheel, handovers, step, ask, current>>
turnVars == <<turn, turns, stop, astray>>
approvalVars == <<threadVars, turnVars, rq, inter, said, commands, future, grants, numbers>>

Drivers == {"user", "expert"}
Numbers == 1..Cardinality(Requests)
NoSubject == [cat |-> "none", cmd |-> ""]
Fresh == [at |-> "none", by |-> "user", turn |-> 0, number |-> 0, what |-> NoSubject,
          task |-> 0, drive |-> 0, step |-> 0, answer |-> "none", decision |-> "none", source |-> "none"]

ApprovalInit ==
    /\ wheel = "user" /\ handovers = 0 /\ step = 1 /\ ask = NoRequest /\ current = TRUE
    /\ turn = [d \in Drivers |-> 0] /\ turns = 0
    /\ rq = [r \in Requests |-> Fresh]
    /\ inter = [r \in Requests |-> "none"] /\ said = [r \in Requests |-> "none"]
    /\ commands = <<>> /\ future = [n \in Numbers |-> NoRequest] /\ grants = {}
    /\ stop = NoRequest /\ astray = FALSE
    /\ numbers = 0

At(r, stage) == rq[r].at = stage
Go(r, stage) == rq' = [rq EXCEPT ![r].at = stage]
IsQuestion(r) == rq[r].what.cat \in {"question", "secret"}

-----------------------------------------------------------------------------
(* The policy. *)

Says(s, c) == IF Override[s][c] = Unset THEN Pack[c] ELSE Override[s][c]
PolicyOf(s) ==
    [tier |-> [c \in TierCats |-> Says(s, c)], allow |-> Pack.allow \cup Override[s].allow,
     questions |-> Says(s, "questions"), max |-> Says(s, "max")]

\* tier_of and decide
Tier(policy, what) ==
    IF what.cat \notin TierCats THEN "ask"
    ELSE IF what.cat = "command" /\ policy.tier[what.cat] = "ask" /\ what.cmd \in policy.allow THEN "allow"
    ELSE policy.tier[what.cat]

\* _where: the task whose expert drives
TaskNow == IF wheel = "advisor" THEN handovers ELSE 0

InLog(q) == At(q, "done") /\ ~IsQuestion(q)
Declined(t, s) ==
    t # 0 /\ \E q \in Requests : InLog(q) /\ rq[q].task = t /\ rq[q].step = s
                                 /\ rq[q].decision \in {"decline", "cancel"}

\* grant_matches
Covers(g, what) == g.cat = what.cat /\ (what.cat = "command" => what.cmd # "" /\ g.cmd = what.cmd)
\* list_tool_grants: of the task, or of the conversation since the last handover
GrantsOfAnyTask(t) == grants
GrantsOf(t) == {g \in grants : g.task = t /\ (t = 0 => g.handovers = handovers)}

Asked(t, s) == {q \in Requests : rq[q].what.cat = "question" /\ inter[q] # "none" /\ rq[q].task = t /\ rq[q].step = s}
Refused(r) ==
    /\ wheel = "advisor"
    /\ \/ rq[r].what.cat = "secret"
       \/ PolicyOf(step).questions = "deny"
       \/ Cardinality(Asked(TaskNow, step)) >= PolicyOf(step).max

-----------------------------------------------------------------------------
(* The app-server: turns and their requests. *)

StartTurn(d) ==
    /\ turn[d] = 0 /\ turns < MaxTurns
    /\ d = "user" <=> wheel = "user"
    /\ ask = NoRequest
    /\ turns' = turns + 1
    /\ turn' = [turn EXCEPT ![d] = turns + 1]
    /\ UNCHANGED <<threadVars, stop, astray, rq, inter, said, commands, future, grants, numbers>>

Request(r, d, what) ==
    /\ At(r, "none") /\ turn[d] # 0 /\ numbers < Cardinality(Requests)
    /\ numbers' = numbers + 1
    /\ rq' = [rq EXCEPT ![r] = [Fresh EXCEPT !.at = "new", !.by = d, !.turn = turn[d], !.number = numbers + 1,
                                             !.what = what]]
    /\ UNCHANGED <<threadVars, turnVars, inter, said, commands, future, grants>>

\* A turn ends by itself, is stopped, or is given up after 900 s, whatever its
\* requests are at.  The result of the expert's turn takes the stop of the
\* thread, and the driver's next write moves the version of the task.
TurnEnds(d) ==
    /\ turn[d] # 0
    /\ turn' = [turn EXCEPT ![d] = 0]
    /\ IF d = "expert"
       THEN /\ astray' = (astray \/ (stop # NoRequest /\ rq[stop].turn # turn[d]))
            /\ stop' = NoRequest /\ current' = (ask = NoRequest)
            /\ \E s \in Steps : s \in (IF wheel = "user" THEN {1} ELSE {step, step + 1}) /\ step' = s
       ELSE UNCHANGED <<astray, stop, current, step>>
    /\ UNCHANGED <<wheel, handovers, ask, turns, rq, inter, said, commands, future, grants, numbers>>

\* The app-server dies with its turns (the driver gives its own up later); the
\* handlers of the runner wait on.  The new one numbers its requests from 1.
ServerRestarts ==
    /\ numbers' = 0
    /\ turn' = [turn EXCEPT !["user"] = 0]
    /\ UNCHANGED <<threadVars, turns, stop, astray, rq, inter, said, commands, future, grants>>

-----------------------------------------------------------------------------
(* The wheel (Ledger has the transactions). *)

HandOver ==
    /\ wheel = "user" /\ handovers < MaxDrives /\ turn["expert"] = 0
    /\ wheel' = "advisor" /\ handovers' = handovers + 1
    /\ UNCHANGED <<step, ask, current, turnVars, rq, inter, said, commands, future, grants, numbers>>

\* An answered task is queued while its turn goes on, and can be cancelled there.
Requeued == \E r \in Requests : inter[r] = "consumed" /\ rq[r].task = handovers /\ rq[r].turn = turn["expert"]

\* The task ends: by its driver, or by a cancel, which interrupts a task that waits.
TaskEnds ==
    /\ wheel = "advisor"
    /\ turn["expert"] = 0 \/ Requeued \/ ask # NoRequest
    /\ wheel' = "user" /\ ask' = NoRequest /\ current' = TRUE /\ step' = 1
    /\ inter' = [r \in Requests |-> IF inter[r] = "pending" /\ rq[r].task = handovers THEN "cancelled" ELSE inter[r]]
    /\ commands' = IF ask = NoRequest THEN commands ELSE Append(commands, [kind |-> "interrupt"])
    /\ UNCHANGED <<handovers, turnVars, rq, said, future, grants, numbers>>

-----------------------------------------------------------------------------
(* The handler of a request. *)

\* on_server_request and _on_user_input, up to the decision; the reads of one
\* handler follow each other at once.
Look(r) ==
    LET what == rq[r].what
        declined == Declined(TaskNow, step)
        granted == ~declined /\ \E g \in GrantsOf(TaskNow) : Covers(g, what)
        tier == IF wheel = "user" \/ declined THEN "ask" ELSE Tier(PolicyOf(step), what)
        read == [rq[r] EXCEPT !.task = TaskNow, !.drive = handovers, !.step = IF TaskNow = 0 THEN 0 ELSE step]
    IN
    /\ At(r, "new")
    /\ rq' = [rq EXCEPT ![r] =
           IF IsQuestion(r) THEN [read EXCEPT !.at = IF Refused(r) THEN "refused" ELSE "asking"]
           ELSE IF granted THEN [read EXCEPT !.at = "decided", !.decision = "accept", !.source = "task_grant"]
           ELSE IF tier = "ask" THEN [read EXCEPT !.at = "asking"]
           ELSE [read EXCEPT !.at = "decided", !.source = "policy",
                             !.decision = IF tier = "allow" THEN "accept" ELSE "decline"]]
    /\ UNCHANGED <<threadVars, turnVars, inter, said, commands, future, grants, numbers>>

\* The decision is logged and answered; a refused question gets no answers.
Settle(r) ==
    /\ rq[r].at \in {"decided", "refused"}
    /\ Go(r, "done")
    /\ UNCHANGED <<threadVars, turnVars, inter, said, commands, future, grants, numbers>>

\* _open_ask: a task moves to WAITING with the question, and when it cannot the
\* app-server gets an error; while the user drives only the interaction is opened.
OpenAsk(r) ==
    LET t == rq[r].task IN
    /\ At(r, "asking")
    /\ IF t = 0 \/ (t = TaskNow /\ ask = NoRequest)
       THEN /\ inter' = [inter EXCEPT ![r] = "pending"] /\ Go(r, "opened")
            /\ IF t = 0 THEN UNCHANGED <<ask, current>> ELSE ask' = r /\ current' = TRUE
       ELSE Go(r, "error") /\ UNCHANGED <<ask, current, inter>>
    /\ UNCHANGED <<wheel, handovers, step, turnVars, said, commands, future, grants, numbers>>

\* _wait_answer: the future is in the table after the question has been published.
Register(r) ==
    /\ At(r, "opened")
    /\ Go(r, "waiting")
    /\ future' = [future EXCEPT ![rq[r].number] = r]
    /\ UNCHANGED <<threadVars, turnVars, inter, said, commands, grants, numbers>>

\* respond_interaction
Answerable(r) == inter[r] = "pending" /\ (rq[r].task # 0 => ask = r /\ current)
Consume(r) ==
    /\ inter' = [inter EXCEPT ![r] = "consumed"]
    /\ IF rq[r].task # 0 THEN ask' = NoRequest /\ current' = TRUE ELSE UNCHANGED <<ask, current>>

Offered(r) == IF IsQuestion(r) THEN {"answer"} ELSE {"accept", "accept_task", "decline", "cancel"}

\* The person answers: the question is consumed, the answer is sent to the runner.
Answer(r, d) ==
    /\ Answerable(r) /\ d \in Offered(r)
    /\ Consume(r) /\ said' = [said EXCEPT ![r] = d]
    /\ commands' = Append(commands, [kind |-> "respond", number |-> rq[r].number, answer |-> d])
    /\ UNCHANGED <<wheel, handovers, step, turnVars, rq, future, grants, numbers>>

\* resolve_approval: a command that finds no future fails.
Waits(r) == At(r, "waiting") /\ future[rq[r].number] = r
DeliverAnswer ==
    /\ commands # <<>> /\ Head(commands).kind = "respond"
    /\ commands' = Tail(commands)
    /\ LET r == future[Head(commands).number] IN
       rq' = IF r # NoRequest /\ At(r, "waiting")
             THEN [rq EXCEPT ![r].at = "woken", ![r].answer = Head(commands).answer] ELSE rq
    /\ UNCHANGED <<threadVars, turnVars, inter, said, future, grants, numbers>>

\* handle(turn.interrupt) of a cancelled task: release_waits; the turn is told to stop.
DeliverInterrupt ==
    /\ commands # <<>> /\ Head(commands).kind = "interrupt"
    /\ commands' = Tail(commands)
    /\ rq' = [r \in Requests |-> IF Waits(r) THEN [rq[r] EXCEPT !.at = "released"] ELSE rq[r]]
    /\ UNCHANGED <<threadVars, turnVars, inter, said, future, grants, numbers>>

\* Whoever waited on this number last leaves with the entry.
Forget(r) == future' = [future EXCEPT ![rq[r].number] = NoRequest]

\* An hour without an answer
Expire(r) ==
    /\ At(r, "waiting")
    /\ Go(r, "expired") /\ Forget(r)
    /\ UNCHANGED <<threadVars, turnVars, inter, said, commands, grants, numbers>>

\* _settle_timeout closes the question if the ledger lets it.
CloseExpired(r) ==
    /\ At(r, "expired")
    /\ Go(r, "closed")
    /\ IF Answerable(r) THEN Consume(r) ELSE UNCHANGED <<inter, ask, current>>
    /\ UNCHANGED <<wheel, handovers, step, turnVars, said, commands, future, grants, numbers>>

\* What _ask_human makes of the end of a wait.
DecisionAcceptingSilence(r) ==
    IF ~At(r, "woken") THEN "accept" ELSE IF rq[r].answer = "accept_task" THEN "accept" ELSE rq[r].answer
Decision(r) ==
    IF ~At(r, "woken") THEN "cancel" ELSE IF rq[r].answer = "accept_task" THEN "accept" ELSE rq[r].answer
SourceOf(r) == CASE At(r, "woken") -> "user" [] At(r, "released") -> "cancelled" [] At(r, "closed") -> "timeout"
GrantFrom(r) ==
    IF At(r, "woken") /\ rq[r].answer = "accept_task"
    THEN {[task |-> rq[r].task, cat |-> rq[r].what.cat, cmd |-> rq[r].what.cmd, handovers |-> handovers, from |-> r]}
    ELSE {}

Close(r) ==
    /\ rq[r].at \in {"woken", "released", "closed"}
    /\ rq' = [rq EXCEPT ![r].at = "done", ![r].answer = "none", ![r].decision = Decision(r), ![r].source = SourceOf(r)]
    /\ IF At(r, "closed") THEN UNCHANGED future ELSE Forget(r)
    /\ stop' = IF Decision(r) = "cancel" THEN r ELSE stop
    /\ UNCHANGED <<threadVars, turn, turns, astray, inter, said, commands, numbers>>

\* _ask_human after the wait: the grant and the log, then the stop of the thread,
\* then the answer to the app-server.
FinishApproval(r) == ~IsQuestion(r) /\ Close(r) /\ grants' = grants \cup GrantFrom(r)

\* _on_user_input after the wait: the answers, or none and a stop of the thread.
FinishQuestion(r) == IsQuestion(r) /\ Close(r) /\ UNCHANGED grants

Handler(r) == Look(r) \/ Settle(r) \/ OpenAsk(r) \/ Register(r) \/ Expire(r) \/ CloseExpired(r)
              \/ FinishApproval(r) \/ FinishQuestion(r)

ApprovalNext ==
    \/ \E d \in Drivers : StartTurn(d) \/ TurnEnds(d)
    \/ \E r \in Requests, d \in Drivers : \E what \in Subjects[d] : Request(r, d, what)
    \/ \E r \in Requests : Handler(r)
    \/ \E r \in Requests : \E d \in Offered(r) : Answer(r, d)
    \/ DeliverAnswer \/ DeliverInterrupt
    \/ HandOver \/ TaskEnds \/ ServerRestarts

ApprovalSpec == ApprovalInit /\ [][ApprovalNext]_approvalVars

-----------------------------------------------------------------------------
Decided(r) == rq[r].source # "none"
By(r, source) == Decided(r) /\ rq[r].source = source

\* What the person has answered under the number of r: an answer knows the request
\* it is for by its number alone.
Heard(r, answers) == \E q \in Requests : rq[q].number = rq[r].number /\ said[q] \in answers

\* A grant that lets a request through comes from an earlier one of the same task
\* and the same kind, and somebody answered so under its number
\* (repository.py:2169, tool_policy.py:166).
GrantIsGiven ==
    \A r \in Requests : By(r, "task_grant") =>
        \E g \in grants : /\ Heard(g.from, {"accept_task"}) /\ Covers(g, rq[r].what)
                          /\ rq[g.from].task = rq[r].task

\* What the app-server may do was accepted by the person under the number of this
\* request, unless policy or a grant said so: never out of silence, of a cancel,
\* of an interrupt or of a wait that another request of the number took over,
\* through restarts of the app-server too (runner.py:786 and 1143).
AcceptedByThePerson ==
    \A r \in Requests : Decided(r) /\ rq[r].decision = "accept" =>
        By(r, "policy") \/ By(r, "task_grant") \/ Heard(r, {"accept", "accept_task"})

-----------------------------------------------------------------------------
(* What does not hold. *)

\* "A sandbox that is recycled is a new process" (runner.py:139), whose first request
\* has the number of an old one: the answer to that one is not an answer to this.
AcceptedForThisRequest ==
    \A r \in Requests : Decided(r) /\ rq[r].decision = "accept" =>
        By(r, "policy") \/ By(r, "task_grant") \/ said[r] \in {"accept", "accept_task"}

\* "All of this kind in this drive" (_ask_human): until the next handover.
GrantStaysInItsDrive ==
    \A r \in Requests : By(r, "task_grant") /\ rq[r].task = 0 =>
        \E g \in grants : Covers(g, rq[r].what) /\ g.task = 0 /\ rq[g.from].drive = rq[r].drive

\* The policy speaks for the turns of the expert only.
PolicyIsForExperts == \A r \in Requests : By(r, "policy") => rq[r].by = "expert"

\* The result of a turn says that the user stopped it when a request of it was stopped.
StopIsOfItsTurn == ~astray

\* A step asks no more questions than its policy allows.
QuestionsWithinLimit ==
    \A t \in 1..MaxDrives, s \in Steps : Cardinality(Asked(t, s)) <= PolicyOf(s).max

\* What the person answered is what the app-server is told.
AnswerIsTaken == \A r \in Requests : Decided(r) /\ said[r] # "none" => By(r, "user")
=============================================================================
