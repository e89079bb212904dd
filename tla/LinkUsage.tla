------------------------------ MODULE LinkUsage ------------------------------
(* What a conversation has used, as SandboxLink records it.  The app-server    *)
(* reports each call of the model with the thread's total and the call itself;   *)
(* the link handles one report at a time, works out what is new since the total   *)
(* it knows, and appends that to the log of the conversation.  Reports are lost   *)
(* with a connection, and repeated when a thread is resumed; a link forgets its    *)
(* totals with its process and reads them back from the log.  One conversation,    *)
(* one thread; tokens stand for the four kinds of them.                            *)
EXTENDS SessionLog

CONSTANTS
    Costs,      \* tokens of one call
    MaxWire,    \* reports on their way
    Unseen, NoTotal, Nothing

ASSUME LinkUsageAssumption ==
    /\ Costs \subseteq Nat \ {0}
    /\ {Unseen, NoTotal, Nothing} \cap Nat = {} /\ Unseen # NoTotal
    /\ Nothing \notin [type : {"usage"}, total : Nat, tokens : Nat]

VARIABLES
    spent,      \* the app-server's total of the thread
    call,       \* and its last call
    up,         \* the connection
    wire,       \* reports the link has not handled
    total,      \* SandboxLink.totals: not in the table, known to be unknown, or a number
    taken,      \* the report priced and not yet stored
    calls,      \* calls the model may still make
    faults,     \* failures left
    dropped,    \* ghost: a priced report could not be stored
    forgot      \* ghost: the totals could not be read back

linkVars == <<spent, call, up, wire, total, taken, calls, faults, dropped, forgot>>

Report == [total |-> spent, last |-> call]

LinkInit ==
    /\ spent = 0 /\ call = 0
    /\ up = FALSE /\ wire = <<>>
    /\ total = Unseen /\ taken = Nothing
    /\ dropped = FALSE /\ forgot = FALSE

\* Codex: a turn goes on whether or not somebody listens.
ModelCall(n) ==
    /\ calls > 0 /\ Len(wire) < MaxWire
    /\ calls' = calls - 1
    /\ spent' = spent + n /\ call' = n
    /\ wire' = IF up THEN Append(wire, Report') ELSE wire
    /\ UNCHANGED <<up, total, taken, faults, dropped, forgot, log, reader>>

\* The frames that had arrived are still handled.
LinkDown ==
    /\ up /\ faults > 0
    /\ faults' = faults - 1
    /\ up' = FALSE
    /\ \E n \in 0..Len(wire) : wire' = SubSeq(wire, 1, n)
    /\ UNCHANGED <<spent, call, total, taken, calls, dropped, forgot, log, reader>>

\* ensure_connected waits for the old reader to end; ensure_thread resumes the
\* thread, and Codex reports its last usage once more.
LinkUp ==
    /\ ~up /\ wire = <<>> /\ taken = Nothing
    /\ up' = TRUE
    /\ wire' = IF spent = 0 THEN <<>> ELSE <<Report>>
    /\ UNCHANGED <<spent, call, total, taken, calls, faults, dropped, forgot, log, reader>>

\* The process ends, or the lease is lost and the link dropped.
LinkRestart ==
    /\ faults > 0
    /\ faults' = faults - 1
    /\ up' = FALSE /\ wire' = <<>> /\ taken' = Nothing /\ total' = Unseen
    /\ UNCHANGED <<spent, call, calls, dropped, forgot, log, reader>>

\* recall_total: the total of the last report in the log.
Recalled ==
    IF total # Unseen THEN total
    ELSE IF Usages = {} THEN NoTotal ELSE log[Max(Usages)].total

NewTokensAsReported(report) == report.last
NewTokensOfTheCall(report) == IF report.total = Recalled THEN 0 ELSE report.last
\* fresh_usage
NewTokens(report) ==
    IF Recalled # NoTotal /\ report.total >= Recalled THEN report.total - Recalled ELSE report.last

\* on_notification up to the transaction: a report with nothing new is dropped.
TakeReport ==
    /\ wire # <<>> /\ taken = Nothing
    /\ LET report == Head(wire) IN
       /\ total' = report.total
       /\ taken' = IF NewTokens(report) = 0 THEN Nothing
                   ELSE [type |-> "usage", total |-> report.total, tokens |-> NewTokens(report)]
    /\ wire' = Tail(wire)
    /\ UNCHANGED <<spent, call, up, calls, faults, dropped, forgot, log, reader>>

\* The query of recall_total fails after the table has been told "unknown".
RecallFails ==
    /\ wire # <<>> /\ taken = Nothing /\ total = Unseen /\ faults > 0
    /\ faults' = faults - 1
    /\ total' = NoTotal /\ wire' = Tail(wire)
    /\ forgot' = TRUE
    /\ UNCHANGED <<spent, call, up, taken, calls, dropped, log, reader>>

Store ==
    /\ taken # Nothing
    /\ log' = Append(log, taken)
    /\ taken' = Nothing
    /\ UNCHANGED <<spent, call, up, wire, total, calls, faults, dropped, forgot, reader>>

StoreFails ==
    /\ taken # Nothing /\ faults > 0
    /\ faults' = faults - 1
    /\ taken' = Nothing /\ dropped' = TRUE
    /\ UNCHANGED <<spent, call, up, wire, total, calls, forgot, log, reader>>

LinkNext ==
    \/ \E n \in Costs : ModelCall(n)
    \/ LinkDown \/ LinkUp \/ LinkRestart \/ TakeReport \/ RecallFails \/ StoreFails

-----------------------------------------------------------------------------
\* The tokens of the usage entries among some events.
TokensIn(events) ==
    LET upTo[i \in 0..Len(events)] ==
          IF i = 0 THEN 0
          ELSE upTo[i - 1] + (IF events[i].type = "usage" THEN events[i].tokens ELSE 0)
    IN upTo[Len(events)]
Recorded == TokensIn(log)
Known == Recorded + (IF taken = Nothing THEN 0 ELSE taken.tokens)
\* What was spent before the first report that arrived.
Before == IF Usages = {} THEN 0 ELSE Min({log[i].total - log[i].tokens : i \in Usages})

\* A conversation is never charged more than it used, through lost, repeated
\* and missed reports and restarts of the link (pricing.py:157-170).
NeverOvercharged == ~forgot => Known <= spent
\* The same without its proviso: "repeated reports count zero" (pricing.py:161).
UsageIsNeverMoreThanSpent == Known <= spent

\* Once a later report is in, what was missed on the way is in the log too.
MissedIsMadeUp ==
    ~forgot /\ ~dropped /\ taken = Nothing /\ Usages # {} /\ total \notin {Unseen, NoTotal} =>
        Recorded = total - Before
=============================================================================
