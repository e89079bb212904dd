----------------------------- MODULE MachineSync -----------------------------
(* A user's machines as the runners keep them (machines.py): every so often     *)
(* each runner asks the relay which agent is there, and in one transaction books  *)
(* the machine as online and the others as offline, asks for the recovery of a     *)
(* task that lost its machine, and records the permission decisions the agent       *)
(* reported; once that has committed, the relay gets a receipt for each report.     *)
(* One user, one conversation, which works on the first machine.                    *)
EXTENDS SessionLog

CONSTANTS
    Syncs,      \* runner processes, each with its MachineSync
    Names,      \* names of machines
    Reports,    \* reports an agent may make: [id, scope]
    MaxRows,    \* machine rows
    NoMachine, Unnamed

ASSUME MachineSyncAssumption ==
    /\ \A e \in Reports : DOMAIN e = {"id", "scope"}
    /\ {NoMachine, Unnamed} \cap Names = {}

VARIABLES
    agent,      \* who is connected to the relay
    queued,     \* reports the relay keeps until they are receipted
    expired,    \* reports whose expiresAt has passed
    receipt,    \* what the agent has been told of a report
    rows,       \* workbench_environments of the user, by created_at
    waiting,    \* a task of the conversation waits for its machine
    reconnects, \* task.reconnect commands that are pending
    sync,       \* what each runner's sync is doing
    rounds,     \* rounds that may still begin
    losses      \* failures left

machineVars == <<agent, queued, expired, receipt, rows, waiting, reconnects, sync, rounds, losses>>

Bound == 1      \* the row of the conversation's machine
Resting == [at |-> "idle", agent |-> NoMachine, reports |-> {}, row |-> 0, off |-> {},
            record |-> {}, asks |-> FALSE]

MachineInit ==
    /\ agent \in Names
    /\ queued = {} /\ expired = {}
    /\ receipt = [e \in Reports |-> "none"]
    /\ \E n \in Names : rows = <<[name |-> n, online |-> agent = n]>>
    /\ waiting = TRUE /\ reconnects = 0
    /\ sync = [y \in Syncs |-> Resting]

-----------------------------------------------------------------------------
(* The relay and the agent. *)

\* The relay is followed while there are rounds that will look at it.
Watched == rounds > 0

\* A person has one agent connected: the new one replaces the old one.
AgentChanges(n) ==
    /\ Watched /\ n # agent
    /\ agent' = n
    /\ UNCHANGED <<queued, expired, receipt, rows, waiting, reconnects, sync, rounds, losses, log, reader>>

AgentReports(e) ==
    /\ Watched /\ agent # NoMachine
    /\ e \notin queued /\ receipt[e] = "none" /\ e \notin expired
    /\ queued' = queued \cup {e}
    /\ UNCHANGED <<agent, expired, receipt, rows, waiting, reconnects, sync, rounds, losses, log, reader>>

ReportExpires(e) ==
    /\ e \in queued \ expired
    /\ Watched \/ \E y \in Syncs : e \in sync[y].reports
    /\ expired' = expired \cup {e}
    /\ UNCHANGED <<agent, queued, receipt, rows, waiting, reconnects, sync, rounds, losses, log, reader>>

-----------------------------------------------------------------------------
(* One round of a sync: the relay is asked before the transaction begins. *)

Begin(y) ==
    /\ sync[y].at = "idle" /\ rounds > 0
    /\ rounds' = rounds - 1
    /\ sync' = [sync EXCEPT ![y] = [Resting EXCEPT !.at = "asked", !.agent = agent, !.reports = queued]]
    /\ UNCHANGED <<agent, queued, expired, receipt, rows, waiting, reconnects, losses, log, reader>>

\* Row locks of the other syncs' transactions.
LockedRows(y) ==
    UNION {(IF sync[z].row = 0 THEN {} ELSE {sync[z].row}) \cup sync[z].off :
             z \in {x \in Syncs \ {y} : sync[x].at \in {"found", "written"}}}

RowsNamed(n) == {i \in DOMAIN rows : rows[i].name = n}
RowOf(n) == IF RowsNamed(n) = {} THEN 0 ELSE Min(RowsNamed(n))

\* report_environment: the row of that name is locked; a name that has none
\* gets one, and nothing keeps a second sync from inserting it too.
LookUp(y) ==
    LET s == sync[y] IN
    /\ s.at = "asked" /\ s.agent \in Names
    /\ RowOf(s.agent) \notin LockedRows(y)
    /\ RowOf(s.agent) = 0 => Len(rows) < MaxRows
    /\ sync' = [sync EXCEPT ![y].at = "found", ![y].row = RowOf(s.agent)]
    /\ UNCHANGED <<agent, queued, expired, receipt, rows, waiting, reconnects, rounds, losses, log, reader>>

\* set_environments_offline
Others(y) == {i \in DOMAIN rows : rows[i].online /\ i # sync[y].row}

Logged == {[id |-> log[i].id, scope |-> log[i].scope] : i \in Permissions}
\* Of the reports of one batch, taken in the order the relay lists them, those
\* that are not over and repeat no id with another scope.
Acceptable(reports) == {e \in reports \ expired : \A f \in Logged : f.id = e.id => f = e}
Recordings(reports) ==
    {R \in SUBSET Acceptable(reports) :
        /\ \A e, f \in R : e.id = f.id => e = f
        /\ \A e \in Acceptable(reports) : \E f \in R : e.id = f.id}

\* Only reports of the machine the conversation works on are looked at.
Batch(y) == IF sync[y].row = Bound THEN sync[y].reports ELSE {}
\* The lock of the conversation's row, which its log's lock goes with.
HoldsSession(z) == sync[z].at = "written" /\ Batch(z) # {}
SessionFree(y) == \A z \in Syncs \ {y} : ~HoldsSession(z)
\* queue_environment_recovery: the lock of the task that waits.
TaskFree(y) == \A z \in Syncs \ {y} : ~(sync[z].at = "written" /\ sync[z].row = Bound /\ waiting)

\* The second statement of queue_environment_recovery: no command is pending.
AsksRecovery(y) == sync[y].row = Bound /\ waiting /\ reconnects = 0

Write(y) ==
    LET s == sync[y] IN
    /\ \/ s.at = "found"
       \/ s.at = "asked" /\ s.agent = NoMachine
    /\ Others(y) \cap LockedRows(y) = {}
    /\ Batch(y) # {} => SessionFree(y)
    /\ s.row = Bound /\ waiting => TaskFree(y)
    /\ \E R \in Recordings(Batch(y)) :
          sync' = [sync EXCEPT ![y].at = "written", ![y].off = Others(y), ![y].record = R,
                               ![y].asks = AsksRecovery(y)]
    /\ UNCHANGED <<agent, queued, expired, receipt, rows, waiting, reconnects, rounds, losses, log, reader>>

\* append_event_once: what has its id in the log already is not appended again.
NewEntriesAnyway(R) == SetToSeq({[type |-> "permission", id |-> e.id, scope |-> e.scope] : e \in R})
NewEntries(R) ==
    SetToSeq({[type |-> "permission", id |-> e.id, scope |-> e.scope] :
                e \in {f \in R : \A g \in Logged : g.id # f.id}})

Booked(y) ==
    LET s == sync[y]
        kept == [i \in DOMAIN rows |-> [rows[i] EXCEPT !.online = i \notin s.off /\ (i = s.row \/ @)]]
    IN IF s.agent \in Names /\ s.row = 0 THEN Append(kept, [name |-> s.agent, online |-> TRUE]) ELSE kept

\* An agent that gives no name is left alone.
Skip(y) ==
    /\ sync[y].at = "asked" /\ sync[y].agent = Unnamed
    /\ sync' = [sync EXCEPT ![y] = Resting]
    /\ UNCHANGED <<agent, queued, expired, receipt, rows, waiting, reconnects, rounds, losses, log, reader>>

Commit(y) ==
    LET s == sync[y] IN
    /\ s.at = "written"
    /\ rows' = Booked(y)
    /\ log' = log \o NewEntries(s.record)
    /\ reconnects' = reconnects + (IF s.asks THEN 1 ELSE 0)
    /\ sync' = [sync EXCEPT ![y].at = IF s.agent \in Names /\ s.reports # {} THEN "receipts" ELSE "idle",
                            ![y].off = {}, ![y].asks = FALSE]
    /\ UNCHANGED <<agent, queued, expired, receipt, waiting, rounds, losses, reader>>

\* Two transactions that wait for each other: the database ends one of them.
Blocked(y, z) ==
    /\ sync[y].at = "found" /\ sync[z].at = "found"
    /\ sync[z].row \in Others(y) /\ sync[y].row \in Others(z)

\* The transaction fails: nothing of it stays, and no receipt goes out.
Abort(y) ==
    /\ sync[y].at \in {"found", "written"}
    /\ \/ losses > 0 /\ losses' = losses - 1
       \/ (\E z \in Syncs \ {y} : Blocked(y, z)) /\ UNCHANGED losses
    /\ sync' = [sync EXCEPT ![y] = Resting]
    /\ UNCHANGED <<agent, queued, expired, receipt, rows, waiting, reconnects, rounds, log, reader>>

\* permission_receipts: the relay drops the reports, or never hears of it.
Verdict(y, e) == IF e \in sync[y].record THEN "recorded" ELSE "rejected"
SendReceipts(y) ==
    LET s == sync[y] IN
    /\ s.at = "receipts"
    /\ \/ /\ queued' = queued \ s.reports
          /\ receipt' = [e \in Reports |-> IF e \in s.reports \cap queued THEN Verdict(y, e) ELSE receipt[e]]
          /\ UNCHANGED losses
       \/ losses > 0 /\ losses' = losses - 1 /\ UNCHANGED <<queued, receipt>>
    /\ sync' = [sync EXCEPT ![y] = Resting]
    /\ UNCHANGED <<agent, expired, rows, waiting, reconnects, rounds, log, reader>>

-----------------------------------------------------------------------------
\* Runner._reconnect_task: the command is taken and the machine found ready.
Reconnect ==
    /\ reconnects > 0
    /\ reconnects' = reconnects - 1
    /\ waiting' = IF rows[Bound].online THEN FALSE ELSE waiting
    /\ UNCHANGED <<agent, queued, expired, receipt, rows, sync, rounds, losses, log, reader>>

\* syncOnce is the round of one runner.
Round(y) ==
    \/ Begin(y) \/ LookUp(y) \/ Skip(y) \/ Write(y) \/ Commit(y) \/ Abort(y) \/ SendReceipts(y)

MachineNext ==
    \/ \E n \in Names \cup {NoMachine, Unnamed} : AgentChanges(n)
    \/ \E e \in Reports : AgentReports(e) \/ ReportExpires(e)
    \/ \E y \in Syncs : Round(y)
    \/ Reconnect

-----------------------------------------------------------------------------
\* A report is booked once however often the relay offers it, and never twice
\* with different scopes (agent_reports.py:75-90).
OneEventPerReport == \A i, j \in Permissions : log[i].id = log[j].id => i = j

\* The reply to a recorded report was lost and is "retried from the relay queue
\* and de-duplicated in DB" (machines.py:117): what is in the log is not called
\* rejected.
RecordedIsNotRejected == \A e \in Logged : receipt[e] # "rejected"

\* "One row for each machine name: update it if it is there, else create it"
\* (machines.py:6).
OneRowPerName == \A i, j \in DOMAIN rows : rows[i].name = rows[j].name => i = j
=============================================================================
