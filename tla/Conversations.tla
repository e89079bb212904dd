--------------------------- MODULE Conversations ---------------------------
(***************************************************************************)
(* Conversations and projects (session_service.py, project_service.py,     *)
(* delegation.py): what a user's pages may do to them, one database        *)
(* transaction after another, and the runner that later sends the turns    *)
(* the pages asked for.                                                    *)
(*                                                                         *)
(* A page's request is a process with up to three steps.  Asks* opens its  *)
(* transaction, takes the row locks the code takes and evaluates every     *)
(* check; Commits* does the writes; Enqueues posts the command the route   *)
(* sends in a transaction of its own.  Other requests move in between, and *)
(* the web process may die at any of these points (WebDies).  What a       *)
(* transaction read without a lock may be out of date when it writes.      *)
(*                                                                         *)
(* The inside of an expert task is Ledger.tla and Runner.tla; here it is   *)
(* queued, active or ended.  So are the commands that start a thread or a  *)
(* driver (Runner.tla posts and handles them, and loses them when the web  *)
(* process dies); the only command kept here is the user's turn.           *)
(***************************************************************************)
EXTENDS Integers, FiniteSets, Sequences

CONSTANTS
  Clients,   \* requests that may be open at the same time
  Convs, Projects, Tasks, Keys, Dirs, Roots,
  RootOf,    \* [Dirs -> Roots]: the workspace a directory lies under
  Reports,   \* what the machine may report: is it online, which roots it lists
  MaxQueue,  \* bound: commands waiting for the runner
  MaxTurns,  \* bound: turns of the user running at the same time
  None

ASSUME ConversationsAssumption ==
  /\ RootOf \in [Dirs -> Roots]
  /\ Reports \subseteq [online: BOOLEAN, roots: SUBSET Roots]
  /\ MaxQueue \in Nat /\ MaxTurns \in Nat
  /\ None \notin Convs \cup Projects \cup Tasks \cup Keys \cup Dirs

VARIABLES
  conv,      \* table workbench_sessions
  project,   \* table workbench_projects
  task,      \* table workbench_tasks
  born,      \* the tasks in the order they were created
  machine,   \* the environment row: is it online, which roots does it list
  req,       \* the request of each client, while it is open
  queue,     \* table workbench_commands: the turns asked for, oldest first
  hand,      \* the turn the runner is about to send and the session it read for it
  turns      \* the user's turns running at the app-server

convVars == <<conv, project, task, born, machine, req, queue, hand, turns>>
tables == <<conv, project, task, born>>
runner == <<hand, turns>>

-----------------------------------------------------------------------------
HandsOn == {"work", "expert"}
Kinds == {"chat"} \cup HandsOn

NoConv == [kind |-> "none", project |-> None, active |-> None, archived |-> FALSE,
           entry |-> None]
NoProject == [state |-> "none", dir |-> None]
NoTaskRow == [state |-> "none", conv |-> None, key |-> None]
NoReq == [do |-> "none", step |-> "", conv |-> None, project |-> None, kind |-> "",
          key |-> None, saw |-> None]
NoHand == [conv |-> None, saw |-> NoConv]

Idle(u) == req[u] = NoReq
Open(u, do) == req[u].do = do /\ req[u].step = "open"
Request(do, c, p) == [NoReq EXCEPT !.do = do, !.step = "open", !.conv = c, !.project = p]
Asking(u, r) == /\ Idle(u) /\ req' = [req EXCEPT ![u] = r]
                /\ UNCHANGED <<tables, machine, queue, runner>>
\* The request is over: answered, refused or rolled back.
Done(u) == req' = [req EXCEPT ![u] = NoReq]
ToEnqueue(u) == req' = [req EXCEPT ![u].step = "enqueue"]

\* Identifiers are random: one that an open transaction will insert is taken.
Fresh(c) == conv[c].kind = "none" /\ \A u \in Clients : req[u].conv # c
FreshProject(p) == project[p].state = "none" /\ \A u \in Clients : req[u].project # p
Unborn == {t \in Tasks : task[t].state = "none"}

\* SELECT ... FOR UPDATE held by an open transaction.
LocksConv == {"attach", "towork", "archive", "handover"}
Locked(c) == \E u \in Clients : req[u].conv = c /\ req[u].step = "open" /\ req[u].do \in LocksConv
LockedProject(p) ==
  \E u \in Clients : req[u].project = p /\ Open(u, "archiveProject")

\* The task an expert is working on in a project, if any.
WorkingIn(p) == {t \in Tasks : task[t].state = "active" /\ conv[task[t].conv].project = p}
\* Its conversation is not c: whoever works in c has to wait.
ExpertElsewhere(c) == \E t \in WorkingIn(conv[c].project) : task[t].conv # c
Live(p) == project[p].state = "live"

\* uq_workbench_projects_live_dir: no two live projects of one directory.
DirectoryFree(d, p) == \A q \in Projects \ {p} : Live(q) => project[q].dir # d

-----------------------------------------------------------------------------
(* Opening a conversation, putting it into a project, turning it into work. *)

NewConv(k, p) == [NoConv EXCEPT !.kind = k, !.project = p]

MayBegin(k, p) == IF p = None THEN k \notin HandsOn ELSE Live(p)

AsksStart(u, c, k, p) ==
  /\ Fresh(c) /\ MayBegin(k, p)
  /\ Asking(u, [Request("start", c, p) EXCEPT !.kind = k])

CommitsStart(u) ==
  /\ Open(u, "start")
  /\ conv' = [conv EXCEPT ![req[u].conv] = NewConv(req[u].kind, req[u].project)]
  /\ Done(u)
  /\ UNCHANGED <<project, task, born, machine, queue, runner>>

Unattached(c) == conv[c].project = None
AsksAttach(u, c, p) ==
  /\ conv[c].kind # "none" /\ ~Locked(c) /\ Unattached(c) /\ Live(p)
  /\ Asking(u, Request("attach", c, p))

CommitsAttach(u) ==
  /\ Open(u, "attach")
  /\ conv' = [conv EXCEPT ![req[u].conv].project = req[u].project]
  /\ Done(u)
  /\ UNCHANGED <<project, task, born, machine, queue, runner>>

MayBecomeWork(c) ==
  conv[c].kind = "chat" /\ conv[c].project # None /\ conv[c].active = None /\ ~ExpertElsewhere(c)
AsksToWork(u, c) ==
  /\ ~Locked(c) /\ MayBecomeWork(c)
  /\ Asking(u, Request("towork", c, None))

CommitsToWork(u) ==
  /\ Open(u, "towork")
  /\ conv' = [conv EXCEPT ![req[u].conv].kind = "work"]
  /\ Done(u)
  /\ UNCHANGED <<project, task, born, machine, queue, runner>>

MayArchive(c) == \A t \in WorkingIn(conv[c].project) : task[t].conv # c
AsksArchive(u, c) ==
  /\ conv[c].kind # "none" /\ ~Locked(c)
  /\ conv[c].archived \/ MayArchive(c)
  /\ Asking(u, Request("archive", c, None))

CommitsArchive(u) ==
  /\ Open(u, "archive")
  /\ conv' = [conv EXCEPT ![req[u].conv].archived = ~@]
  /\ Done(u)
  /\ UNCHANGED <<project, task, born, machine, queue, runner>>

-----------------------------------------------------------------------------
(* The user's turn: the gate and the event in one transaction without a
   lock, the command in the next one. *)

UserMayDrive(c) ==
  /\ conv[c].active = None
  /\ ~(conv[c].kind \in HandsOn /\ ExpertElsewhere(c))

AsksTurn(u, c) ==
  /\ conv[c].kind # "none" /\ UserMayDrive(c)
  /\ Asking(u, Request("turn", c, None))

CommitsTurn(u) ==
  /\ Open(u, "turn") /\ ~Locked(req[u].conv)
  /\ ToEnqueue(u)
  /\ UNCHANGED <<tables, machine, queue, runner>>

Enqueues(u) ==
  /\ req[u].step = "enqueue" /\ Len(queue) < MaxQueue
  /\ queue' = Append(queue, req[u].conv)
  /\ Done(u)
  /\ UNCHANGED <<tables, machine, runner>>

\* The web process or its database connection is gone: an open transaction is
\* rolled back, a command not posted yet never will be.
WebDies(u) ==
  /\ ~Idle(u) /\ Done(u)
  /\ UNCHANGED <<tables, machine, queue, runner>>

-----------------------------------------------------------------------------
(* Projects. *)

Listed(d) == RootOf[d] \in machine.roots

\* The agent says what is at the directory, or cannot be asked.
Answers == {"dir", "file", "missing", "unknown"}
MayRegister(answer) == answer \in {"dir", "unknown"}

AsksCreateProject(u, p, d) ==
  /\ FreshProject(p) /\ Listed(d)
  /\ \E answer \in Answers : MayRegister(answer)
  /\ Asking(u, [Request("createProject", None, p) EXCEPT !.saw = d])

StillListed(d) == Listed(d)
CommitsCreateProject(u) ==
  /\ Open(u, "createProject")
  /\ LET p == req[u].project  d == req[u].saw IN
       IF StillListed(d) /\ DirectoryFree(d, p)
       THEN project' = [project EXCEPT ![p] = [state |-> "live", dir |-> d]]
       ELSE UNCHANGED project
  /\ Done(u)
  /\ UNCHANGED <<conv, task, born, machine, queue, runner>>

\* The older route: a conversation by directory, whose project is looked up
\* (p) or made (p is fresh).
AsksByDirectory(u, c, p, d) ==
  /\ Fresh(c)
  /\ machine.roots = {} \/ Listed(d)
  /\ IF \E q \in Projects : Live(q) /\ project[q].dir = d
     THEN Live(p) /\ project[p].dir = d
     ELSE FreshProject(p)
  /\ Asking(u, [Request("byDirectory", c, p) EXCEPT !.kind = "work", !.saw = d])

CommitsByDirectory(u) ==
  /\ Open(u, "byDirectory")
  /\ LET p == req[u].project  c == req[u].conv  d == req[u].saw
         makes == project[p].state = "none"
     IN IF makes /\ ~DirectoryFree(d, p)
        THEN Done(u) /\ UNCHANGED <<conv, project>>
        ELSE /\ project' = IF makes THEN [project EXCEPT ![p] = [state |-> "live", dir |-> d]]
                                    ELSE project
             /\ conv' = [conv EXCEPT ![c] = NewConv("work", p)]
             /\ Done(u)
  /\ UNCHANGED <<task, born, machine, queue, runner>>

AsksArchiveProject(u, p) ==
  /\ project[p].state # "none" /\ ~LockedProject(p)
  /\ Live(p) => WorkingIn(p) = {}
  /\ Asking(u, Request("archiveProject", None, p))

CommitsArchiveProject(u) ==
  /\ Open(u, "archiveProject")
  /\ LET p == req[u].project IN
       IF Live(p) THEN project' = [project EXCEPT ![p].state = "archived"]
       ELSE IF DirectoryFree(project[p].dir, p) THEN project' = [project EXCEPT ![p].state = "live"]
       ELSE UNCHANGED project
  /\ Done(u)
  /\ UNCHANGED <<conv, task, born, machine, queue, runner>>

-----------------------------------------------------------------------------
(* Asking the expert, from a conversation and from the expert's own page. *)

Prior(key) == {t \in Tasks : task[t].state # "none" /\ task[t].key = key}
\* uq_workbench_tasks_idempotency.
KeyFree(key) == Prior(key) = {}

AsksHandover(u, c, key) ==
  /\ KeyFree(key)
  /\ conv[c].kind # "none" /\ ~Locked(c) /\ conv[c].active = None
  /\ conv[c].project # None /\ machine.online
  /\ Asking(u, [Request("handover", c, conv[c].project) EXCEPT !.key = key])

\* With the project locked, the rows a handover writes: t is the task, row the conversation as inserted
\* or locked.  It waits in line if an expert is busy, else it takes the wheel.
HandsOver(t, c, row, p, key) ==
  LET waits == WorkingIn(p) # {} IN
    /\ ~LockedProject(p)
    /\ task' = [task EXCEPT ![t] = [state |-> IF waits THEN "queued" ELSE "active",
                                    conv |-> c, key |-> key]]
    /\ conv' = [conv EXCEPT ![c] = [row EXCEPT !.kind = "expert",
                                               !.active = IF waits THEN @ ELSE t]]
    /\ born' = Append(born, t)

CommitsHandover(u) ==
  /\ Open(u, "handover")
  /\ LET r == req[u] IN
       IF KeyFree(r.key)
       THEN \E t \in Unborn :
              HandsOver(t, r.conv, conv[r.conv], r.project, r.key)
       ELSE UNCHANGED <<task, conv, born>>
  /\ Done(u)
  /\ UNCHANGED <<project, machine, queue, runner>>

AsksEntry(u, c, p, key) ==
  /\ KeyFree(key) /\ Fresh(c) /\ Live(p) /\ machine.online
  /\ Asking(u, [Request("entry", c, p) EXCEPT !.key = key])

\* Mutant: the conversation is committed before the handover is tried.
LeftBehind(r) == conv' = [conv EXCEPT ![r.conv] = [NewConv("expert", r.project) EXCEPT !.entry = r.key]]
NothingLeft(r) == UNCHANGED conv

CommitsEntry(u) ==
  /\ Open(u, "entry")
  /\ LET r == req[u]
         row == [NewConv("expert", r.project) EXCEPT !.entry = r.key]
     IN IF KeyFree(r.key)
        THEN \E t \in Unborn : HandsOver(t, r.conv, row, r.project, r.key)
        ELSE NothingLeft(r) /\ UNCHANGED <<task, born>>
  /\ Done(u)
  /\ UNCHANGED <<project, machine, queue, runner>>

\* A task ends: the wheel goes back, and the oldest task in line begins if its
\* conversation is free.
InLine(p) == {i \in DOMAIN born : task[born[i]].state = "queued" /\ conv[task[born[i]].conv].project = p}
Oldest(line) == born[CHOOSE i \in line : \A j \in line : i <= j]
\* Mutant: the conversation of the task that begins is not locked.
BeginsUnlocked(line) == TRUE
BeginsLocked(line) == line # {} => ~Locked(task[Oldest(line)].conv)

TaskEnds(t) ==
  LET c == task[t].conv
      line == InLine(conv[c].project)
      freed == [conv EXCEPT ![c].active = None]
      ended == [task EXCEPT ![t].state = "ended"]
      n == Oldest(line)
      starts == line # {} /\ freed[task[n].conv].active = None
  IN /\ task[t].state = "active" /\ ~Locked(c)
     /\ BeginsLocked(line)
     /\ IF starts
        THEN /\ task' = [ended EXCEPT ![n].state = "active"]
             /\ conv' = [freed EXCEPT ![task[n].conv].active = n]
        ELSE task' = ended /\ conv' = freed
     /\ UNCHANGED <<project, born, machine, req, queue, runner>>

-----------------------------------------------------------------------------
(* The runner (runner.py handle): one command at a time.  Starting a thread
   or a driver decides nothing the pages depend on (Runner.tla);
   a turn is sent on the session the runner read first. *)

\* What it looks at of that session.
Read(c) == [conv[c] EXCEPT !.archived = FALSE, !.entry = None]

TakesTurn ==
  /\ hand = NoHand /\ queue # <<>>
  /\ hand' = [conv |-> Head(queue), saw |-> Read(Head(queue))]
  /\ queue' = Tail(queue)
  /\ UNCHANGED <<tables, machine, req, turns>>

\* The session had no thread, or the app-server lost it: after the new one is
\* started the session is read again.
ReadsAgain ==
  /\ hand # NoHand /\ hand' = [hand EXCEPT !.saw = Read(hand.conv)]
  /\ UNCHANGED <<tables, machine, req, queue, turns>>

ModeOf(row) ==
  CASE row.kind \in HandsOn -> row.kind
    [] row.project # None /\ machine.online -> "chat_in_project"
    [] OTHER -> "chat"

\* What a turn may do, and where: chats read only, and only in a project.
\* Mutant: every turn in a project gets the settings of work.
SettingsInProject(mode, p) ==
  [writes |-> mode # "chat", project |-> IF mode = "chat" THEN None ELSE p]
Settings(mode, p) ==
  [writes |-> mode \in HandsOn, project |-> IF mode = "chat" THEN None ELSE p]
Plan(row) == Settings(ModeOf(row), row.project)

SendsTurn ==
  /\ hand # NoHand /\ Cardinality(turns) < MaxTurns
  /\ turns' = IF hand.saw.active = None
              THEN turns \cup {[conv |-> hand.conv, plan |-> Plan(hand.saw)]}
              ELSE turns
  /\ hand' = NoHand
  /\ UNCHANGED <<tables, machine, req, queue>>

TurnEnds(x) ==
  /\ turns' = turns \ {x}
  /\ UNCHANGED <<tables, machine, req, queue, hand>>

\* What MachineSync writes (Machines.tla).
MachineReports ==
  /\ machine' \in Reports
  /\ UNCHANGED <<tables, req, queue, runner>>

-----------------------------------------------------------------------------
ConvInit ==
  /\ conv = [c \in Convs |-> NoConv]
  /\ project = [p \in Projects |-> NoProject]
  /\ task = [t \in Tasks |-> NoTaskRow]
  /\ born = <<>>
  /\ machine \in Reports
  /\ req = [u \in Clients |-> NoReq]
  /\ queue = <<>> /\ hand = NoHand /\ turns = {}

AsksOn(u, c) ==
  \/ \E k \in Kinds, p \in Projects \cup {None} : AsksStart(u, c, k, p)
  \/ \E p \in Projects : AsksAttach(u, c, p)
  \/ AsksToWork(u, c) \/ AsksArchive(u, c) \/ AsksTurn(u, c)
  \/ \E p \in Projects, d \in Dirs : AsksByDirectory(u, c, p, d)
  \/ \E key \in Keys : AsksHandover(u, c, key)
  \/ \E p \in Projects, key \in Keys : AsksEntry(u, c, p, key)

AsksAboutProject(u, p) ==
  \/ \E d \in Dirs : AsksCreateProject(u, p, d)
  \/ AsksArchiveProject(u, p)

Commits(u) ==
  \/ CommitsStart(u) \/ CommitsAttach(u) \/ CommitsToWork(u) \/ CommitsArchive(u)
  \/ CommitsTurn(u) \/ CommitsCreateProject(u) \/ CommitsByDirectory(u)
  \/ CommitsArchiveProject(u) \/ CommitsHandover(u) \/ CommitsEntry(u)

RunnerSteps ==
  \/ TakesTurn \/ ReadsAgain \/ SendsTurn
  \/ \E x \in turns : TurnEnds(x)

ConvNext ==
  \/ \E u \in Clients :
       \/ \E c \in Convs : AsksOn(u, c)
       \/ \E p \in Projects : AsksAboutProject(u, p)
       \/ Commits(u) \/ Enqueues(u) \/ WebDies(u)
  \/ \E t \in Tasks : TaskEnds(t)
  \/ RunnerSteps \/ MachineReports

ConvSpec == ConvInit /\ [][ConvNext]_convVars
-----------------------------------------------------------------------------
(* Properties. *)

Stages == {"", "open", "enqueue"}
Steps == {"none", "start", "attach", "towork", "archive", "turn", "createProject",
          "byDirectory", "archiveProject", "handover", "entry"}
Rows == [kind: Kinds \cup {"none"}, project: Projects \cup {None}, active: Tasks \cup {None},
         archived: BOOLEAN, entry: Keys \cup {None}]
TurnPlans == [writes: BOOLEAN, project: Projects \cup {None}]

\* Every row and every request has the shape of its table or handler.
ConvTypeOK ==
  /\ conv \in [Convs -> Rows]
  /\ project \in [Projects -> [state: {"none", "live", "archived"}, dir: Dirs \cup {None}]]
  /\ task \in [Tasks -> [state: {"none", "queued", "active", "ended"},
                         conv: Convs \cup {None}, key: Keys \cup {None}]]
  /\ born \in Seq(Tasks)
  /\ machine \in [online: BOOLEAN, roots: SUBSET Roots]
  /\ req \in [Clients -> [do: Steps, step: Stages, conv: Convs \cup {None},
                          project: Projects \cup {None}, kind: Kinds \cup {""},
                          key: Keys \cup {None}, saw: Dirs \cup {None}]]
  /\ queue \in Seq(Convs)
  /\ hand \in [conv: Convs \cup {None}, saw: Rows]
  /\ turns \subseteq [conv: Convs, plan: TurnPlans]

\* A turn that may write runs only in a conversation that was turned into work
\* or handed to an expert, and in the directory of that conversation's project,
\* although the runner plans it from a session row it read earlier.
ChatNeverWrites ==
  \A x \in turns : x.plan.writes =>
    /\ conv[x.conv].kind \in HandsOn
    /\ x.plan.project = conv[x.conv].project /\ x.plan.project # None

\* The expert's page leaves a whole delegation or nothing: a conversation it
\* opened has its task, and one idempotency key never makes two (AT-INV-08).
EntryIsWhole ==
  /\ \A c \in Convs : conv[c].entry # None =>
       \E t \in Tasks : task[t].state # "none" /\ task[t].conv = c /\ task[t].key = conv[c].entry
  /\ \A t, v \in Tasks :
       task[t].state # "none" /\ task[v].state # "none" /\ task[t].key = task[v].key => t = v

\* A conversation is removed only while no expert works in it (session_service.py
\* archive): what the request read stays true until it commits.
RemovedAtRest ==
  [][\A c \in Convs :
       ~conv[c].archived /\ conv'[c].archived => conv[c].active = None]_convVars

\* session_service.py:230: while the expert works in a project, other
\* conversations may chat but may not work: no turn of the user that may write
\* starts in it.
ExpertWorksAlone ==
  [][\A x \in turns' \ turns :
       x.plan.writes => ~ExpertElsewhere(x.conv)]_convVars

\* project_service.py:265: the project in which an expert is asked must not be
\* archived.
AskedInUsableProject ==
  [][\A t \in Tasks :
       task[t].state = "none" /\ task'[t].state # "none" => Live(conv'[task'[t].conv].project)]_convVars
=============================================================================
