-------------------------- MODULE ConversationProofs --------------------------
(***************************************************************************)
(* Theorems about conversations and projects (Conversations.tla).          *)
(***************************************************************************)
EXTENDS Conversations, NaturalsInduction, WellFoundedInduction, SequenceTheorems, TLAPS

-----------------------------------------------------------------------------
(* Types. *)

ReqRows == [do: Steps, step: Stages, conv: Convs \cup {None}, project: Projects \cup {None},
            kind: Kinds \cup {""}, key: Keys \cup {None}, saw: Dirs \cup {None}]
ProjectRows == [state: {"none", "live", "archived"}, dir: Dirs \cup {None}]
TaskRows == [state: {"none", "queued", "active", "ended"}, conv: Convs \cup {None}, key: Keys \cup {None}]

(* The inductive invariant, in parts. *)

Creates == {"start", "byDirectory", "entry"}

\* What a request found when it asked, and what nobody changes before it commits: row is
\* the conversation it is about.
RequestFine(r, row) ==
  /\ r.do \in Creates \cup LocksConv \cup {"turn"} => r.conv \in Convs
  /\ r.do \in Creates => row.kind = "none"
  /\ r.do \in {"byDirectory", "entry"} => r.project # None
  /\ r.do = "start" => r.kind \in Kinds /\ (r.kind \in HandsOn => r.project # None)
  /\ r.do \in LocksConv => r.step = "open"
  /\ r.step = "enqueue" => r.do = "turn"
  /\ r.do \in LocksConv \cup {"turn"} => row.kind # "none"
  /\ r.do = "attach" => row.project = None
  /\ r.do = "towork" => row.project # None
  /\ r.do = "handover" => row.project = r.project /\ r.project # None
  /\ r.do = "archive" /\ ~row.archived => row.active = None

RequestsFine == \A u \in Clients : RequestFine(req[u], conv[req[u].conv])

\* No two requests make one conversation, or hold the lock of one.
Alike(r, s) == (r.do \in Creates /\ s.do \in Creates) \/ (r.do \in LocksConv /\ s.do \in LocksConv)
Apart == \A u, v \in Clients : Alike(req[u], req[v]) /\ req[u].conv = req[v].conv => u = v

\* Who works, works in a project.
Placed(row) == row.kind \in HandsOn => row.project # None
RowsPlaced == \A c \in Convs : Placed(conv[c])

\* What the runner has read of a session that works is what the session is.
HandFits ==
  hand # NoHand =>
    /\ hand.conv \in Convs
    /\ hand.saw.kind \in HandsOn =>
         conv[hand.conv].kind \in HandsOn /\ conv[hand.conv].project = hand.saw.project

\* The wheel of a conversation is at a task of it that is active.
WheelFits ==
  \A c \in Convs : conv[c].active # None =>
    task[conv[c].active].state = "active" /\ task[conv[c].active].conv = c

TasksPlaced == \A t \in Tasks : task[t].state # "none" => task[t].conv \in Convs

ConvInv ==
  /\ ConvTypeOK
  /\ RequestsFine /\ Apart
  /\ RowsPlaced /\ HandFits /\ ChatNeverWrites
  /\ WheelFits /\ TasksPlaced /\ EntryIsWhole

\* What a step does to RemovedAtRest.
RestStep == \A c \in Convs : ~conv[c].archived /\ conv'[c].archived => conv[c].active = None

-----------------------------------------------------------------------------
(* Requests. *)

\* A request is opened.
LEMMA AskStep ==
  ASSUME ConvInv, NEW u \in Clients, NEW r \in ReqRows, Asking(u, r), RequestFine(r, conv[r.conv]),
         r.do \in Creates => \A v \in Clients : req[v].conv # r.conv,
         r.do \in LocksConv => ~Locked(r.conv)
  PROVE  ConvInv' /\ RestStep
<1>1. req' = [req EXCEPT ![u] = r] /\ UNCHANGED <<conv, project, task, born, machine, queue, hand, turns>>
  BY DEF Asking, tables, runner
<1>2. req \in [Clients -> ReqRows] BY DEF ConvInv, ConvTypeOK, ReqRows
<1>3. req' \in [Clients -> ReqRows] /\ \A v \in Clients : req'[v] = IF v = u THEN r ELSE req[v]
  BY <1>1, <1>2
<1>4. ConvTypeOK' BY <1>1, <1>3 DEF ConvInv, ConvTypeOK, ReqRows
<1>5. RequestsFine'
  <2>1. \A v \in Clients : RequestFine(req'[v], conv[req'[v].conv])
    BY <1>3 DEF ConvInv, RequestsFine
  <2> QED BY <2>1, <1>1 DEF RequestsFine
<1>6. ASSUME NEW v \in Clients, v # u, Alike(req[v], r), req[v].conv = r.conv PROVE FALSE
  <2>1. CASE r.do \in Creates BY <2>1, <1>6
  <2>2. CASE r.do \in LocksConv /\ req[v].do \in LocksConv
    <3>1. RequestFine(req[v], conv[req[v].conv]) BY DEF ConvInv, RequestsFine
    <3>2. req[v].step = "open" BY <2>2, <3>1 DEF RequestFine
    <3>3. Locked(r.conv) BY <2>2, <3>2, <1>6 DEF Locked
    <3> QED BY <2>2, <3>3
  <2> QED BY <1>6, <2>1, <2>2 DEF Alike
<1>7. Apart'
  <2> SUFFICES ASSUME NEW v \in Clients, NEW w \in Clients, Alike(req'[v], req'[w]), req'[v].conv = req'[w].conv, v # w
               PROVE  FALSE
    BY DEF Apart, Alike
  <2>1. CASE v = u
    <3>1. req'[v] = r /\ req'[w] = req[w] BY <2>1, <1>3
    <3>2. Alike(req[w], r) BY <3>1 DEF Alike
    <3> QED BY <3>1, <3>2, <1>6, <2>1
  <2>2. CASE w = u
    <3>1. req'[w] = r /\ req'[v] = req[v] BY <2>2, <1>3
    <3> QED BY <3>1, <1>6, <2>2
  <2>3. CASE v # u /\ w # u
    <3>1. req'[w] = req[w] /\ req'[v] = req[v] BY <2>3, <1>3
    <3> QED BY <3>1 DEF ConvInv, Apart
  <2> QED BY <2>1, <2>2, <2>3
<1>8. (RowsPlaced /\ HandFits /\ ChatNeverWrites /\ WheelFits /\ TasksPlaced /\ EntryIsWhole)'
  BY <1>1 DEF ConvInv, RowsPlaced, Placed, HandFits, ChatNeverWrites, WheelFits, TasksPlaced, EntryIsWhole
<1>9. RestStep BY <1>1 DEF RestStep
<1> QED BY <1>4, <1>5, <1>7, <1>8, <1>9 DEF ConvInv

\* A request is over, and the rows are what they were.
LEMMA DoneStep ==
  ASSUME ConvInv, NEW u \in Clients, Done(u), UNCHANGED <<conv, task, born, hand, turns>>,
         project' \in [Projects -> ProjectRows], machine' = machine, queue' \in Seq(Convs)
  PROVE  ConvInv' /\ RestStep
<1>1. req \in [Clients -> ReqRows] BY DEF ConvInv, ConvTypeOK, ReqRows
<1>2. NoReq \in ReqRows BY DEF NoReq, ReqRows, Steps, Stages
<1>3. req' \in [Clients -> ReqRows] /\ \A v \in Clients : req'[v] = IF v = u THEN NoReq ELSE req[v]
  BY <1>1, <1>2 DEF Done
<1>4. ConvTypeOK' BY <1>3 DEF ConvInv, ConvTypeOK, ReqRows, ProjectRows
<1>5. NoReq.do = "none" /\ NoReq.step = "" BY DEF NoReq
<1>6. RequestsFine'
  <2>1. ASSUME NEW v \in Clients PROVE RequestFine(req'[v], conv[req'[v].conv])
    <3>1. CASE v = u BY <3>1, <1>3, <1>5 DEF RequestFine, Creates, LocksConv
    <3>2. CASE v # u BY <3>2, <1>3 DEF ConvInv, RequestsFine
    <3> QED BY <3>1, <3>2
  <2> QED BY <2>1 DEF RequestsFine
<1>7. Apart'
  <2> SUFFICES ASSUME NEW v \in Clients, NEW w \in Clients, Alike(req'[v], req'[w]), req'[v].conv = req'[w].conv
               PROVE  v = w
    BY DEF Apart, Alike
  <2>1. v # u /\ w # u BY <1>3, <1>5 DEF Alike, Creates, LocksConv
  <2>2. req'[w] = req[w] /\ req'[v] = req[v] BY <2>1, <1>3
  <2> QED BY <2>2 DEF ConvInv, Apart
<1>8. (RowsPlaced /\ HandFits /\ ChatNeverWrites /\ WheelFits /\ TasksPlaced /\ EntryIsWhole)'
  BY DEF ConvInv, RowsPlaced, Placed, HandFits, ChatNeverWrites, WheelFits, TasksPlaced, EntryIsWhole
<1>9. RestStep BY DEF RestStep
<1> QED BY <1>4, <1>6, <1>7, <1>8, <1>9 DEF ConvInv

\* A request about a conversation is opened.
LEMMA AsksOnStep ==
  ASSUME ConvInv, NEW u \in Clients, NEW c \in Convs, AsksOn(u, c)
  PROVE  ConvInv' /\ RestStep
<1> USE DEF Creates, LocksConv
<1>0. conv[c] \in Rows /\ None \notin Projects BY ConversationsAssumption DEF ConvInv, ConvTypeOK
<1>1. ASSUME NEW k \in Kinds, NEW p \in Projects \cup {None}, AsksStart(u, c, k, p) PROVE ConvInv' /\ RestStep
  <2> DEFINE q == Request("start", c, p)
  <2>1. /\ q \in ReqRows /\ q.do = "start" /\ q.step = "open" /\ q.conv = c /\ q.project = p
    BY DEF Request, NoReq, ReqRows, Steps, Stages
  <2> HIDE DEF q
  <2>2. PICK r : r = [q EXCEPT !.kind = k] OBVIOUS
  <2>3. r \in ReqRows /\ r.do = "start" /\ r.step = "open" /\ r.conv = c /\ r.project = p /\ r.kind = k
    BY <2>1, <2>2 DEF ReqRows
  <2>4. Asking(u, r) /\ Fresh(c) /\ MayBegin(k, p) BY <1>1, <2>2 DEF AsksStart, q
  <2>5. RequestFine(r, conv[r.conv]) BY <2>3, <2>4 DEF RequestFine, Fresh, MayBegin
  <2>6. \A v \in Clients : req[v].conv # r.conv BY <2>3, <2>4 DEF Fresh
  <2>7. r.do \notin LocksConv BY <2>3
  <2> QED BY <2>3, <2>4, <2>5, <2>6, <2>7, AskStep
<1>2. ASSUME NEW p \in Projects, AsksAttach(u, c, p) PROVE ConvInv' /\ RestStep
  <2>1. PICK r : r = Request("attach", c, p) OBVIOUS
  <2>2. r \in ReqRows /\ r.do = "attach" /\ r.step = "open" /\ r.conv = c /\ r.project = p
    BY <2>1 DEF Request, NoReq, ReqRows, Steps, Stages
  <2>3. RequestFine(r, conv[r.conv]) BY <1>2, <2>2 DEF RequestFine, AsksAttach, Unattached
  <2>4. Asking(u, r) /\ ~Locked(r.conv) BY <1>2, <2>1, <2>2 DEF AsksAttach
  <2> QED BY <2>2, <2>3, <2>4, AskStep
<1>3. CASE AsksToWork(u, c)
  <2>1. PICK r : r = Request("towork", c, None) OBVIOUS
  <2>2. r \in ReqRows /\ r.do = "towork" /\ r.step = "open" /\ r.conv = c
    BY <2>1 DEF Request, NoReq, ReqRows, Steps, Stages
  <2>3. RequestFine(r, conv[r.conv]) BY <1>3, <2>2 DEF RequestFine, AsksToWork, MayBecomeWork
  <2>4. Asking(u, r) /\ ~Locked(r.conv) BY <1>3, <2>1, <2>2 DEF AsksToWork
  <2> QED BY <2>2, <2>3, <2>4, AskStep
<1>4. CASE AsksArchive(u, c)
  <2>1. PICK r : r = Request("archive", c, None) OBVIOUS
  <2>2. r \in ReqRows /\ r.do = "archive" /\ r.step = "open" /\ r.conv = c
    BY <2>1 DEF Request, NoReq, ReqRows, Steps, Stages
  <2>3. ~conv[c].archived => conv[c].active = None
    <3> SUFFICES ASSUME ~conv[c].archived, conv[c].active # None PROVE FALSE OBVIOUS
    <3> DEFINE t == conv[c].active
    <3>1. t \in Tasks BY <1>0 DEF Rows
    <3>2. task[t].state = "active" /\ task[t].conv = c BY DEF ConvInv, WheelFits
    <3>3. t \in WorkingIn(conv[c].project) BY <3>1, <3>2 DEF WorkingIn
    <3>4. MayArchive(c) BY <1>4 DEF AsksArchive
    <3> QED BY <3>2, <3>3, <3>4 DEF MayArchive
  <2>4. RequestFine(r, conv[r.conv]) BY <1>4, <2>2, <2>3 DEF RequestFine, AsksArchive
  <2>5. Asking(u, r) /\ ~Locked(r.conv) BY <1>4, <2>1, <2>2 DEF AsksArchive
  <2> QED BY <2>2, <2>4, <2>5, AskStep
<1>5. CASE AsksTurn(u, c)
  <2>1. PICK r : r = Request("turn", c, None) OBVIOUS
  <2>2. r \in ReqRows /\ r.do = "turn" /\ r.step = "open" /\ r.conv = c
    BY <2>1 DEF Request, NoReq, ReqRows, Steps, Stages
  <2>3. RequestFine(r, conv[r.conv]) BY <1>5, <2>2 DEF RequestFine, AsksTurn
  <2>4. Asking(u, r) BY <1>5, <2>1 DEF AsksTurn
  <2> QED BY <2>2, <2>3, <2>4, AskStep
<1>6. ASSUME NEW p \in Projects, NEW d \in Dirs, AsksByDirectory(u, c, p, d) PROVE ConvInv' /\ RestStep
  <2> DEFINE q == Request("byDirectory", c, p)
  <2>1. q \in ReqRows /\ q.do = "byDirectory" /\ q.step = "open" /\ q.conv = c /\ q.project = p
    BY DEF Request, NoReq, ReqRows, Steps, Stages
  <2> HIDE DEF q
  <2>2. PICK r : r = [q EXCEPT !.kind = "work", !.saw = d] OBVIOUS
  <2>3. r \in ReqRows /\ r.do = "byDirectory" /\ r.step = "open" /\ r.conv = c /\ r.project = p
    BY <2>1, <2>2 DEF ReqRows, Kinds, HandsOn
  <2>4. Asking(u, r) /\ Fresh(c) BY <1>6, <2>2 DEF AsksByDirectory, q
  <2>5. RequestFine(r, conv[r.conv]) BY <1>0, <2>3, <2>4 DEF RequestFine, Fresh
  <2>6. \A v \in Clients : req[v].conv # r.conv BY <2>3, <2>4 DEF Fresh
  <2>7. r.do \notin LocksConv BY <2>3
  <2> QED BY <2>3, <2>4, <2>5, <2>6, <2>7, AskStep
<1>7. ASSUME NEW key \in Keys, AsksHandover(u, c, key) PROVE ConvInv' /\ RestStep
  <2> DEFINE q == Request("handover", c, conv[c].project)
  <2>1. q \in ReqRows /\ q.do = "handover" /\ q.step = "open" /\ q.conv = c /\ q.project = conv[c].project
    <3>1. conv[c].project \in Projects \cup {None} BY <1>0 DEF Rows
    <3> QED BY <3>1 DEF Request, NoReq, ReqRows, Steps, Stages
  <2> HIDE DEF q
  <2>2. PICK r : r = [q EXCEPT !.key = key] OBVIOUS
  <2>3. r \in ReqRows /\ r.do = "handover" /\ r.step = "open" /\ r.conv = c /\ r.project = conv[c].project
    BY <2>1, <2>2 DEF ReqRows
  <2>4. Asking(u, r) /\ ~Locked(r.conv) BY <1>7, <2>2, <2>3 DEF AsksHandover, q
  <2>5. RequestFine(r, conv[r.conv]) BY <1>7, <2>3 DEF RequestFine, AsksHandover
  <2> QED BY <2>3, <2>4, <2>5, AskStep
<1>8. ASSUME NEW p \in Projects, NEW key \in Keys, AsksEntry(u, c, p, key) PROVE ConvInv' /\ RestStep
  <2> DEFINE q == Request("entry", c, p)
  <2>1. q \in ReqRows /\ q.do = "entry" /\ q.step = "open" /\ q.conv = c /\ q.project = p
    BY DEF Request, NoReq, ReqRows, Steps, Stages
  <2> HIDE DEF q
  <2>2. PICK r : r = [q EXCEPT !.key = key] OBVIOUS
  <2>3. r \in ReqRows /\ r.do = "entry" /\ r.step = "open" /\ r.conv = c /\ r.project = p
    BY <2>1, <2>2 DEF ReqRows
  <2>4. Asking(u, r) /\ Fresh(c) BY <1>8, <2>2 DEF AsksEntry, q
  <2>5. RequestFine(r, conv[r.conv]) BY <1>0, <2>3, <2>4 DEF RequestFine, Fresh
  <2>6. \A v \in Clients : req[v].conv # r.conv BY <2>3, <2>4 DEF Fresh
  <2>7. r.do \notin LocksConv BY <2>3
  <2> QED BY <2>3, <2>4, <2>5, <2>6, <2>7, AskStep
<1> QED BY <1>1, <1>2, <1>3, <1>4, <1>5, <1>6, <1>7, <1>8, Zenon DEF AsksOn

\* A request about a project is opened.
LEMMA AsksAboutProjectStep ==
  ASSUME ConvInv, NEW u \in Clients, NEW p \in Projects, AsksAboutProject(u, p)
  PROVE  ConvInv' /\ RestStep
<1> USE DEF Creates, LocksConv
<1>1. ASSUME NEW d \in Dirs, AsksCreateProject(u, p, d) PROVE ConvInv' /\ RestStep
  <2> DEFINE q == Request("createProject", None, p)
  <2>1. q \in ReqRows /\ q.do = "createProject" /\ q.step = "open"
    BY DEF Request, NoReq, ReqRows, Steps, Stages
  <2> HIDE DEF q
  <2>2. PICK r : r = [q EXCEPT !.saw = d] OBVIOUS
  <2>3. r \in ReqRows /\ r.do = "createProject" /\ r.step = "open" BY <2>1, <2>2 DEF ReqRows
  <2>4. Asking(u, r) BY <1>1, <2>2 DEF AsksCreateProject, q
  <2>5. RequestFine(r, conv[r.conv]) BY <2>3 DEF RequestFine
  <2>6. r.do \notin LocksConv /\ r.do \notin Creates BY <2>3
  <2> QED BY <2>3, <2>4, <2>5, <2>6, AskStep
<1>2. CASE AsksArchiveProject(u, p)
  <2>1. PICK r : r = Request("archiveProject", None, p) OBVIOUS
  <2>2. r \in ReqRows /\ r.do = "archiveProject" /\ r.step = "open" BY <2>1 DEF Request, NoReq, ReqRows, Steps, Stages
  <2>3. RequestFine(r, conv[r.conv]) BY <2>2 DEF RequestFine
  <2>4. Asking(u, r) BY <1>2, <2>1 DEF AsksArchiveProject
  <2>5. r.do \notin LocksConv /\ r.do \notin Creates BY <2>2
  <2> QED BY <2>2, <2>3, <2>4, <2>5, AskStep
<1> QED BY <1>1, <1>2 DEF AsksAboutProject

-----------------------------------------------------------------------------
(* What a request writes. *)

\* A row is never taken away, and a conversation that works stays at it, where it is.
KeepsRow(x, y) ==
  /\ x.kind # "none" => y.kind # "none"
  /\ x.kind \in HandsOn => y.kind \in HandsOn /\ y.project = x.project

\* The conversation a request makes or has locked is written, and the request is over.
LEMMA WrittenStep ==
  ASSUME ConvInv, NEW u \in Clients, NEW c \in Convs, NEW y \in Rows, c = req[u].conv,
         req[u].do \in Creates \cup LocksConv, Done(u), conv' = [conv EXCEPT ![c] = y],
         KeepsRow(conv[c], y), Placed(y), y.kind # "none", hand' = hand, turns' = turns
  PROVE  RequestsFine' /\ Apart' /\ RowsPlaced' /\ HandFits' /\ ChatNeverWrites'
<1>1. req \in [Clients -> ReqRows] /\ conv \in [Convs -> Rows] BY DEF ConvInv, ConvTypeOK, ReqRows
<1>2. \A v \in Clients : req'[v] = IF v = u THEN NoReq ELSE req[v]
  BY <1>1 DEF Done
<1>3. \A d \in Convs : conv'[d] = IF d = c THEN y ELSE conv[d]
  BY <1>1
<1>4. NoReq.do = "none" /\ NoReq.step = "" BY DEF NoReq
<1>5. RequestsFine'
  <2>1. ASSUME NEW v \in Clients PROVE RequestFine(req'[v], conv'[req'[v].conv])
    <3>1. CASE v = u BY <3>1, <1>2, <1>4 DEF RequestFine, Creates, LocksConv
    <3>2. CASE v # u
      <4>1. req'[v] = req[v] BY <3>2, <1>2
      <4>2. RequestFine(req[v], conv[req[v].conv]) /\ RequestFine(req[u], conv[c])
        BY DEF ConvInv, RequestsFine
      <4>3. ~(Alike(req[u], req[v]) /\ req[u].conv = req[v].conv) BY <3>2 DEF ConvInv, Apart
      <4>4. CASE req[v].do \notin Creates \cup LocksConv \cup {"turn"}
        BY <4>1, <4>2, <4>4 DEF RequestFine, Creates, LocksConv
      <4>5. CASE req[v].do \in Creates \cup LocksConv \cup {"turn"} /\ req[v].conv # c
        <5>1. req[v].conv \in Convs BY <4>2, <4>5 DEF RequestFine
        <5>2. conv'[req[v].conv] = conv[req[v].conv] BY <5>1, <4>5, <1>3
        <5> QED BY <5>2, <4>1, <4>2
      <4>6. CASE req[v].do \in Creates \cup LocksConv \cup {"turn"} /\ req[v].conv = c
        <5>1. req[v].do = "turn"
          BY <4>2, <4>3, <4>6 DEF RequestFine, Alike, Creates, LocksConv
        <5>2. conv'[req[v].conv] = y BY <4>6, <1>3
        <5> QED BY <5>1, <5>2, <4>1, <4>2 DEF RequestFine, Creates, LocksConv
      <4> QED BY <4>4, <4>5, <4>6
    <3> QED BY <3>1, <3>2
  <2> QED BY <2>1 DEF RequestsFine
<1>6. Apart'
  <2> SUFFICES ASSUME NEW v \in Clients, NEW w \in Clients, Alike(req'[v], req'[w]), req'[v].conv = req'[w].conv
               PROVE  v = w
    BY DEF Apart, Alike
  <2>1. v # u /\ w # u BY <1>2, <1>4 DEF Alike, Creates, LocksConv
  <2>2. req'[w] = req[w] /\ req'[v] = req[v] BY <2>1, <1>2
  <2> QED BY <2>2 DEF ConvInv, Apart
<1>7. RowsPlaced'
  <2>1. \A d \in Convs : Placed(conv'[d]) BY <1>3 DEF ConvInv, RowsPlaced
  <2> QED BY <2>1 DEF RowsPlaced, Placed
<1>8. HandFits' BY <1>3 DEF ConvInv, HandFits, KeepsRow
<1>9. ChatNeverWrites'
  <2> SUFFICES ASSUME NEW x \in turns, x.plan.writes
               PROVE  conv'[x.conv].kind \in HandsOn /\ x.plan.project = conv'[x.conv].project /\ x.plan.project # None
    BY DEF ChatNeverWrites
  <2>1. x.conv \in Convs BY DEF ConvInv, ConvTypeOK
  <2>2. conv[x.conv].kind \in HandsOn /\ x.plan.project = conv[x.conv].project /\ x.plan.project # None
    BY DEF ConvInv, ChatNeverWrites
  <2> QED BY <2>1, <2>2, <1>3 DEF KeepsRow
<1> QED BY <1>5, <1>6, <1>7, <1>8, <1>9

\* Only the conversation and the projects are written.
LEMMA ConvStep ==
  ASSUME ConvInv, NEW u \in Clients, NEW c \in Convs, NEW y \in Rows, c = req[u].conv,
         req[u].do \in Creates \cup LocksConv, Done(u), conv' = [conv EXCEPT ![c] = y],
         KeepsRow(conv[c], y), Placed(y), y.kind # "none",
         y.active \in {conv[c].active, None}, y.entry \in {conv[c].entry, None},
         ~conv[c].archived /\ y.archived => conv[c].active = None,
         project' \in [Projects -> ProjectRows], UNCHANGED <<task, born, machine, queue, hand, turns>>
  PROVE  ConvInv' /\ RestStep
<1>1. req \in [Clients -> ReqRows] /\ conv \in [Convs -> Rows] BY DEF ConvInv, ConvTypeOK, ReqRows
<1>2. conv' \in [Convs -> Rows] /\ \A d \in Convs : conv'[d] = IF d = c THEN y ELSE conv[d]
  BY <1>1
<1>3. NoReq \in ReqRows BY DEF NoReq, ReqRows, Steps, Stages
<1>4. req' \in [Clients -> ReqRows] BY <1>1, <1>3 DEF Done
<1>5. ConvTypeOK' BY <1>2, <1>4 DEF ConvInv, ConvTypeOK, ReqRows, ProjectRows
<1>6. RequestsFine' /\ Apart' /\ RowsPlaced' /\ HandFits' /\ ChatNeverWrites' BY WrittenStep
<1>7. (WheelFits /\ TasksPlaced)' BY <1>2 DEF ConvInv, WheelFits, TasksPlaced
<1>8. EntryIsWhole' BY <1>2 DEF ConvInv, EntryIsWhole
<1>9. RestStep BY <1>2 DEF RestStep
<1> QED BY <1>5, <1>6, <1>7, <1>8, <1>9 DEF ConvInv

\* One commit after another, with the rows they write.
LEMMA RequestFacts ==
  ASSUME ConvInv, NEW u \in Clients
  PROVE  /\ req[u] \in ReqRows /\ RequestFine(req[u], conv[req[u].conv])
         /\ req[u].do \in Creates \cup LocksConv => req[u].conv \in Convs /\ conv[req[u].conv] \in Rows
         /\ None \notin Projects /\ None \notin Tasks /\ None \notin Keys
         /\ project \in [Projects -> ProjectRows] /\ conv \in [Convs -> Rows]
<1>1. req[u] \in ReqRows /\ project \in [Projects -> ProjectRows] /\ conv \in [Convs -> Rows]
  BY DEF ConvInv, ConvTypeOK, ReqRows, ProjectRows
<1>2. RequestFine(req[u], conv[req[u].conv]) BY DEF ConvInv, RequestsFine
<1>3. None \notin Projects /\ None \notin Tasks /\ None \notin Keys BY ConversationsAssumption
<1> QED BY <1>1, <1>2, <1>3 DEF RequestFine

LEMMA CommitsStartStep ==
  ASSUME ConvInv, NEW u \in Clients, CommitsStart(u)
  PROVE  ConvInv' /\ RestStep
<1> USE DEF Creates, LocksConv
<1>1. PICK c : c = req[u].conv OBVIOUS
<1>2. PICK y : y = NewConv(req[u].kind, req[u].project) OBVIOUS
<1>3. req[u].do = "start" /\ Done(u) /\ conv' = [conv EXCEPT ![c] = y]
  BY <1>1, <1>2 DEF CommitsStart, Open
<1>4. /\ c \in Convs /\ conv[c] \in Rows /\ conv[c].kind = "none" /\ (req[u].kind \in HandsOn => req[u].project # None)
      /\ req[u].kind \in Kinds
  BY <1>1, <1>3, RequestFacts DEF RequestFine
<1>6. /\ y \in Rows /\ y.kind = req[u].kind /\ y.project = req[u].project
      /\ y.active = None /\ y.entry = None /\ ~y.archived
  BY <1>2, <1>4, RequestFacts DEF NewConv, NoConv, Rows, ReqRows
<1>7. Placed(y) /\ y.kind # "none" /\ KeepsRow(conv[c], y) BY <1>4, <1>6 DEF Placed, KeepsRow, Kinds, HandsOn
<1>8. UNCHANGED <<project, task, born, machine, queue, hand, turns>>
  BY DEF CommitsStart, runner
<1>9. project' \in [Projects -> ProjectRows] BY <1>8, RequestFacts
<1> QED BY <1>1, <1>3, <1>4, <1>6, <1>7, <1>8, <1>9, ConvStep

LEMMA CommitsAttachStep ==
  ASSUME ConvInv, NEW u \in Clients, CommitsAttach(u)
  PROVE  ConvInv' /\ RestStep
<1> USE DEF Creates, LocksConv
<1>1. PICK c : c = req[u].conv OBVIOUS
<1>2. req[u].do = "attach" /\ Done(u) /\ conv' = [conv EXCEPT ![c].project = req[u].project]
  BY <1>1 DEF CommitsAttach, Open
<1>3. c \in Convs /\ conv[c] \in Rows /\ conv[c].kind # "none" /\ conv[c].project = None
  BY <1>1, <1>2, RequestFacts DEF RequestFine
<1>4. PICK y : y = [conv[c] EXCEPT !.project = req[u].project] OBVIOUS
<1>5. /\ y \in Rows /\ y.kind = conv[c].kind
      /\ y.active = conv[c].active /\ y.entry = conv[c].entry /\ y.archived = conv[c].archived
  BY <1>3, <1>4, RequestFacts DEF Rows, ReqRows
<1>6. conv' = [conv EXCEPT ![c] = y] BY <1>2, <1>3, <1>4, RequestFacts
<1>7. conv[c].kind \notin HandsOn BY <1>3 DEF ConvInv, RowsPlaced, Placed
<1>8. Placed(y) /\ y.kind # "none" /\ KeepsRow(conv[c], y) BY <1>3, <1>5, <1>7 DEF Placed, KeepsRow
<1>9. UNCHANGED <<project, task, born, machine, queue, hand, turns>>
  BY DEF CommitsAttach, runner
<1>10. project' \in [Projects -> ProjectRows] BY <1>9, RequestFacts
<1> QED BY <1>1, <1>2, <1>3, <1>5, <1>6, <1>8, <1>9, <1>10, ConvStep

LEMMA CommitsToWorkStep ==
  ASSUME ConvInv, NEW u \in Clients, CommitsToWork(u)
  PROVE  ConvInv' /\ RestStep
<1> USE DEF Creates, LocksConv
<1>1. PICK c : c = req[u].conv OBVIOUS
<1>2. req[u].do = "towork" /\ Done(u) /\ conv' = [conv EXCEPT ![c].kind = "work"]
  BY <1>1 DEF CommitsToWork, Open
<1>3. c \in Convs /\ conv[c] \in Rows /\ conv[c].kind # "none" /\ conv[c].project # None
  BY <1>1, <1>2, RequestFacts DEF RequestFine
<1>4. PICK y : y = [conv[c] EXCEPT !.kind = "work"] OBVIOUS
<1>5. /\ y \in Rows /\ y.kind = "work" /\ y.project = conv[c].project
      /\ y.active = conv[c].active /\ y.entry = conv[c].entry /\ y.archived = conv[c].archived
  BY <1>3, <1>4 DEF Rows, Kinds, HandsOn
<1>6. conv' = [conv EXCEPT ![c] = y] BY <1>2, <1>3, <1>4, RequestFacts
<1>7. Placed(y) /\ y.kind # "none" /\ KeepsRow(conv[c], y) BY <1>3, <1>5 DEF Placed, KeepsRow, HandsOn
<1>8. UNCHANGED <<project, task, born, machine, queue, hand, turns>>
  BY DEF CommitsToWork, runner
<1>9. project' \in [Projects -> ProjectRows] BY <1>8, RequestFacts
<1> QED BY <1>1, <1>2, <1>3, <1>5, <1>6, <1>7, <1>8, <1>9, ConvStep

LEMMA CommitsArchiveStep ==
  ASSUME ConvInv, NEW u \in Clients, CommitsArchive(u)
  PROVE  ConvInv' /\ RestStep
<1> USE DEF Creates, LocksConv
<1>1. PICK c : c = req[u].conv OBVIOUS
<1>2. PICK y : y = [conv[c] EXCEPT !.archived = ~@] OBVIOUS
<1>3. req[u].do = "archive" /\ Done(u) /\ conv' = [conv EXCEPT ![c].archived = ~@]
  BY <1>1 DEF CommitsArchive, Open
<1>4. /\ c \in Convs /\ conv[c] \in Rows /\ conv[c].kind # "none"
      /\ ~conv[c].archived => conv[c].active = None
  BY <1>1, <1>3, RequestFacts DEF RequestFine
<1>5. /\ y \in Rows /\ y.kind = conv[c].kind /\ y.project = conv[c].project
      /\ y.active = conv[c].active /\ y.entry = conv[c].entry
  BY <1>2, <1>4 DEF Rows
<1>6. conv' = [conv EXCEPT ![c] = y] BY <1>2, <1>3, <1>4, RequestFacts
<1>7. Placed(y) /\ y.kind # "none" /\ KeepsRow(conv[c], y)
  BY <1>4, <1>5 DEF ConvInv, RowsPlaced, Placed, KeepsRow
<1>8. UNCHANGED <<project, task, born, machine, queue, hand, turns>>
  BY DEF CommitsArchive, runner
<1>9. project' \in [Projects -> ProjectRows] BY <1>8, RequestFacts
<1> QED BY <1>1, <1>3, <1>4, <1>5, <1>6, <1>7, <1>8, <1>9, ConvStep

LEMMA CommitsTurnStep ==
  ASSUME ConvInv, NEW u \in Clients, CommitsTurn(u)
  PROVE  ConvInv' /\ RestStep
<1>1. PICK r : r = [req[u] EXCEPT !.step = "enqueue"] OBVIOUS
<1>2. /\ req[u].do = "turn" /\ req' = [req EXCEPT ![u].step = "enqueue"]
      /\ UNCHANGED <<conv, project, task, born, machine, queue, hand, turns>>
  BY DEF CommitsTurn, Open, ToEnqueue, tables, runner
<1>3. req[u] \in ReqRows /\ RequestFine(req[u], conv[req[u].conv]) BY RequestFacts
<1>4. r \in ReqRows /\ r.do = "turn" /\ r.conv = req[u].conv
  BY <1>1, <1>2, <1>3 DEF ReqRows, Stages
<1>5. req \in [Clients -> ReqRows] BY DEF ConvInv, ConvTypeOK, ReqRows
<1>6. req' \in [Clients -> ReqRows] /\ \A v \in Clients : req'[v] = IF v = u THEN r ELSE req[v]
  BY <1>1, <1>2, <1>4, <1>5
<1>7. ConvTypeOK' BY <1>2, <1>6 DEF ConvInv, ConvTypeOK, ReqRows
<1>8. RequestsFine'
  <2>1. RequestFine(r, conv[r.conv]) BY <1>2, <1>3, <1>4 DEF RequestFine, Creates, LocksConv
  <2>2. \A v \in Clients : RequestFine(req'[v], conv[req'[v].conv])
    BY <2>1, <1>6 DEF ConvInv, RequestsFine
  <2> QED BY <2>2, <1>2 DEF RequestsFine
<1>9. Apart'
  <2> SUFFICES ASSUME NEW v \in Clients, NEW w \in Clients, Alike(req'[v], req'[w]), req'[v].conv = req'[w].conv
               PROVE  v = w
    BY DEF Apart, Alike
  <2>1. v # u /\ w # u BY <1>6, <1>4 DEF Alike, Creates, LocksConv
  <2>2. req'[w] = req[w] /\ req'[v] = req[v] BY <2>1, <1>6
  <2> QED BY <2>2 DEF ConvInv, Apart
<1>10. (RowsPlaced /\ HandFits /\ ChatNeverWrites /\ WheelFits /\ TasksPlaced /\ EntryIsWhole)'
  BY <1>2 DEF ConvInv, RowsPlaced, Placed, HandFits, ChatNeverWrites, WheelFits, TasksPlaced, EntryIsWhole
<1>11. RestStep BY <1>2 DEF RestStep
<1> QED BY <1>7, <1>8, <1>9, <1>10, <1>11 DEF ConvInv

LEMMA EnqueuesStep ==
  ASSUME ConvInv, NEW u \in Clients, Enqueues(u)
  PROVE  ConvInv' /\ RestStep
<1>1. /\ Done(u) /\ UNCHANGED <<conv, task, born, hand, turns>> /\ machine' = machine /\ project' = project
      /\ req[u].step = "enqueue" /\ queue' = Append(queue, req[u].conv)
  BY DEF Enqueues, tables, runner
<1>2. req[u].conv \in Convs BY <1>1, RequestFacts DEF RequestFine
<1>3. queue \in Seq(Convs) BY DEF ConvInv, ConvTypeOK
<1>4. queue' \in Seq(Convs) BY <1>1, <1>2, <1>3
<1>5. project' \in [Projects -> ProjectRows] BY <1>1, RequestFacts
<1> QED BY <1>1, <1>4, <1>5, DoneStep

LEMMA WebDiesStep ==
  ASSUME ConvInv, NEW u \in Clients, WebDies(u)
  PROVE  ConvInv' /\ RestStep
<1>1. Done(u) /\ UNCHANGED <<conv, task, born, hand, turns>> /\ machine' = machine /\ project' = project /\ queue' = queue
  BY DEF WebDies, tables, runner
<1>2. queue' \in Seq(Convs) BY <1>1 DEF ConvInv, ConvTypeOK
<1>3. project' \in [Projects -> ProjectRows] BY <1>1, RequestFacts
<1> QED BY <1>1, <1>2, <1>3, DoneStep

LEMMA CommitsCreateProjectStep ==
  ASSUME ConvInv, NEW u \in Clients, CommitsCreateProject(u)
  PROVE  ConvInv' /\ RestStep
<1> DEFINE p == req[u].project
           d == req[u].saw
<1>1. Done(u) /\ UNCHANGED <<conv, task, born, hand, turns>> /\ machine' = machine /\ queue' = queue
  BY DEF CommitsCreateProject, runner
<1>2. project' = project \/ project' = [project EXCEPT ![p] = [state |-> "live", dir |-> d]]
  BY DEF CommitsCreateProject
<1>3. d \in Dirs \cup {None} BY RequestFacts DEF ReqRows
<1>4. [state |-> "live", dir |-> d] \in ProjectRows BY <1>3 DEF ProjectRows
<1>5. project' \in [Projects -> ProjectRows]
  <2> HIDE DEF p, d
  <2> QED BY <1>2, <1>4, RequestFacts
<1>6. queue' \in Seq(Convs) BY <1>1 DEF ConvInv, ConvTypeOK
<1> QED BY <1>1, <1>5, <1>6, DoneStep

LEMMA CommitsArchiveProjectStep ==
  ASSUME ConvInv, NEW u \in Clients, CommitsArchiveProject(u)
  PROVE  ConvInv' /\ RestStep
<1> DEFINE p == req[u].project
<1>1. Done(u) /\ UNCHANGED <<conv, task, born, hand, turns>> /\ machine' = machine /\ queue' = queue
  BY DEF CommitsArchiveProject, runner
<1>2. \/ project' = project
      \/ project' = [project EXCEPT ![p].state = "archived"]
      \/ project' = [project EXCEPT ![p].state = "live"]
  BY DEF CommitsArchiveProject
<1>3. project' \in [Projects -> ProjectRows]
  <2> HIDE DEF p
  <2> QED BY <1>2, RequestFacts DEF ProjectRows
<1>4. queue' \in Seq(Convs) BY <1>1 DEF ConvInv, ConvTypeOK
<1> QED BY <1>1, <1>3, <1>4, DoneStep

LEMMA CommitsByDirectoryStep ==
  ASSUME ConvInv, NEW u \in Clients, CommitsByDirectory(u)
  PROVE  ConvInv' /\ RestStep
<1> USE DEF Creates, LocksConv
<1> DEFINE p == req[u].project
           d == req[u].saw
<1>1. PICK c : c = req[u].conv OBVIOUS
<1>2. PICK y : y = NewConv("work", p) OBVIOUS
<1>3. /\ req[u].do = "byDirectory" /\ Done(u) /\ UNCHANGED <<task, born, machine, queue, hand, turns>>
      /\ \/ conv' = conv /\ project' = project
         \/ /\ conv' = [conv EXCEPT ![c] = y]
            /\ project' = project \/ project' = [project EXCEPT ![p] = [state |-> "live", dir |-> d]]
  BY <1>1, <1>2, Zenon DEF CommitsByDirectory, Open, runner
<1>4. c \in Convs /\ conv[c] \in Rows /\ conv[c].kind = "none" /\ p # None
  BY <1>1, <1>3, RequestFacts DEF RequestFine
<1>5. /\ y \in Rows /\ y.kind = "work" /\ y.project = p
      /\ y.active = None /\ y.entry = None /\ ~y.archived
  BY <1>2, RequestFacts DEF NewConv, NoConv, Rows, ReqRows, Kinds, HandsOn
<1>6. Placed(y) /\ y.kind # "none" /\ KeepsRow(conv[c], y) BY <1>4, <1>5 DEF Placed, KeepsRow, HandsOn
<1>7. d \in Dirs \cup {None} BY RequestFacts DEF ReqRows
<1>8. [state |-> "live", dir |-> d] \in ProjectRows BY <1>7 DEF ProjectRows
<1>9. project' \in [Projects -> ProjectRows]
  <2> HIDE DEF p, d
  <2> QED BY <1>3, <1>8, RequestFacts
<1>10. queue \in Seq(Convs) BY DEF ConvInv, ConvTypeOK
<1>11. CASE conv' = conv BY <1>3, <1>9, <1>10, <1>11, DoneStep
<1>12. CASE conv' = [conv EXCEPT ![c] = y]
  BY <1>1, <1>3, <1>4, <1>5, <1>6, <1>9, <1>12, ConvStep
<1> QED BY <1>3, <1>11, <1>12

\* A task and the conversation it is in are written together.
LEMMA HandsOverStep ==
  ASSUME ConvInv, NEW u \in Clients, NEW t \in Unborn, NEW c \in Convs, NEW row \in Rows, NEW key \in Keys \cup {None},
         c = req[u].conv, req[u].do \in {"handover", "entry"}, Done(u), KeyFree(key),
         HandsOver(t, c, row, row.project, key), row.project # None,
         row.kind = "none" => conv[c].kind = "none",
         conv[c].kind # "none" => row = conv[c],
         conv[c].kind = "none" => row.active = None /\ row.entry = key /\ ~row.archived,
         UNCHANGED <<project, machine, queue, hand, turns>>
  PROVE  ConvInv' /\ RestStep
<1> DEFINE waits == WorkingIn(row.project) # {}
<1>1. PICK y : y = [row EXCEPT !.kind = "expert", !.active = IF waits THEN @ ELSE t] OBVIOUS
<1>2. PICK x : x = [state |-> IF waits THEN "queued" ELSE "active", conv |-> c, key |-> key] OBVIOUS
<1>3. conv' = [conv EXCEPT ![c] = y] /\ task' = [task EXCEPT ![t] = x] /\ born' = Append(born, t)
  BY <1>1, <1>2 DEF HandsOver
<1>4. t \in Tasks /\ task[t].state = "none" /\ None \notin Tasks BY RequestFacts DEF Unborn
<1>5. /\ y \in Rows /\ y.kind = "expert" /\ y.project = row.project /\ y.entry = row.entry /\ y.archived = row.archived
      /\ y.active = IF waits THEN row.active ELSE t
  <2> HIDE DEF waits
  <2> QED BY <1>1, <1>4 DEF Rows, Kinds, HandsOn
<1>6. x \in TaskRows /\ x.state = (IF waits THEN "queued" ELSE "active") /\ x.conv = c /\ x.key = key
  <2> HIDE DEF waits
  <2> QED BY <1>2 DEF TaskRows
<1> HIDE DEF waits
<1>7. conv \in [Convs -> Rows] /\ task \in [Tasks -> TaskRows] /\ born \in Seq(Tasks) /\ req \in [Clients -> ReqRows]
  BY DEF ConvInv, ConvTypeOK, ReqRows, TaskRows
<1>8. conv' \in [Convs -> Rows] /\ \A d \in Convs : conv'[d] = IF d = c THEN y ELSE conv[d]
  BY <1>3, <1>5, <1>7
<1>9. task' \in [Tasks -> TaskRows] /\ \A v \in Tasks : task'[v] = IF v = t THEN x ELSE task[v]
  BY <1>3, <1>4, <1>6, <1>7
<1>10. NoReq \in ReqRows BY DEF NoReq, ReqRows, Steps, Stages
<1>11. req' \in [Clients -> ReqRows] /\ born' \in Seq(Tasks) BY <1>3, <1>4, <1>7, <1>10 DEF Done
<1>12. ConvTypeOK' BY <1>8, <1>9, <1>11 DEF ConvInv, ConvTypeOK, ReqRows, TaskRows
<1>13. Placed(y) /\ y.kind # "none" /\ KeepsRow(conv[c], y) BY <1>5 DEF Placed, KeepsRow, HandsOn
<1>14. RequestsFine' /\ Apart' /\ RowsPlaced' /\ HandFits' /\ ChatNeverWrites'
  BY <1>3, <1>5, <1>13, WrittenStep DEF Creates, LocksConv
<1>15. ASSUME NEW a \in Tasks, task[a].state # "none" PROVE task'[a] = task[a]
  BY <1>4, <1>9, <1>15
<1>16. WheelFits'
  <2> SUFFICES ASSUME NEW d \in Convs, conv'[d].active # None
               PROVE  task'[conv'[d].active].state = "active" /\ task'[conv'[d].active].conv = d
    BY DEF WheelFits
  <2>1. CASE d = c /\ ~waits BY <2>1, <1>4, <1>5, <1>6, <1>8, <1>9
  <2>2. CASE d # c \/ waits
    <3>1. conv'[d].active = conv[d].active BY <2>2, <1>5, <1>8
    <3>2. conv[d].active \in Tasks /\ task[conv[d].active].state = "active" /\ task[conv[d].active].conv = d
      BY <3>1, <1>7 DEF ConvInv, WheelFits, Rows
    <3> QED BY <3>1, <3>2, <1>15
  <2> QED BY <2>1, <2>2
<1>17. TasksPlaced' BY <1>6, <1>9 DEF ConvInv, TasksPlaced
<1>18. EntryIsWhole'
  <2>1. ASSUME NEW d \in Convs, conv'[d].entry # None
        PROVE  \E v \in Tasks : task'[v].state # "none" /\ task'[v].conv = d /\ task'[v].key = conv'[d].entry
    <3>1. CASE conv'[d].entry = conv[d].entry
      <4>1. PICK v \in Tasks : task[v].state # "none" /\ task[v].conv = d /\ task[v].key = conv[d].entry
        BY <2>1, <3>1 DEF ConvInv, EntryIsWhole
      <4> QED BY <3>1, <4>1, <1>15
    <3>2. CASE conv'[d].entry # conv[d].entry
      <4>1. d = c /\ y.entry # conv[c].entry BY <3>2, <1>8
      <4>2. y.entry = key BY <4>1, <1>5
      <4> QED BY <4>1, <4>2, <1>4, <1>6, <1>8, <1>9
    <3> QED BY <3>1, <3>2
  <2>2. ASSUME NEW v \in Tasks, NEW w \in Tasks, task'[v].state # "none", task'[w].state # "none", task'[v].key = task'[w].key
        PROVE  v = w
    <3>1. \A a \in Tasks : task[a].state # "none" => task[a].key # key BY DEF KeyFree, Prior
    <3> QED BY <2>2, <3>1, <1>6, <1>9 DEF ConvInv, EntryIsWhole
  <2> QED BY <2>1, <2>2 DEF EntryIsWhole
<1>19. RestStep BY <1>5, <1>8 DEF RestStep
<1> QED BY <1>12, <1>14, <1>16, <1>17, <1>18, <1>19 DEF ConvInv

LEMMA CommitsHandoverStep ==
  ASSUME ConvInv, NEW u \in Clients, CommitsHandover(u)
  PROVE  ConvInv' /\ RestStep
<1> USE DEF Creates, LocksConv
<1>1. PICK c : c = req[u].conv OBVIOUS
<1>2. PICK key : key = req[u].key OBVIOUS
<1>3. /\ req[u].do = "handover" /\ Done(u) /\ UNCHANGED <<project, machine, queue, hand, turns>>
      /\ \/ /\ KeyFree(key)
            /\ \E t \in Unborn : HandsOver(t, c, conv[c], req[u].project, key)
         \/ UNCHANGED <<task, conv, born>>
  BY <1>1, <1>2 DEF CommitsHandover, Open, runner
<1>4. /\ c \in Convs /\ conv[c] \in Rows /\ conv[c].kind # "none"
      /\ conv[c].project = req[u].project /\ req[u].project # None
  BY <1>1, <1>3, RequestFacts DEF RequestFine
<1>5. key \in Keys \cup {None} BY <1>2, RequestFacts DEF ReqRows
<1>6. ASSUME KeyFree(key), NEW t \in Unborn, HandsOver(t, c, conv[c], req[u].project, key)
      PROVE  ConvInv' /\ RestStep
  <2>1. PICK row \in Rows : row = conv[c] BY <1>4
  <2>2. HandsOver(t, c, row, row.project, key) BY <1>4, <1>6, <2>1
  <2> QED BY <1>1, <1>3, <1>4, <1>5, <1>6, <2>1, <2>2, HandsOverStep
<1>7. CASE UNCHANGED <<task, conv, born>>
  <2>1. queue' \in Seq(Convs) BY <1>3 DEF ConvInv, ConvTypeOK
  <2>2. project' \in [Projects -> ProjectRows] BY <1>3, RequestFacts
  <2> QED BY <1>3, <1>7, <2>1, <2>2, DoneStep
<1> QED BY <1>3, <1>6, <1>7

LEMMA CommitsEntryStep ==
  ASSUME ConvInv, NEW u \in Clients, CommitsEntry(u)
  PROVE  ConvInv' /\ RestStep
<1> USE DEF Creates, LocksConv
<1>1. PICK c : c = req[u].conv OBVIOUS
<1>2. PICK key : key = req[u].key OBVIOUS
<1>3. PICK row : row = [NewConv("expert", req[u].project) EXCEPT !.entry = key] OBVIOUS
<1>4. /\ req[u].do = "entry" /\ Done(u) /\ UNCHANGED <<project, machine, queue, hand, turns>>
      /\ \/ /\ KeyFree(key)
            /\ \E t \in Unborn : HandsOver(t, c, row, req[u].project, key)
         \/ UNCHANGED <<task, conv, born>>
  BY <1>1, <1>2, <1>3 DEF CommitsEntry, Open, runner, NothingLeft
<1>5. c \in Convs /\ conv[c] \in Rows /\ conv[c].kind = "none" /\ req[u].project # None
  BY <1>1, <1>4, RequestFacts DEF RequestFine
<1>6. key \in Keys \cup {None} BY <1>2, RequestFacts DEF ReqRows
<1>7. /\ row \in Rows /\ row.kind = "expert" /\ row.project = req[u].project
      /\ row.active = None /\ row.entry = key /\ ~row.archived
  BY <1>3, <1>6, RequestFacts DEF NewConv, NoConv, Rows, ReqRows, Kinds, HandsOn
<1>8. ASSUME KeyFree(key), NEW t \in Unborn, HandsOver(t, c, row, req[u].project, key)
      PROVE  ConvInv' /\ RestStep
  <2>1. HandsOver(t, c, row, row.project, key) BY <1>7, <1>8
  <2>2. row.kind # "none" /\ row.project # None BY <1>5, <1>7
  <2> QED BY <1>1, <1>4, <1>5, <1>6, <1>7, <1>8, <2>1, <2>2, HandsOverStep
<1>9. CASE UNCHANGED <<task, conv, born>>
  <2>1. queue' \in Seq(Convs) BY <1>4 DEF ConvInv, ConvTypeOK
  <2>2. project' \in [Projects -> ProjectRows] BY <1>4, RequestFacts
  <2> QED BY <1>4, <1>9, <2>1, <2>2, DoneStep
<1> QED BY <1>4, <1>8, <1>9

-----------------------------------------------------------------------------
(* A task ends, and the one that waited longest begins. *)

\* A line of numbers has a first one.
LEMMA FirstInLine ==
  ASSUME NEW line, line \subseteq Nat, line # {}
  PROVE  \E i \in line : \A j \in line : i <= j
<1>1. PICK i \in line : \A j \in line : ~(<<j, i>> \in OpToRel(<, Nat))
  BY NatLessThanWellFounded, WFMin
<1>2. ASSUME NEW j \in line PROVE i <= j
  <2>1. j \in Nat /\ i \in Nat OBVIOUS
  <2>2. ~(j < i) BY <1>1, <2>1 DEF OpToRel
  <2> QED BY <2>1, <2>2
<1> QED BY <1>2

\* Who is oldest in a line that somebody stands in, is somebody who stands in it.
LEMMA OldestWaits ==
  ASSUME ConvInv, NEW p, InLine(p) # {}
  PROVE  Oldest(InLine(p)) \in Tasks /\ task[Oldest(InLine(p))].state = "queued"
<1>1. born \in Seq(Tasks) BY DEF ConvInv, ConvTypeOK
<1> DEFINE line == InLine(p)
<1>2. \A i \in line : i \in Nat /\ born[i] \in Tasks /\ task[born[i]].state = "queued" BY <1>1 DEF InLine
<1>3. line \subseteq Nat /\ line # {} BY <1>2
<1> HIDE DEF line
<1>4. \E i \in line : \A j \in line : i <= j BY <1>3, FirstInLine
<1>5. PICK i \in line : Oldest(line) = born[i] BY <1>4 DEF Oldest
<1>6. Oldest(line) \in Tasks /\ task[Oldest(line)].state = "queued" BY <1>2, <1>5
<1> QED BY <1>6 DEF line

LEMMA TaskEndsStep ==
  ASSUME ConvInv, NEW t \in Tasks, TaskEnds(t)
  PROVE  ConvInv' /\ RestStep
<1>1. PICK c : c = task[t].conv OBVIOUS
<1>2. PICK line : line = InLine(conv[c].project) OBVIOUS
<1>3. PICK n : n = Oldest(line) OBVIOUS
<1> DEFINE freed == [conv EXCEPT ![c].active = None]
           ended == [task EXCEPT ![t].state = "ended"]
           starts == line # {} /\ freed[task[n].conv].active = None
<1>4. /\ task[t].state = "active" /\ ~Locked(c)
      /\ line # {} => ~Locked(task[n].conv)
      /\ \/ starts /\ task' = [ended EXCEPT ![n].state = "active"]
                   /\ conv' = [freed EXCEPT ![task[n].conv].active = n]
         \/ ~starts /\ task' = ended /\ conv' = freed
      /\ UNCHANGED <<project, born, machine, req, queue, hand, turns>>
  BY <1>1, <1>2, <1>3, Zenon DEF TaskEnds, BeginsLocked, runner
<1>5. /\ conv \in [Convs -> Rows] /\ task \in [Tasks -> TaskRows] /\ req \in [Clients -> ReqRows]
      /\ None \notin Tasks
  BY RequestFacts, ConversationsAssumption DEF ConvInv, ConvTypeOK, ReqRows, TaskRows
<1>6. c \in Convs BY <1>1, <1>4 DEF ConvInv, TasksPlaced
<1>7. /\ freed \in [Convs -> Rows]
      /\ \A d \in Convs : /\ freed[d].kind = conv[d].kind /\ freed[d].project = conv[d].project
                          /\ freed[d].archived = conv[d].archived /\ freed[d].entry = conv[d].entry
                          /\ freed[d].active = IF d = c THEN None ELSE conv[d].active
  BY <1>5, <1>6 DEF Rows
<1>8. /\ ended \in [Tasks -> TaskRows]
      /\ \A v \in Tasks : /\ ended[v].conv = task[v].conv /\ ended[v].key = task[v].key
                          /\ ended[v].state = IF v = t THEN "ended" ELSE task[v].state
  BY <1>5 DEF TaskRows
<1>9. line # {} => n \in Tasks /\ task[n].state = "queued" /\ task[n].conv \in Convs
  <2>1. line # {} => n \in Tasks /\ task[n].state = "queued" BY <1>2, <1>3, OldestWaits
  <2> QED BY <2>1 DEF ConvInv, TasksPlaced
<1> HIDE DEF freed, ended
<1>10. /\ conv' \in [Convs -> Rows]
       /\ \A d \in Convs : /\ conv'[d].kind = conv[d].kind /\ conv'[d].project = conv[d].project
                           /\ conv'[d].archived = conv[d].archived /\ conv'[d].entry = conv[d].entry
                           /\ conv'[d].active = IF starts /\ d = task[n].conv THEN n
                                                ELSE IF d = c THEN None ELSE conv[d].active
  <2>1. CASE ~starts BY <1>4, <1>7, <2>1
  <2>2. CASE starts
    <3>1. conv' = [freed EXCEPT ![task[n].conv].active = n] /\ n \in Tasks /\ task[n].conv \in Convs
      BY <1>4, <1>9, <2>2
    <3>2. conv' \in [Convs -> Rows] BY <3>1, <1>7 DEF Rows
    <3>3. \A d \in Convs : conv'[d] = IF d = task[n].conv THEN [freed[d] EXCEPT !.active = n] ELSE freed[d]
      BY <3>1, <1>7
    <3>4. \A d \in Convs : freed[d] \in Rows BY <1>7
    <3> HIDE DEF starts
    <3> QED BY <2>2, <3>2, <3>3, <3>4, <1>7 DEF Rows
  <2> QED BY <2>1, <2>2
<1>11. /\ task' \in [Tasks -> TaskRows]
       /\ \A v \in Tasks : /\ task'[v].conv = task[v].conv /\ task'[v].key = task[v].key
                           /\ task'[v].state = IF starts /\ v = n THEN "active"
                                               ELSE IF v = t THEN "ended" ELSE task[v].state
  <2>1. CASE ~starts BY <1>4, <1>8, <2>1
  <2>2. CASE starts
    <3>1. task' = [ended EXCEPT ![n].state = "active"] /\ n \in Tasks BY <1>4, <1>9, <2>2
    <3>2. task' \in [Tasks -> TaskRows] BY <3>1, <1>8 DEF TaskRows
    <3>3. \A v \in Tasks : task'[v] = IF v = n THEN [ended[v] EXCEPT !.state = "active"] ELSE ended[v]
      BY <3>1, <1>8
    <3>4. \A v \in Tasks : ended[v] \in TaskRows BY <1>8
    <3> HIDE DEF starts
    <3> QED BY <2>2, <3>2, <3>3, <3>4, <1>8 DEF TaskRows
  <2> QED BY <2>1, <2>2
<1>12. starts => n \in Tasks /\ task[n].state = "queued" /\ n # t /\ task[n].conv \in Convs /\ ~Locked(task[n].conv)
  BY <1>4, <1>9
<1> HIDE DEF starts
<1>13. ConvTypeOK' BY <1>4, <1>10, <1>11 DEF ConvInv, ConvTypeOK, ReqRows, TaskRows
<1>14. RequestsFine'
  <2>1. ASSUME NEW v \in Clients PROVE RequestFine(req[v], conv'[req[v].conv])
    <3>1. RequestFine(req[v], conv[req[v].conv]) BY DEF ConvInv, RequestsFine
    <3>2. CASE req[v].do \notin Creates \cup LocksConv \cup {"turn"}
      BY <3>1, <3>2 DEF RequestFine, Creates, LocksConv
    <3>3. CASE req[v].do \in Creates \cup LocksConv \cup {"turn"}
      <4>1. req[v].conv \in Convs BY <3>1, <3>3 DEF RequestFine
      <4>2. req[v].do = "archive" => conv'[req[v].conv].active = conv[req[v].conv].active
        <5>1. SUFFICES ASSUME req[v].do = "archive" PROVE conv'[req[v].conv].active = conv[req[v].conv].active
          OBVIOUS
        <5>2. req[v].step = "open" BY <5>1, <3>1 DEF RequestFine, LocksConv
        <5>3. Locked(req[v].conv) BY <5>1, <5>2 DEF Locked, LocksConv
        <5> QED BY <4>1, <5>3, <1>4, <1>10, <1>12
      <4> QED BY <3>1, <4>1, <4>2, <1>10 DEF RequestFine
    <3> QED BY <3>2, <3>3
  <2> QED BY <2>1, <1>4 DEF RequestsFine
<1>15. Apart' BY <1>4 DEF ConvInv, Apart, Alike
<1>16. (RowsPlaced /\ HandFits /\ TasksPlaced)'
  BY <1>4, <1>10, <1>11, <1>12 DEF ConvInv, RowsPlaced, Placed, HandFits, TasksPlaced
<1>17. ChatNeverWrites'
  <2> SUFFICES ASSUME NEW x \in turns, x.plan.writes
               PROVE  conv'[x.conv].kind \in HandsOn /\ x.plan.project = conv'[x.conv].project /\ x.plan.project # None
    BY <1>4 DEF ChatNeverWrites
  <2>1. x.conv \in Convs BY DEF ConvInv, ConvTypeOK
  <2> QED BY <2>1, <1>10 DEF ConvInv, ChatNeverWrites
<1>18. WheelFits'
  <2> SUFFICES ASSUME NEW d \in Convs, conv'[d].active # None
               PROVE  task'[conv'[d].active].state = "active" /\ task'[conv'[d].active].conv = d
    BY DEF WheelFits
  <2>1. CASE starts /\ d = task[n].conv BY <2>1, <1>10, <1>11, <1>12
  <2>2. CASE ~(starts /\ d = task[n].conv)
    <3>1. conv'[d].active = conv[d].active /\ d # c BY <2>2, <1>10
    <3>2. conv[d].active \in Tasks /\ task[conv[d].active].state = "active" /\ task[conv[d].active].conv = d
      BY <3>1, <1>5 DEF ConvInv, WheelFits, Rows
    <3>3. conv[d].active # t BY <3>1, <3>2, <1>1
    <3> QED BY <3>1, <3>2, <3>3, <1>11
  <2> QED BY <2>1, <2>2
<1>19. EntryIsWhole'
  <2>1. \A v \in Tasks : task'[v].state # "none" <=> task[v].state # "none" BY <1>4, <1>11, <1>12
  <2>2. ASSUME NEW d \in Convs, conv'[d].entry # None
        PROVE  \E v \in Tasks : task'[v].state # "none" /\ task'[v].conv = d /\ task'[v].key = conv'[d].entry
    BY <2>1, <2>2, <1>10, <1>11 DEF ConvInv, EntryIsWhole
  <2>3. ASSUME NEW v \in Tasks, NEW w \in Tasks, task'[v].state # "none", task'[w].state # "none", task'[v].key = task'[w].key
        PROVE  v = w
    BY <2>1, <2>3, <1>11 DEF ConvInv, EntryIsWhole
  <2> QED BY <2>2, <2>3 DEF EntryIsWhole
<1>20. RestStep BY <1>10 DEF RestStep
<1> QED BY <1>13, <1>14, <1>15, <1>16, <1>17, <1>18, <1>19, <1>20 DEF ConvInv

-----------------------------------------------------------------------------
(* The runner and the machine. *)

\* What the runner looks at of a session is a row of its kind and project.
LEMMA ReadIs ==
  ASSUME conv \in [Convs -> Rows], NEW c \in Convs
  PROVE  Read(c) \in Rows /\ Read(c).kind = conv[c].kind /\ Read(c).project = conv[c].project
<1>1. conv[c] \in Rows OBVIOUS
<1> QED BY <1>1 DEF Read, Rows

LEMMA TakesTurnStep ==
  ASSUME ConvInv, TakesTurn
  PROVE  ConvInv' /\ RestStep
<1>1. PICK c : c = Head(queue) OBVIOUS
<1>2. /\ queue # <<>> /\ hand' = [conv |-> c, saw |-> Read(c)] /\ queue' = Tail(queue)
      /\ UNCHANGED <<conv, project, task, born, machine, req, turns>>
  BY <1>1 DEF TakesTurn, tables
<1>3. queue \in Seq(Convs) /\ conv \in [Convs -> Rows] BY DEF ConvInv, ConvTypeOK
<1>4. c \in Convs /\ queue' \in Seq(Convs) BY <1>1, <1>2, <1>3
<1>5. hand' \in [conv: Convs \cup {None}, saw: Rows] BY <1>2, <1>3, <1>4, ReadIs
<1>6. ConvTypeOK' BY <1>2, <1>4, <1>5 DEF ConvInv, ConvTypeOK
<1>7. HandFits'
  <2>1. hand'.conv = c /\ hand'.saw = Read(c) BY <1>2
  <2> QED BY <1>2, <1>3, <1>4, <2>1, ReadIs DEF HandFits
<1>8. (RequestsFine /\ Apart /\ RowsPlaced /\ ChatNeverWrites /\ WheelFits /\ TasksPlaced /\ EntryIsWhole)'
  BY <1>2 DEF ConvInv, RequestsFine, Apart, Alike, RowsPlaced, Placed, ChatNeverWrites, WheelFits, TasksPlaced,
              EntryIsWhole
<1>9. RestStep BY <1>2 DEF RestStep
<1> QED BY <1>6, <1>7, <1>8, <1>9 DEF ConvInv

LEMMA ReadsAgainStep ==
  ASSUME ConvInv, ReadsAgain
  PROVE  ConvInv' /\ RestStep
<1>1. /\ hand # NoHand /\ hand' = [hand EXCEPT !.saw = Read(hand.conv)]
      /\ UNCHANGED <<conv, project, task, born, machine, req, queue, turns>>
  BY DEF ReadsAgain, tables
<1>2. hand \in [conv: Convs \cup {None}, saw: Rows] /\ conv \in [Convs -> Rows] BY DEF ConvInv, ConvTypeOK
<1>3. hand.conv \in Convs BY <1>1 DEF ConvInv, HandFits
<1>4. hand' \in [conv: Convs \cup {None}, saw: Rows] /\ hand'.conv = hand.conv /\ hand'.saw = Read(hand.conv)
  BY <1>1, <1>2, <1>3, ReadIs
<1>5. ConvTypeOK' BY <1>1, <1>4 DEF ConvInv, ConvTypeOK
<1>6. HandFits' BY <1>1, <1>2, <1>3, <1>4, ReadIs DEF HandFits
<1>7. (RequestsFine /\ Apart /\ RowsPlaced /\ ChatNeverWrites /\ WheelFits /\ TasksPlaced /\ EntryIsWhole)'
  BY <1>1 DEF ConvInv, RequestsFine, Apart, Alike, RowsPlaced, Placed, ChatNeverWrites, WheelFits, TasksPlaced,
              EntryIsWhole
<1>8. RestStep BY <1>1 DEF RestStep
<1> QED BY <1>5, <1>6, <1>7, <1>8 DEF ConvInv

\* Only a session that works gets a turn that may write, and then in its project.
LEMMA PlanFits ==
  ASSUME NEW row \in Rows
  PROVE  /\ Plan(row) \in TurnPlans
         /\ Plan(row).writes => row.kind \in HandsOn /\ Plan(row).project = row.project
<1>1. PICK mode : mode = ModeOf(row) OBVIOUS
<1>2. mode \in HandsOn \cup {"chat_in_project", "chat"} /\ (mode \in HandsOn => row.kind \in HandsOn)
  BY <1>1 DEF ModeOf, HandsOn
<1>3. Plan(row) = [writes |-> mode \in HandsOn, project |-> IF mode = "chat" THEN None ELSE row.project]
  BY <1>1 DEF Plan, Settings
<1>4. row.project \in Projects \cup {None} BY DEF Rows
<1>5. (mode \in HandsOn) \in BOOLEAN OBVIOUS
<1>6. (IF mode = "chat" THEN None ELSE row.project) \in Projects \cup {None} BY <1>4
<1>7. Plan(row) \in TurnPlans BY <1>3, <1>5, <1>6 DEF TurnPlans
<1>8. Plan(row).writes => mode \in HandsOn
  <2> SUFFICES ASSUME mode \notin HandsOn PROVE ~Plan(row).writes OBVIOUS
  <2>1. (mode \in HandsOn) = FALSE OBVIOUS
  <2>2. Plan(row) = [writes |-> FALSE, project |-> IF mode = "chat" THEN None ELSE row.project]
    BY <1>3, <2>1
  <2> QED BY <2>2
<1>9. mode \in HandsOn => Plan(row).project = row.project BY <1>3 DEF HandsOn
<1> QED BY <1>2, <1>7, <1>8, <1>9

LEMMA SendsTurnStep ==
  ASSUME ConvInv, SendsTurn
  PROVE  ConvInv' /\ RestStep
<1>1. PICK x : x = [conv |-> hand.conv, plan |-> Plan(hand.saw)] OBVIOUS
<1>2. /\ hand # NoHand /\ (turns' = turns \cup {x} \/ turns' = turns) /\ hand' = NoHand
      /\ UNCHANGED <<conv, project, task, born, machine, req, queue>>
  BY <1>1 DEF SendsTurn, tables
<1>3. /\ hand \in [conv: Convs \cup {None}, saw: Rows] /\ conv \in [Convs -> Rows]
      /\ turns \subseteq [conv: Convs, plan: TurnPlans]
  BY DEF ConvInv, ConvTypeOK
<1>4. hand.conv \in Convs /\ hand.saw \in Rows BY <1>2, <1>3 DEF ConvInv, HandFits
<1>5. x \in [conv: Convs, plan: TurnPlans] BY <1>1, <1>4, PlanFits
<1>6. NoHand \in [conv: Convs \cup {None}, saw: Rows]
  BY DEF NoHand, NoConv, Rows
<1>7. ConvTypeOK' BY <1>2, <1>3, <1>5, <1>6 DEF ConvInv, ConvTypeOK
<1>8. x.plan.writes => /\ conv[x.conv].kind \in HandsOn
                       /\ x.plan.project = conv[x.conv].project /\ x.plan.project # None
  <2>1. x.conv = hand.conv /\ x.plan = Plan(hand.saw) BY <1>1
  <2> QED BY <2>1, <1>2, <1>4, PlanFits DEF ConvInv, HandFits, RowsPlaced, Placed
<1>9. ChatNeverWrites'
  <2>1. \A z \in turns' : z \in turns \/ z = x BY <1>2
  <2> QED BY <2>1, <1>2, <1>8 DEF ConvInv, ChatNeverWrites
<1>10. HandFits' BY <1>2 DEF HandFits, NoHand, NoConv
<1>11. (RequestsFine /\ Apart /\ RowsPlaced /\ WheelFits /\ TasksPlaced /\ EntryIsWhole)'
  BY <1>2 DEF ConvInv, RequestsFine, Apart, Alike, RowsPlaced, Placed, WheelFits, TasksPlaced, EntryIsWhole
<1>12. RestStep BY <1>2 DEF RestStep
<1> QED BY <1>7, <1>9, <1>10, <1>11, <1>12 DEF ConvInv

\* What the runner has in hand and what runs may become less, and the machine may be found otherwise.
LEMMA LessStep ==
  ASSUME ConvInv, turns' \subseteq turns, machine' \in [online: BOOLEAN, roots: SUBSET Roots],
         UNCHANGED <<conv, project, task, born, req, queue, hand>>
  PROVE  ConvInv' /\ RestStep
<1>1. ConvTypeOK' BY DEF ConvInv, ConvTypeOK
<1>2. (RequestsFine /\ Apart /\ RowsPlaced /\ HandFits /\ ChatNeverWrites /\ WheelFits /\ TasksPlaced /\ EntryIsWhole)'
  BY DEF ConvInv, RequestsFine, Apart, Alike, RowsPlaced, Placed, HandFits, ChatNeverWrites, WheelFits, TasksPlaced,
         EntryIsWhole
<1>3. RestStep BY DEF RestStep
<1> QED BY <1>1, <1>2, <1>3 DEF ConvInv

-----------------------------------------------------------------------------
(* The invariant, step by step. *)

LEMMA ConvInitially == ConvInit => ConvInv
<1> SUFFICES ASSUME ConvInit PROVE ConvInv OBVIOUS
<1> USE ConversationsAssumption DEF ConvInit
<1>1. NoConv \in Rows /\ NoConv.kind = "none" /\ NoConv.active = None /\ NoConv.entry = None
  BY DEF NoConv, Rows
<1>2. NoProject \in ProjectRows BY DEF NoProject, ProjectRows
<1>3. NoTaskRow \in TaskRows /\ NoTaskRow.state = "none" BY DEF NoTaskRow, TaskRows
<1>4. NoReq \in ReqRows /\ NoReq.do = "none" /\ NoReq.step = "" BY DEF NoReq, ReqRows, Steps, Stages
<1>5. NoHand \in [conv: Convs \cup {None}, saw: Rows] BY <1>1 DEF NoHand
<1>6. machine \in [online: BOOLEAN, roots: SUBSET Roots] OBVIOUS
<1>7. ConvTypeOK
  <2>1. conv \in [Convs -> Rows] BY <1>1
  <2>2. project \in [Projects -> ProjectRows] BY <1>2
  <2>3. task \in [Tasks -> TaskRows] BY <1>3
  <2>4. req \in [Clients -> ReqRows] BY <1>4
  <2>5. born \in Seq(Tasks) /\ queue \in Seq(Convs) /\ turns \subseteq [conv: Convs, plan: TurnPlans] OBVIOUS
  <2> QED BY <1>5, <1>6, <2>1, <2>2, <2>3, <2>4, <2>5 DEF ConvTypeOK, ProjectRows, TaskRows, ReqRows
<1>8. RequestsFine
  <2>1. \A u \in Clients : RequestFine(req[u], conv[req[u].conv])
    BY <1>4 DEF RequestFine, Creates, LocksConv
  <2> QED BY <2>1 DEF RequestsFine
<1>9. Apart BY <1>4 DEF Apart, Alike, Creates, LocksConv
<1>10. RowsPlaced BY <1>1 DEF RowsPlaced, Placed, HandsOn
<1>11. HandFits /\ ChatNeverWrites BY DEF HandFits, ChatNeverWrites
<1>12. WheelFits /\ TasksPlaced /\ EntryIsWhole BY <1>1, <1>3 DEF WheelFits, TasksPlaced, EntryIsWhole
<1> QED BY <1>7, <1>8, <1>9, <1>10, <1>11, <1>12 DEF ConvInv

LEMMA ConvStepKeeps == ConvInv /\ [ConvNext]_convVars => ConvInv' /\ [RestStep]_convVars
<1> SUFFICES ASSUME ConvInv, [ConvNext]_convVars PROVE ConvInv' /\ RestStep OBVIOUS
<1>1. ASSUME NEW u \in Clients, NEW c \in Convs, AsksOn(u, c) PROVE ConvInv' /\ RestStep
  BY <1>1, AsksOnStep
<1>2. ASSUME NEW u \in Clients, NEW p \in Projects, AsksAboutProject(u, p) PROVE ConvInv' /\ RestStep
  BY <1>2, AsksAboutProjectStep
<1>3. ASSUME NEW u \in Clients, Commits(u) PROVE ConvInv' /\ RestStep
  BY <1>3, CommitsStartStep, CommitsAttachStep, CommitsToWorkStep, CommitsArchiveStep, CommitsTurnStep,
     CommitsCreateProjectStep, CommitsByDirectoryStep, CommitsArchiveProjectStep, CommitsHandoverStep,
     CommitsEntryStep, Zenon DEF Commits
<1>4. ASSUME NEW u \in Clients, Enqueues(u) PROVE ConvInv' /\ RestStep BY <1>4, EnqueuesStep
<1>5. ASSUME NEW u \in Clients, WebDies(u) PROVE ConvInv' /\ RestStep BY <1>5, WebDiesStep
<1>6. ASSUME NEW t \in Tasks, TaskEnds(t) PROVE ConvInv' /\ RestStep BY <1>6, TaskEndsStep
<1>7. CASE RunnerSteps
  <2>1. ASSUME NEW x \in turns, TurnEnds(x) PROVE ConvInv' /\ RestStep
    <3>1. turns' \subseteq turns /\ UNCHANGED <<conv, project, task, born, machine, req, queue, hand>>
      BY <2>1 DEF TurnEnds, tables
    <3>2. machine' \in [online: BOOLEAN, roots: SUBSET Roots] BY <3>1 DEF ConvInv, ConvTypeOK
    <3> QED BY <3>1, <3>2, LessStep
  <2> QED BY <1>7, <2>1, TakesTurnStep, ReadsAgainStep, SendsTurnStep, Zenon DEF RunnerSteps
<1>8. CASE MachineReports
  <2>1. turns' \subseteq turns /\ UNCHANGED <<conv, project, task, born, req, queue, hand>> /\ machine' \in Reports
    BY <1>8 DEF MachineReports, tables, runner
  <2>2. machine' \in [online: BOOLEAN, roots: SUBSET Roots] BY <2>1, ConversationsAssumption
  <2> QED BY <2>1, <2>2, LessStep
<1>9. CASE UNCHANGED convVars
  <2>1. turns' \subseteq turns /\ UNCHANGED <<conv, project, task, born, machine, req, queue, hand>>
    BY <1>9 DEF convVars
  <2>2. machine' \in [online: BOOLEAN, roots: SUBSET Roots] BY <2>1 DEF ConvInv, ConvTypeOK
  <2> QED BY <2>1, <2>2, LessStep
<1> QED BY <1>1, <1>2, <1>3, <1>4, <1>5, <1>6, <1>7, <1>8, <1>9, Zenon DEF ConvNext

\* What a request found when it asked (under the row locks the code takes, or none), what
\* the runner read of a session and what a turn was told stay in step with the rows, for any
\* number of pages, conversations, projects and tasks, through every death of the web process.
THEOREM ConversationInvariant == ConvSpec => []ConvInv
<1>1. ConvInit => ConvInv BY ConvInitially
<1>2. ConvInv /\ [ConvNext]_convVars => ConvInv' BY ConvStepKeeps
<1> QED BY <1>1, <1>2, PTL DEF ConvSpec

\* A turn that may write runs only in a conversation turned into work or handed to an expert,
\* in the directory of its project (runner.py turn_plan), however old the row it was
\* planned from.
THEOREM TurnsWriteOnlyAtWork == ConvSpec => []ChatNeverWrites
<1>1. ConvInv => ChatNeverWrites BY DEF ConvInv
<1> QED BY <1>1, ConversationInvariant, PTL

\* The expert's page leaves a whole delegation or nothing, and one key never makes two tasks
\* (delegation.py, uq_workbench_tasks_idempotency).
THEOREM EntriesAreWhole == ConvSpec => []EntryIsWhole
<1>1. ConvInv => EntryIsWhole BY DEF ConvInv
<1> QED BY <1>1, ConversationInvariant, PTL

\* A conversation is removed only while no expert works in it (session_service.py archive):
\* what the request read holds until it commits.
THEOREM OnlyIdleIsRemoved == ConvSpec => RemovedAtRest
<1>1. ConvInv /\ [ConvNext]_convVars =>
        [\A c \in Convs : ~conv[c].archived /\ conv'[c].archived => conv[c].active = None]_convVars
  BY ConvStepKeeps DEF RestStep
<1> QED BY <1>1, ConversationInvariant, PTL DEF ConvSpec, RemovedAtRest

=============================================================================
