------------------------------ MODULE Catalog ------------------------------
(* Where experts come from (catalog.py, knowbots.py, knowbot_data.py).  A user     *)
(* picks a version of a knowbot at knowmart; the workbench asks knowmart for its      *)
(* manifest and pins it for this user.  A task takes the pack of the pin with it,     *)
(* and what works on the task reads that snapshot through a cache of the process.      *)
(* One knowbot of one version is enough.  A digest is injective, so the manifest       *)
(* stands for it.                                                                        *)
EXTENDS Integers, FiniteSets, Functions

CONSTANTS
    Owners,
    Manifests,      \* what knowmart serves for the version, one at a time
    Runnable,       \* <<manifest, release>>: a release can run the pack of the manifest
    DataOf,         \* the version of the user's data a manifest binds
    DataVersions,
    Visits,         \* requests to pin
    Tasks,
    MaxRelease,     \* deployments that may follow the first one
    MaxRestarts,
    MaxCached,      \* packs a process keeps (512)
    Nil

ASSUME CatalogAssumption ==
    /\ MaxRelease \in Nat /\ MaxRestarts \in Nat /\ MaxCached \in Nat
    /\ Runnable \subseteq Manifests \X (0..MaxRelease)
    /\ DataOf \in [Manifests -> DataVersions]

VARIABLES
    market,     \* the manifest knowmart serves now
    visit,      \* requests to pin that wait for knowmart, or have its answer
    pin,        \* rows of workbench_knowbot_pins
    work,       \* rows of workbench_tasks, as far as packs go
    release,
    snapshots,  \* _snapshots of the process
    restarts,
    by,         \* the packs the work of a task has been done by
    asked,      \* reads of data on their way to knowlab
    got         \* versions of the data that were handed to a task

catalogVars == <<market, visit, pin, work, release, snapshots, restarts, by, asked, got>>

SnapshotSources == {"knowmart", "knowlab-test"}

NoWork == [state |-> "none", owner |-> Nil, source |-> "builtin", digest |-> Nil,
           profile |-> Nil, snapshot |-> Nil, version |-> 0]
NotAsked == [at |-> "idle", data |-> Nil]
NoVisit == [at |-> "idle", owner |-> Nil, manifest |-> Nil]

CatalogInit ==
    /\ market \in Manifests
    /\ visit = [v \in Visits |-> NoVisit]
    /\ pin = [o \in Owners |-> Nil]
    /\ work = [t \in Tasks |-> NoWork]
    /\ release = 0 /\ restarts = 0
    /\ snapshots = [k \in {} |-> Nil]
    /\ by = [t \in Tasks |-> {}]
    /\ asked = [t \in Tasks |-> NotAsked]
    /\ got = [t \in Tasks |-> {}]

-----------------------------------------------------------------------------
(* Packs. *)

\* pack_from_manifest: a manifest this release cannot run has no pack.
MayRun(m) == <<m, release>> \in Runnable
PackFromManifest(m) == [manifest |-> m, release |-> release]

\* Knowbots of two users may have one name and version and differ in content.
ProfileKey(t) == work[t].profile
SnapshotKey(t) == <<work[t].profile, work[t].digest>>

\* The built-in pack of a release, found by id and version.
FindPack(t) ==
    IF work[t].version = release THEN [manifest |-> "builtin", release |-> release] ELSE Nil

Kept == IF Cardinality(DOMAIN snapshots) > MaxCached THEN [k \in {} |-> Nil] ELSE snapshots

Loaded(t) ==
    IF SnapshotKey(t) \in DOMAIN snapshots THEN snapshots
    ELSE [k \in DOMAIN Kept \cup {SnapshotKey(t)} |->
             IF k \in DOMAIN Kept THEN Kept[k] ELSE work[t].snapshot]

PackForTask(t) ==
    IF work[t].source \in SnapshotSources THEN Loaded(t)[SnapshotKey(t)] ELSE FindPack(t)

-----------------------------------------------------------------------------
(* Pinning. *)

\* knowmart says a version does not change; the digest of a pin is compared as
\* if it might.
Republish(m) ==
    /\ market # m /\ market' = m
    /\ UNCHANGED <<visit, pin, work, release, snapshots, restarts, by, asked, got>>

\* parse_ref, and knowmart's answer on the way back; a refusal ends the request.
Summon(v, o) ==
    /\ visit[v].at = "idle"
    /\ visit' = [visit EXCEPT ![v] = [at |-> "answered", owner |-> o, manifest |-> market]]
    /\ UNCHANGED <<market, pin, work, release, snapshots, restarts, by, asked, got>>

\* insert ... on conflict do nothing
PinRow(row, m) == IF row = Nil THEN m ELSE row

\* The row that is there must be of the same digest, or the request is refused.
PinKnowbot(v) ==
    /\ visit[v].at = "answered"
    /\ visit' = [visit EXCEPT ![v] = NoVisit]
    /\ IF MayRun(visit[v].manifest)
       THEN pin' = [pin EXCEPT ![visit[v].owner] = PinRow(@, visit[v].manifest)]
       ELSE UNCHANGED pin
    /\ UNCHANGED <<market, work, release, snapshots, restarts, by, asked, got>>

-----------------------------------------------------------------------------
(* Tasks. *)

HandOver(t, row) ==
    /\ work[t].state = "none"
    /\ work' = [work EXCEPT ![t] = row]
    /\ UNCHANGED <<market, visit, pin, release, snapshots, restarts, by, asked, got>>

\* pinned_pack and task_columns
HandOverKnowbot(t, o) ==
    /\ pin[o] # Nil /\ MayRun(pin[o])
    /\ HandOver(t, [state |-> "working", owner |-> o, source |-> "knowmart", digest |-> pin[o],
                 profile |-> "knowbot", snapshot |-> PackFromManifest(pin[o]), version |-> 0])

\* A draft under test has a profile of its run.  Whose the task is does not
\* matter to packs found by the run or in the code.
HandOverDraft(t, m) ==
    /\ MayRun(m)
    /\ HandOver(t, [state |-> "working", owner |-> Nil, source |-> "knowlab-test", digest |-> m,
                    profile |-> t, snapshot |-> PackFromManifest(m), version |-> 0])

HandOverBuiltin(t) == HandOver(t, [NoWork EXCEPT !.state = "working", !.version = release])

\* A step, a request of a turn, a look at the task: each reads the pack.
Consult(t) ==
    /\ work[t].state # "none"
    /\ by' = [by EXCEPT ![t] = @ \cup {PackForTask(t)}]
    /\ snapshots' = IF work[t].source \in SnapshotSources THEN Loaded(t) ELSE snapshots
    /\ UNCHANGED <<market, visit, pin, work, release, restarts, asked, got>>

EndTask(t) ==
    /\ work[t].state = "working"
    /\ work' = [work EXCEPT ![t].state = "ended"]
    /\ UNCHANGED <<market, visit, pin, release, snapshots, restarts, by, asked, got>>

\* A process starts again, perhaps with a new release.
Restart ==
    /\ restarts < MaxRestarts /\ restarts' = restarts + 1
    /\ release' \in release..MaxRelease
    /\ snapshots' = [k \in {} |-> Nil]
    /\ asked' = [t \in Tasks |-> NotAsked]
    /\ visit' = [v \in Visits |-> NoVisit]
    /\ UNCHANGED <<market, pin, work, by, got>>

-----------------------------------------------------------------------------
(* The user's own data, read for a working task. *)

\* _scope: what the manifest of this task binds, or Nil.
Scope(t) ==
    IF work[t].state # "working" \/ work[t].source = "builtin" THEN Nil
    ELSE IF work[t].source = "knowmart"
         THEN IF pin[work[t].owner] = work[t].digest THEN DataOf[pin[work[t].owner]] ELSE Nil
         ELSE DataOf[work[t].digest]

AskData(t) ==
    /\ asked[t].at = "idle" /\ Scope(t) # Nil
    /\ asked' = [asked EXCEPT ![t] = [at |-> "asked", data |-> Scope(t)]]
    /\ UNCHANGED <<market, visit, pin, work, release, snapshots, restarts, by, got>>

\* knowlab answers with the version it has; another one is as good as none.
ReceiveData(t, d) ==
    /\ asked[t].at = "asked"
    /\ asked' = [asked EXCEPT ![t] = NotAsked]
    /\ got' = IF d = asked[t].data THEN [got EXCEPT ![t] = @ \cup {d}] ELSE got
    /\ UNCHANGED <<market, visit, pin, work, release, snapshots, restarts, by>>

CatalogNext ==
    \/ \E m \in Manifests : Republish(m)
    \/ \E v \in Visits : PinKnowbot(v) \/ \E o \in Owners : Summon(v, o)
    \/ \E t \in Tasks : \/ HandOverBuiltin(t)
                        \/ \E o \in Owners : HandOverKnowbot(t, o)
                        \/ \E m \in Manifests : HandOverDraft(t, m)
    \/ \E t \in Tasks : Consult(t) \/ EndTask(t) \/ AskData(t) \/ \E d \in DataVersions : ReceiveData(t, d)
    \/ Restart

CatalogSpec == CatalogInit /\ [][CatalogNext]_catalogVars

-----------------------------------------------------------------------------
(* A task with a snapshot is worked on by the manifest that was pinned when it  *)
(* was handed over, whoever else pinned what under the same name, and its pin        *)
(* still says so: its data stays readable, and only that (catalog.py:51 and 90).      *)
ByItsOwnManifest ==
    \A t \in Tasks : work[t].source \in SnapshotSources =>
        /\ \A p \in by[t] : p.manifest = work[t].digest
        /\ work[t].source = "knowmart" => pin[work[t].owner] = work[t].digest
        /\ got[t] \subseteq {DataOf[work[t].digest]}

-----------------------------------------------------------------------------
(* What the code says of itself and does not keep. *)

\* "Orchestration, records and acceptance read the snapshot of the task only"
\* (catalog.py:4): a snapshot of an older release with the same digest is in
\* the cache already.
TaskKeepsItsPack ==
    \A t \in Tasks : work[t].source \in SnapshotSources => by[t] \subseteq {work[t].snapshot}

\* "The version of the expert has been taken down" is said of a task that has
\* not begun (advisor.py:113); one that is at work finds no pack.
WorkHasPack == \A t \in Tasks : Nil \notin by[t]

\* "Once a task has ended nothing is passed on" (knowbot_data.py:8).
DataForWorkOnly == [][\A t \in Tasks : got'[t] # got[t] => work[t].state = "working"]_catalogVars
=============================================================================
