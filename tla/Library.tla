------------------------------ MODULE Library ------------------------------
(* The deliverables of tasks and the user's library of them (library.py).  A row    *)
(* of workbench_artifacts is never changed; the library is computed from the rows,    *)
(* the packs of their tasks and a table of the user's own titles and removals.        *)
(* A task has one deliverable of several versions, and one dossier, which is           *)
(* written anew whenever it is read.                                                    *)
EXTENDS Catalog, Sequences

CONSTANTS
    Texts,
    Titles,
    MaxVersions,    \* versions of a deliverable
    Edits           \* requests to rename or remove an item

Kinds == {"dossier", "deliverable"}
Items == Kinds \X Tasks

VARIABLES
    artifacts,  \* rows of workbench_artifacts of a task, by version
    attempt,    \* tasks with an attempt that is still open
    overlay,    \* rows of workbench_library_items
    edit,       \* requests that have found their item
    cited       \* what has been cited: item, version and the digest of its text

libraryVars == <<artifacts, attempt, overlay, edit, cited>>
allVars == <<catalogVars, libraryVars>>

NoEdit == [at |-> "idle", item |-> Nil, title |-> Nil]
NoRow == [title |-> Nil, deleted |-> FALSE]

LibraryInit ==
    /\ CatalogInit
    /\ artifacts = [t \in Tasks |-> <<>>]
    /\ attempt = {}
    /\ overlay = [i \in Items |-> NoRow]
    /\ edit = [e \in Edits |-> NoEdit]
    /\ cited = {}

-----------------------------------------------------------------------------
(* What a task delivers. *)

\* max(version) + 1, under a lock of task and name; a row is never written again.
NextVersion(rows) == Len(rows) + 1

PutArtifact(t, x) ==
    /\ t \in attempt /\ NextVersion(artifacts[t]) <= MaxVersions
    /\ LET n == NextVersion(artifacts[t]) IN
       artifacts' = [artifacts EXCEPT ![t] = [k \in 1..n |-> IF k = n THEN x ELSE @[k]]]
    /\ attempt' = attempt \ {t}
    /\ UNCHANGED <<overlay, edit, cited, catalogVars>>

\* open_attempt records which version of an earlier deliverable goes into a step.
OpenAttempt(t) ==
    /\ work[t].state = "working" /\ t \notin attempt
    /\ attempt' = attempt \cup {t}
    /\ cited' = IF artifacts[t] = <<>> THEN cited
                ELSE cited \cup {[item |-> <<"deliverable", t>>, version |-> Len(artifacts[t]),
                                  digest |-> artifacts[t][Len(artifacts[t])]]}
    /\ UNCHANGED <<artifacts, overlay, edit, catalogVars>>

-----------------------------------------------------------------------------
(* Library. *)

\* listing: tasks that have ended, and what the user has not removed.
Listed(i) ==
    /\ work[i[2]].state = "ended" /\ artifacts[i[2]] # <<>>
    /\ ~overlay[i].deleted

\* The text of a dossier: what the pack of the task makes of its artifacts now.
DossierText(t) == [pack |-> PackForTask(t), release |-> release, rows |-> artifacts[t]]

\* content and citation; a dossier without the user's own drafts is of version 1.
TextOfLatest(i, n) ==
    IF i[1] = "dossier" THEN DossierText(i[2]) ELSE artifacts[i[2]][Len(artifacts[i[2]])]
TextOf(i, n) == IF i[1] = "dossier" THEN DossierText(i[2]) ELSE artifacts[i[2]][n]
VersionsOf(i) == IF i[1] = "dossier" THEN {1} ELSE DOMAIN artifacts[i[2]]

Read(i, n) ==
    /\ Listed(i) /\ n \in VersionsOf(i)
    /\ cited' = cited \cup {[item |-> i, version |-> n, digest |-> TextOf(i, n)]}
    /\ UNCHANGED <<artifacts, attempt, overlay, edit, catalogVars>>

\* rename and remove look the item up and write in a transaction of their own.
FindItem(e, i, title) ==
    /\ edit[e].at = "idle" /\ Listed(i)
    /\ edit' = [edit EXCEPT ![e] = [at |-> "found", item |-> i, title |-> title]]
    /\ UNCHANGED <<artifacts, attempt, overlay, cited, catalogVars>>

\* put_library_overlay: what is not given stays as it is.
MergedWhole(row, title) == [title |-> title, deleted |-> title = Nil]
Merged(row, title) ==
    IF title = Nil THEN [row EXCEPT !.deleted = TRUE] ELSE [row EXCEPT !.title = title]

PutOverlay(e) ==
    /\ edit[e].at = "found"
    /\ overlay' = [overlay EXCEPT ![edit[e].item] = Merged(@, edit[e].title)]
    /\ edit' = [edit EXCEPT ![e] = NoEdit]
    /\ UNCHANGED <<artifacts, attempt, cited, catalogVars>>

\* A task that ends while its turn is in flight leaves its attempt open
\* (Runner.tla); otherwise the attempt has been closed.
LeaveAttempt(t) ==
    /\ EndTask(t)
    /\ \E left \in BOOLEAN : attempt' = IF left THEN attempt ELSE attempt \ {t}
    /\ UNCHANGED <<artifacts, overlay, edit, cited>>

LibraryNext ==
    \/ /\ CatalogNext /\ \A t \in Tasks : ~(work[t].state = "working" /\ work'[t].state = "ended")
       /\ UNCHANGED libraryVars
    \/ \E t \in Tasks : \/ OpenAttempt(t) \/ LeaveAttempt(t)
                        \/ \E x \in Texts : PutArtifact(t, x)
    \/ \E i \in Items, n \in 1..MaxVersions : Read(i, n)
    \/ \E e \in Edits : \/ PutOverlay(e)
                        \/ \E i \in Items, title \in Titles \cup {Nil} : FindItem(e, i, title)

LibrarySpec == LibraryInit /\ [][LibraryNext]_allVars

-----------------------------------------------------------------------------
(* A deliverable that has been cited, or given to a later step, is what its      *)
(* version says for good, also when a turn of an ended task still delivers          *)
(* (repository.py:1100 and library.py:257).                                          *)
CitationHolds ==
    \A c \in cited : c.item[1] = "deliverable" => c.digest = TextOf(c.item, c.version)

\* What the user has removed stays out of the library, also when a request to
\* rename it has found it before (library.py:229).
RemovedStaysRemoved ==
    [][\A i \in Items : overlay[i].deleted => overlay'[i].deleted]_allVars

-----------------------------------------------------------------------------
(* What the code says of itself and does not keep. *)

\* A citation "can be checked" (library.py:96): the text of a dossier changes
\* under one version, with the release and with a late deliverable.
DossierCitationHolds ==
    \A c \in cited : c.item[1] = "dossier" => c.digest = TextOf(c.item, c.version)
=============================================================================
