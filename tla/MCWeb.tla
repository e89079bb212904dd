-------------------------------- MODULE MCWeb --------------------------------
(* What users do with the pages of the backend: they log in (Login), and they pick  *)
(* experts, hand tasks to them and look after what these deliver (Library).  Login      *)
(* and library share no state, so an initial state chooses the part that moves;         *)
(* the library starts with a task at work.                                               *)
EXTENDS Login, Library, TLC
CONSTANTS p1, p2, t1, t2, h1, h2, h3,
          o1, o2, m1, m2, v1, w1, w2, x1, x2, e1, e2

AdminsOnly == [s \in Surfaces |-> IF s = "admin" THEN {"admins"} ELSE {"users"}]
AllRun == (Manifests \X (0..MaxRelease)) \ {<<m2, 1>>}
ByManifest == [m \in Manifests |-> IF m = m1 THEN 1 ELSE 2]
AtWork(o) == [state |-> "working", owner |-> o, source |-> "knowmart", digest |-> m1,
              profile |-> "knowbot", snapshot |-> [manifest |-> m1, release |-> 0], version |-> 0]

VARIABLE side
webVars == <<side, vars, allVars>>

LoginInitial == side = "login" /\ Init /\ LibraryInit /\ market = m1
Untouched ==
    /\ Init /\ release = 0
    /\ visit = [v \in Visits |-> NoVisit] /\ asked = [t \in Tasks |-> NotAsked]
    /\ snapshots = [k \in {} |-> Nil]
    /\ by = [t \in Tasks |-> {}] /\ got = [t \in Tasks |-> {}]
    /\ artifacts = [t \in Tasks |-> <<>>] /\ attempt = {}
    /\ overlay = [i \in Items |-> NoRow]
    /\ edit = [e \in Edits |-> NoEdit] /\ cited = {}
PacksInitial ==
    /\ side = "packs" /\ Untouched /\ market \in Manifests /\ restarts = MaxRestarts
    /\ pin = [o \in Owners |-> Nil] /\ work = [t \in Tasks |-> NoWork]
LibraryInitial ==
    /\ side = "library" /\ Untouched /\ market = m1 /\ restarts = 0
    /\ \E mine \in Owners, w \in Tasks :
          /\ pin = [o \in Owners |-> IF o = mine THEN m1 ELSE Nil]
          /\ work = [t \in Tasks |-> IF t = w THEN AtWork(mine) ELSE NoWork]

OneTask == \A t \in Tasks : work[t] = NoWork => work'[t] = NoWork
WebNext ==
    \/ side = "login" /\ Next /\ UNCHANGED <<side, allVars>>
    \/ side = "packs" /\ LibraryNext /\ UNCHANGED <<side, vars, libraryVars>>
    \/ side = "library" /\ LibraryNext /\ OneTask /\ UNCHANGED <<side, vars, market, visit, by, asked>>

MCInit == LoginInitial \/ PacksInitial \/ LibraryInitial
WebSpec == MCInit /\ [][WebNext]_webVars

\* Both parts without the bounds on what an instance starts with.
Unbounded ==
    /\ LoginInitial \/ (side = "all" /\ Init /\ LibraryInit)
    /\ [][\/ side = "login" /\ Next /\ UNCHANGED <<side, allVars>>
          \/ side = "all" /\ LibraryNext /\ UNCHANGED <<side, vars>>]_webVars
WebSymmetry ==
    Permutations(Handlers) \cup Permutations(Tabs) \cup Permutations(Owners) \cup Permutations(Tasks)
=============================================================================
