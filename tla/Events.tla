------------------------------- MODULE Events -------------------------------
(* The link and the machine syncs of the runners write the log of one            *)
(* conversation while pages read it.  A run gives each side a number of calls,     *)
(* rounds and failures to spend; the initial states are the ways to share them.    *)
EXTENDS LinkUsage, MachineSync

CONSTANT Shares    \* calls and faults of the link, rounds and losses of the syncs

vars == <<log, reader, linkVars, machineVars>>

\* A transaction of a sync that has an event to append keeps the log's lock.
LogFree == \A y \in Syncs : ~HoldsSession(y)

Init ==
    /\ LogInit /\ LinkInit /\ MachineInit
    /\ \E s \in Shares : calls = s.calls /\ faults = s.faults /\ rounds = s.rounds /\ losses = s.losses

Next ==
    \/ LogNext /\ UNCHANGED <<linkVars, machineVars>>
    \/ LinkNext /\ UNCHANGED machineVars
    \/ LogFree /\ Store /\ UNCHANGED machineVars
    \/ MachineNext /\ UNCHANGED linkVars

Spec == Init /\ [][Next]_vars
\* The loop of each open stream goes on.
FairSpec == Spec /\ \A r \in Readers : WF_vars(Fetch(r) /\ UNCHANGED <<linkVars, machineVars>>)

=============================================================================
