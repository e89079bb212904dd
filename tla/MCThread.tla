------------------------------ MODULE MCThread ------------------------------
(* The log of a conversation with its writers and readers (Events), and the        *)
(* requests of its turns (Approvals).  Neither reads what the other writes, so an    *)
(* initial state chooses which of the two moves.                                      *)
EXTENDS Events, Approvals, TLC
CONSTANTS r1, y1, y2, q1, q2, q3

AllShares ==
    {[calls |-> 3, faults |-> 3, rounds |-> 0, losses |-> 0],
     [calls |-> 2, faults |-> 0, rounds |-> 1, losses |-> 0],
     [calls |-> 0, faults |-> 0, rounds |-> 2, losses |-> 1],
     [calls |-> 0, faults |-> 0, rounds |-> 3, losses |-> 0]}
LinkOnly == {[calls |-> 3, faults |-> 1, rounds |-> 0, losses |-> 0]}
TwoScopes == {[id |-> 1, scope |-> "narrow"], [id |-> 1, scope |-> "wide"]}

Subject(cat, cmd) == [cat |-> cat, cmd |-> cmd]
Ls == Subject("command", "ls")
ThreeKinds == {Ls, Subject("file_in", ""), Subject("question", "")}
Narrow == [user |-> {Ls}, expert |-> ThreeKinds]
Broad == [user |-> {Ls, Subject("file_in", "")}, expert |-> ThreeKinds]
ResearchPack == [file_in |-> "allow", file_out |-> "deny", command |-> "ask", network |-> "deny",
                 allow |-> {"cat"}, questions |-> "allow", max |-> 1]
PlainStep == [file_in |-> Unset, file_out |-> Unset, command |-> Unset, network |-> Unset,
              allow |-> {}, questions |-> Unset, max |-> Unset]
OneStep == <<PlainStep>>

VARIABLE side
LogInitial == side = "log" /\ Init /\ ApprovalInit
RequestsInitial ==
    /\ side = "requests" /\ Init /\ ApprovalInit
    /\ calls = 3 /\ faults = 3 /\ agent = "m1" /\ rows[1].name = "m1"
MCInit == LogInitial \/ RequestsInitial
MCNext ==
    \/ side = "log" /\ Next /\ UNCHANGED <<side, approvalVars>>
    \/ side = "requests" /\ ApprovalNext /\ UNCHANGED <<side, vars>>
MCSpec == MCInit /\ [][MCNext]_<<side, vars, approvalVars>>

\* The log alone, with pages that go on fetching.
LogFairSpec ==
    /\ LogInitial /\ [][MCNext]_<<side, vars, approvalVars>>
    /\ \A r \in Readers : WF_<<side, vars, approvalVars>>(
          Fetch(r) /\ UNCHANGED <<linkVars, machineVars, side, approvalVars>>)
MCSymmetry == Permutations(Syncs) \cup Permutations(Requests)
=============================================================================
