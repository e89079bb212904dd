------------------------------ MODULE MCRunner ------------------------------
(* Model values of Runner. *)
EXTENDS Runner, TLC

CONSTANTS p1

OneProject == [s \in Sessions |-> p1]
Symmetry == Permutations(Attempts) \cup Permutations(Inters) \cup Permutations(Runners)
=============================================================================
