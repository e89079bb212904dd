------------------------------ MODULE MCLedger ------------------------------
(* Model values of Ledger: a queue of tasks in one project, and the attempts,
   interactions and budget of a single task. *)
EXTENDS Ledger, TLC

CONSTANTS p1

OneProject == [s \in Sessions |-> p1]

\* Bounded instances use interchangeable identifiers.
BudgetSymmetry == Permutations(Attempts) \cup Permutations(Inters)
=============================================================================
