----------------------------- MODULE MCPairing ------------------------------
EXTENDS Pairing, TLC
CONSTANTS o1, o2, c1, c2, t1, t2, t3, p1, p2, none
Symmetry == Permutations(Clients) \cup Permutations(Tokens) \cup Permutations(Pairings)
            \cup Permutations(Owners)
=============================================================================
