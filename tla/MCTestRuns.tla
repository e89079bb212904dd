----------------------------- MODULE MCTestRuns -----------------------------
EXTENDS TestRuns, TLC
CONSTANTS r1, r2, k1, k2
Symmetry == Permutations(Conductors)
=============================================================================
