--------------------------- MODULE MCConversations --------------------------
EXTENDS Conversations, TLC
CONSTANTS u1, u2, c1, c2, p1, p2, t1, t2, k1, k2, d1, d2, r1, none
OneRoot == [d \in Dirs |-> r1]
TwoReports == {[online |-> TRUE, roots |-> Roots], [online |-> FALSE, roots |-> {}]}
Symmetry == Permutations(Clients) \cup Permutations(Convs) \cup Permutations(Projects)
            \cup Permutations(Tasks) \cup Permutations(Keys)
=============================================================================
