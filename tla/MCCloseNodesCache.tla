------------------------- MODULE MCCloseNodesCache -------------------------
EXTENDS CloseNodesCache, TLC

CONSTANTS a, b, t1, t2, t3, p1, p2, p3

Symmetry == Permutations(Contacts) \union Permutations(Targets) \union Permutations(Threads)
=============================================================================
