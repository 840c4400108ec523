--------------------------- MODULE MCRoutingTable ---------------------------
(* RoutingTable with ids of three bits and the XOR metric. *)
EXTENDS RoutingTable, TLC
LOCAL INSTANCE Bitwise
CONSTANTS p1, p2, a1, a2

Metric(x, y) == x ^^ y
Symmetry == Permutations(Threads) \union Permutations(Addresses)
=============================================================================
