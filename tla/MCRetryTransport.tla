-------------------------- MODULE MCRetryTransport --------------------------
(* Instances of RetryTransport for TLC: calls that cross between two nodes,   *)
(* and calls of one node to two peers that reuse an id.                       *)
EXTENDS RetryTransport, TLC

CONSTANTS n1, n2, n3, c1, c2

CrossingSrc == (c1 :> n1) @@ (c2 :> n2)
CrossingDst == (c1 :> n2) @@ (c2 :> n1)
SameNodeSrc == (c1 :> n1) @@ (c2 :> n1)
TwoPeersDst == (c1 :> n2) @@ (c2 :> n3)
=============================================================================
