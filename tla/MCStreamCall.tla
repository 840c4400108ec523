---------------------------- MODULE MCStreamCall ----------------------------
(* Small instances of StreamCall. *)
EXTENDS StreamCall, TLC
CONSTANTS e1, e2, e3, c1

Src1 == c1 :> e1
Dst1 == c1 :> 2
Size1 == c1 :> [value |-> 2, proof |-> 1]
CallerAndPeer == <<e1, e2, None>>
=============================================================================
