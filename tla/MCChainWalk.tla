---------------------------- MODULE MCChainWalk ----------------------------
(* All link structures over three records, at most one of them badly signed. *)
EXTENDS ChainWalk

CONSTANTS k1, k2, k3, o1

MCContents ==
    {C \in [Keys -> Records] : Cardinality({k \in Keys : C[k].signer = Nobody}) <= 1}

\* By symmetry of the keys the head is k1, or the pointer names no record.
MCPointers ==
    [version : Versions, head : {k1}, signer : {o1}]
        \union [version : {1}, head : {k1, End}, signer : {o1, Nobody}]
=============================================================================
