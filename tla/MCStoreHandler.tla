--------------------------- MODULE MCStoreHandler ---------------------------
(* A package with a fork after version 1, a domain that changes its key, and *)
(* a history that mixes the two keys.                                        *)
EXTENDS StoreHandler, TLC

CONSTANTS r1, r2, r3, f2, x4, n1, o1, o2, text, package, t1, t2

TaskSymmetry == Permutations(Tasks)

rec(version, prev, signer) == [version |-> version, prev |-> prev, signer |-> signer]
ptr(version, head, signer) == [version |-> version, head |-> head, signer |-> signer]
store(key, value, proof) == [key |-> key, value |-> value, proof |-> proof]

MCContent ==
    r1 :> rec(1, End, o1) @@ r2 :> rec(2, r1, o1) @@ r3 :> rec(3, r2, o1)
        @@ f2 :> rec(2, r1, o1) @@ x4 :> rec(4, r2, o2) @@ n1 :> rec(4, End, o2)

MCRequests ==
    {store(text, ptr(MCContent[h].version, h, MCContent[h].signer), Lineage(MCContent, h))
        : h \in DOMAIN MCContent}
    \union
    {store(text, ptr(3, r3, o1), {r2, r3}),     \* a record is missing
     store(text, ptr(2, r1, o1), {r1}),         \* not the version of the record
     store(text, ptr(3, End, o1), {}),
     store(package, ptr(1, r1, o1), {r1}),      \* under another key
     store(package, package, {}), store(package, package, {r1}),
     store(text, text, {}), store(package, text, {})}
=============================================================================
