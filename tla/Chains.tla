------------------------------- MODULE Chains -------------------------------
(***************************************************************************)
(* Version histories (package.rs, version_chain.rs).  A history is a set   *)
(* of signed records linked by the hash of their predecessor.  A record is *)
(* identified with its hash (record_key), the hash being injective; the    *)
(* signer stands for everything a record is checked for besides its place  *)
(* in the chain: encoding, tag, domain, package and signature.  Versions   *)
(* (major, minor, patch) are totally ordered and appear as naturals.       *)
(* Nothing here relies on hashes being acyclic.                            *)
(***************************************************************************)
EXTENDS Naturals, FiniteSets

CONSTANTS
    Versions,       \* versions, as a totally ordered set
    Keys,           \* record hashes
    End,            \* END_OF_CHAIN, the all-zero hash
    Owners,         \* verifying keys a domain may publish in DNS
    Nobody,         \* signer of a record or pointer that fails its checks
    MaxChainLength  \* MAX_CHAIN_LENGTH, 10000 in the code

ASSUME VersionsAssumption == Versions \subseteq Nat
ASSUME EndAssumption == End \notin Keys
ASSUME NobodyAssumption == Nobody \notin Owners
ASSUME LengthAssumption == MaxChainLength \in Nat \ {0}

Records == [version : Versions, prev : Keys \union {End}, signer : Owners \union {Nobody}]
LatestPointers == [version : Versions, head : Keys \union {End}, signer : Owners \union {Nobody}]

\* latest_is_valid: tag, domain and the owner's signature.
latest_is_valid(p, owner) == p.signer = owner

\* A set of records that contains the predecessor of each of its members.
Closed(C, S) == \A r \in S : C[r].prev \in S \union {End}

\* The records reachable from h: the least closed set that contains it.
Lineage(C, h) == {r \in Keys : \A S \in SUBSET Keys : h \in S /\ Closed(C, S) => r \in S}

\* What a history promises, said without an algorithm: the owner signed the pointer
\* and every record behind it, the pointer names the version of its head, versions
\* strictly decrease towards the first one, and there are not too many.
Genuine(C, p, owner) ==
    /\ latest_is_valid(p, owner)
    /\ p.head \in Keys
    /\ C[p.head].version = p.version
    /\ \A r \in Lineage(C, p.head) :
        /\ C[r].signer = owner
        /\ C[r].prev # End => C[C[r].prev].version < C[r].version
    /\ Cardinality(Lineage(C, p.head)) <= MaxChainLength

\* A proof is the whole history of the pointer and nothing else.
ValidProof(C, p, owner, proof) == Genuine(C, p, owner) /\ proof = Lineage(C, p.head)

\* compare_chains: how a proposed history relates to a stored one.
compare_chains(C, stored, proposed) ==
    LET old == Lineage(C, stored.head)
        new == Lineage(C, proposed.head)
    IN  IF old = new THEN "Same"
        ELSE IF old \subseteq new THEN "Extends"
        ELSE IF new \subseteq old THEN "Rollback"
        ELSE "Fork"

\* A bug: the check that replaces() made before histories were sent along.
continues_previous_by_version(C, old, proposed, verified_chain) ==
    old = proposed \/ proposed.version > old.version

\* A bug: only the version right after the stored one is taken.
continues_previous_next_only(C, old, proposed, verified_chain) ==
    old = proposed \/ (proposed.version > old.version /\ C[proposed.head].prev = old.head)

\* A bug: a domain's new key may start over.
continues_previous_new_key(C, old, proposed, verified_chain) ==
    \/ old = proposed \/ old.signer # proposed.signer
    \/ proposed.version > old.version /\ old.head \in verified_chain

continues_previous(C, old, proposed, verified_chain) ==
    \/ old = proposed
    \/ /\ proposed.version > old.version
       /\ old.head \in verified_chain /\ C[old.head].version = old.version
=============================================================================
