----------------------------- MODULE ChainWalk -----------------------------
(***************************************************************************)
(* walk_chain and its two users (version_chain.rs): validate_chain_proof,  *)
(* which walks over the records sent with a STORE, and                     *)
(* load_chain_from_pointer, which fetches each record from the network.    *)
(* One step per iteration of the loop.                                     *)
(***************************************************************************)
EXTENDS Chains, Sequences, Functions

CONSTANTS
    Contents,   \* the record behind every hash: some functions in [Keys -> Records]
    Pointers    \* the latest pointers walked from

ASSUME InputAssumption ==
    /\ Contents \subseteq [Keys -> Records]
    /\ Pointers \subseteq LatestPointers
    /\ IsFiniteSet(Keys)

VARIABLES
    content, pointer,
    owner,      \* the key DNS gives for the pointer's domain
    source,     \* where records are fetched from: "proof" or "network"
    proof,      \* the distinct records supplied with the pointer
    repeats,    \* whether some record is supplied twice
    current, newer_version, chain,  \* locals of walk_chain; seen is Range(chain)
    status      \* "start", "walking", "ok" or a ChainError

inputs == <<content, pointer, owner, source, proof, repeats>>
walk_vars == <<content, pointer, owner, source, proof, repeats, current, newer_version, chain, status>>

Errors == {"TooManyVersions", "UnexpectedRecords", "InvalidLatestPointer", "Cycle",
           "MissingRecord", "InvalidRecord", "HeadVersionMismatch", "NonDecreasingVersion"}

WalkTypeOK ==
    /\ content \in [Keys -> Records]
    /\ pointer \in LatestPointers
    /\ owner \in Owners
    /\ source \in {"proof", "network"}
    /\ proof \subseteq Keys
    /\ repeats \in BOOLEAN
    /\ current \in Keys \union {End}
    /\ status = "walking" => current \in Keys
    /\ newer_version \in Nat
    /\ chain \in Seq(Keys)
    /\ status \in {"start", "walking", "ok"} \union Errors

WalkInit ==
    /\ content \in Contents
    /\ pointer \in Pointers
    /\ owner \in Owners
    /\ \/ source = "network" /\ proof = {} /\ repeats = FALSE
       \/ source = "proof" /\ proof \in SUBSET Keys /\ repeats \in {FALSE, proof # {}}
    /\ current = End
    /\ newer_version = 0
    /\ chain = <<>>
    /\ status = "start"

\* A bug: a record that cannot be fetched is asked for again.
fail_retries(error) ==
    /\ status' = (IF error = "MissingRecord" THEN status ELSE error)
    /\ UNCHANGED <<inputs, current, newer_version, chain>>

fail(error) == status' = error /\ UNCHANGED <<inputs, current, newer_version, chain>>

\* A bug: a proof of exactly MAX_CHAIN_LENGTH records is too long.
TooManySupplied_early == Cardinality(proof) >= MaxChainLength

\* The checks before the loop: validate_chain_proof's on the records, which
\* load_chain_from_pointer does not have, then walk_chain's on the pointer.
\* One repeated record makes the list one longer than the set.
TooManySupplied ==
    IF repeats THEN Cardinality(proof) >= MaxChainLength ELSE Cardinality(proof) > MaxChainLength

Start ==
    /\ status = "start"
    /\ IF source = "proof" /\ TooManySupplied THEN fail("TooManyVersions")
       ELSE IF source = "proof" /\ repeats THEN fail("UnexpectedRecords")
       ELSE IF ~latest_is_valid(pointer, owner) \/ pointer.head = End
            THEN fail("InvalidLatestPointer")
       ELSE /\ current' = pointer.head
            /\ status' = "walking"
            /\ UNCHANGED <<inputs, newer_version, chain>>

\* validate_chain_proof: every supplied record must belong to the history walked.
finished(walked) ==
    IF source = "proof" /\ Len(walked) # Cardinality(proof) THEN "UnexpectedRecords" ELSE "ok"

\* A bug: a record may repeat the version of the one after it.
NotOlder_equal(version) == version > newer_version

NotOlder(version) == version >= newer_version

\* One iteration of the loop.  A supplied record is there or not; a lookup may fail.
\* Both sources give a record only under its own hash, so HashMismatch cannot happen.
Visit ==
    /\ status = "walking"
    /\ \E fetched \in IF source = "proof" THEN {current \in proof} ELSE BOOLEAN :
       LET record == content[current] IN
       IF Len(chain) = MaxChainLength THEN fail("TooManyVersions")
       ELSE IF current \in Range(chain) THEN fail("Cycle")
       ELSE IF ~fetched THEN fail("MissingRecord")
       ELSE IF record.signer # owner THEN fail("InvalidRecord")
       ELSE IF chain = <<>> /\ record.version # pointer.version THEN fail("HeadVersionMismatch")
       ELSE IF chain # <<>> /\ NotOlder(record.version) THEN fail("NonDecreasingVersion")
       ELSE /\ chain' = Append(chain, current)
            /\ newer_version' = record.version
            /\ IF record.prev = End
               THEN status' = finished(chain') /\ UNCHANGED current
               ELSE current' = record.prev /\ UNCHANGED status
            /\ UNCHANGED inputs

WalkNext == Start \/ Visit

WalkSpec == WalkInit /\ [][WalkNext]_walk_vars

\* Each fetch is answered and the task is polled again.
FairWalkSpec == WalkSpec /\ WF_walk_vars(WalkNext)
-----------------------------------------------------------------------------
(* Properties *)

\* What validate_chain_proof and load_chain_from_pointer return is the whole genuine
\* history of the pointer, newest first, each record naming the next: nothing is
\* skipped, added or out of order, and a proof contains nothing else.
WalkIsSound ==
    status = "ok" =>
        /\ Genuine(content, pointer, owner)
        /\ Range(chain) = Lineage(content, pointer.head)
        /\ \A i \in 1..(Len(chain) - 1) : content[chain[i]].prev = chain[i + 1]
        /\ source = "proof" => proof = Lineage(content, pointer.head)

\* validate_chain_proof refuses no good proof: an error means that the records are
\* not the genuine history of the pointer, or one was sent twice.  A history of exactly
\* MAX_CHAIN_LENGTH records is still accepted.
WalkIsComplete ==
    source = "proof" /\ status \in Errors =>
        repeats \/ ~ValidProof(content, pointer, owner, proof)

\* Behind both: the chain so far is the newest part of the history, and current is
\* what comes next.
WalkInv ==
    /\ Len(chain) <= MaxChainLength /\ Cardinality(Range(chain)) = Len(chain)
    /\ \A i \in 1..Len(chain) : content[chain[i]].signer = owner
    /\ \A i \in 1..Len(chain) : chain[i] \in Lineage(content, pointer.head)
    /\ \A i, j \in 1..Len(chain) : i < j => content[chain[j]].version < content[chain[i]].version
    /\ \A i \in 1..(Len(chain) - 1) : content[chain[i]].prev = chain[i + 1]
    /\ source = "proof" => Range(chain) \subseteq proof
    /\ chain # <<>> =>
        /\ chain[1] = pointer.head
        /\ content[pointer.head].version = pointer.version
        /\ newer_version = content[chain[Len(chain)]].version
    /\ status = "start" => chain = <<>>
    /\ status \in {"walking", "ok"} => latest_is_valid(pointer, owner) /\ pointer.head \in Keys
    /\ status = "walking" =>
        /\ current \in Lineage(content, pointer.head)
        /\ IF chain = <<>> THEN current = pointer.head ELSE content[chain[Len(chain)]].prev = current
    /\ status = "ok" =>
        /\ chain # <<>> /\ content[chain[Len(chain)]].prev = End
        /\ source = "proof" => Len(chain) = Cardinality(proof)

\* Every walk ends, whatever the records link to.
WalkEnds == <>(status \in {"ok"} \union Errors)
=============================================================================
