---------------------------- MODULE StoreHandler ----------------------------
(***************************************************************************)
(* The STORE handler of one node (handle_rpc/store.rs), running in         *)
(* concurrent tasks over the node's shared map of values.  The map has one *)
(* latest key, that of a package whose owner may change keys in DNS, and   *)
(* keys of blobs; a blob is identified with its hash.  The text that a     *)
(* latest key is the hash of is itself a blob, so LatestKey is in          *)
(* BlobKeys.  Checking a proof is ValidProof, which ChainWalk shows to be  *)
(* what validate_chain_proof computes.                                     *)
(***************************************************************************)
EXTENDS Chains

CONSTANTS
    Content,    \* the record behind every hash
    LatestKey,  \* latest_key(domain, package)
    BlobKeys,   \* hashes of blobs, the latest key among them
    Requests,   \* STORE requests peers send
    Tasks,      \* tasks of the runtime
    None

ASSUME ContentAssumption == Content \in [Keys -> Records]
ASSUME LatestKeyAssumption == LatestKey \in BlobKeys
ASSUME ValuesAssumption ==
    /\ None \notin BlobKeys \union LatestPointers \union Owners
    /\ BlobKeys \intersect LatestPointers = {}
ASSUME RequestsAssumption ==
    Requests \subseteq [key : BlobKeys, value : BlobKeys \union LatestPointers, proof : SUBSET Keys]

VARIABLES
    values,     \* Context.values
    pc,         \* where each task is in handle
    request,    \* the request each task handles
    dns,        \* the key the domain's DNS record holds, or None
    published,  \* history: every key DNS has held
    acked       \* history: every value answered with STORED

vars == <<values, pc, request, dns, published, acked>>

\* Value::key
value_key(v) == IF v \in BlobKeys THEN v ELSE LatestKey

TypeOK ==
    /\ values \in [BlobKeys -> {None} \union BlobKeys \union LatestPointers]
    /\ \A k \in BlobKeys : values[k] # None => value_key(values[k]) = k
    /\ pc \in [Tasks -> {"idle", "blob", "dns", "commit"}]
    /\ request \in [Tasks -> Requests \union {None}]
    /\ \A t \in Tasks : pc[t] # "idle" =>
        request[t] \in Requests /\ request[t].key = value_key(request[t].value)
    /\ \A t \in Tasks : pc[t] = "blob" => request[t].value \in BlobKeys
    /\ \A t \in Tasks : pc[t] \in {"dns", "commit"} => request[t].value \in LatestPointers
    /\ dns \in Owners \union {None}
    /\ published \subseteq Owners
    /\ dns # None => dns \in published
    /\ acked \subseteq BlobKeys \union LatestPointers

Init ==
    /\ values = [k \in BlobKeys |-> None]
    /\ pc = [t \in Tasks |-> "idle"]
    /\ request = [t \in Tasks |-> None]
    /\ dns \in Owners \union {None}
    /\ published = {dns} \ {None}
    /\ acked = {}

\* handle returns, with STORED or with None.
finish(t) ==
    /\ pc' = [pc EXCEPT ![t] = "idle"]
    /\ request' = [request EXCEPT ![t] = None]

refuse(t) == finish(t) /\ UNCHANGED <<values, acked, dns, published>>

stored(t) ==
    /\ finish(t)
    /\ values' = [values EXCEPT ![request[t].key] = request[t].value]
    /\ acked' = acked \union {request[t].value}
    /\ UNCHANGED <<dns, published>>

\* A request under a key that is not its value's is dropped.
Receive(t) ==
    /\ pc[t] = "idle"
    /\ \E r \in Requests :
        /\ r.key = value_key(r.value)
        /\ request' = [request EXCEPT ![t] = r]
        /\ pc' = [pc EXCEPT ![t] = IF r.value \in BlobKeys THEN "blob" ELSE "dns"]
    /\ UNCHANGED <<values, dns, published, acked>>

\* A bug: the blob that hashes to a latest key takes the pointer's place.
StoreBlob_overwrites(t) ==
    /\ pc[t] = "blob"
    /\ IF request[t].proof # {} THEN refuse(t) ELSE stored(t)

\* Under the lock of the map's entry.
StoreBlob(t) ==
    /\ pc[t] = "blob"
    /\ IF request[t].proof # {} \/ values[request[t].key] \in LatestPointers
       THEN refuse(t) ELSE stored(t)

\* A bug: only the pointer's signature is checked, not its history.
verified_unproved(p, proof) == dns # None /\ latest_is_valid(p, dns)

verified(p, proof) ==
    dns # None /\ latest_is_valid(p, dns) /\ ValidProof(Content, p, dns, proof)

\* The DNS answer arrives; the pointer and its history are checked against it.
ResolveDns(t) ==
    /\ pc[t] = "dns"
    /\ IF verified(request[t].value, request[t].proof)
       THEN /\ pc' = [pc EXCEPT ![t] = "commit"]
            /\ UNCHANGED <<values, request, dns, published, acked>>
       ELSE refuse(t)

\* Under the lock of the map's entry, after other tasks and DNS may have moved on.
Commit(t) ==
    LET new == request[t].value
        old == values[request[t].key]
    IN  /\ pc[t] = "commit"
        /\ IF old \in LatestPointers /\ ~continues_previous(Content, old, new, request[t].proof)
           THEN refuse(t) ELSE stored(t)

\* The domain changes or removes its key, or its server cannot be reached for a while.
ChangeDns ==
    /\ dns' \in Owners \union {None}
    /\ published' = published \union ({dns'} \ {None})
    /\ UNCHANGED <<values, pc, request, acked>>

Next ==
    \/ ChangeDns
    \/ \E t \in Tasks : Receive(t) \/ StoreBlob(t) \/ ResolveDns(t) \/ Commit(t)

Spec == Init /\ [][Next]_vars
-----------------------------------------------------------------------------
(* Properties *)

latest == values[LatestKey]

\* A node answers STORED only for what it then keeps: a pointer stays part of the
\* history of whatever replaces it, so two publishers racing on one node are never both
\* told that their forks were stored, and only the owner's pointer replaces a blob.
AcknowledgedIsKept ==
    \A v \in acked :
        IF v \in BlobKeys
        THEN values[v] = v \/ (v = LatestKey /\ latest \in LatestPointers)
        ELSE latest \in LatestPointers /\ v.head \in Lineage(Content, latest.head)

\* Whatever the requests, a node only holds pointers to whole genuine histories of a key
\* that the domain has had in DNS.
StoredIsGenuine ==
    latest \in LatestPointers => \E o \in published : Genuine(Content, latest, o)

\* handle checks a proof before it takes the entry's lock: what reaches the lock is
\* still the pointer and the history that were checked.
VerifiedAtCommit ==
    \A t \in Tasks : pc[t] = "commit" =>
        \E o \in published : ValidProof(Content, request[t].value, o, request[t].proof)

\* A pointer, once there, is never removed nor replaced by a blob, an older version or
\* another history ("Rejects rollbacks and forks").
NeverRollsBack ==
    [][(latest \in LatestPointers /\ latest' # latest) =>
        /\ latest' \in LatestPointers /\ latest'.version > latest.version
        /\ compare_chains(Content, latest, latest') = "Extends"]_vars

\* After a domain changes its key, nodes that hold its pointer accept no version under
\* the new key: the history they hold is signed with the old one.
SignerNeverChanges ==
    [][(latest \in LatestPointers) => latest'.signer = latest.signer]_vars

\* At the lock, continues_previous accepts exactly what compare_chains calls the same
\* history or an extension, though it looks for one record instead of comparing chains.
AcceptsExactlyExtensions ==
    \A t \in Tasks : pc[t] = "commit" /\ latest \in LatestPointers =>
        LET new == request[t].value IN
        continues_previous(Content, latest, new, request[t].proof)
            <=> compare_chains(Content, latest, new) \in {"Same", "Extends"}
=============================================================================
