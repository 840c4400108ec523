---------------------------- MODULE RoutingTable ----------------------------
(***************************************************************************)
(* The routing table: SiblingList over StaticBucket                        *)
(* (close_nodes/sibling_list.rs, close_nodes/static_bucket.rs), and        *)
(* Rpc::forget (rpc.rs).  There is a lock per bucket and one for the       *)
(* siblings; a step is what a thread does under one lock.  An id is its    *)
(* numeric value (close_nodes.rs reads it big-endian), and each layer maps *)
(* an id to the address it holds: an id is at most once in a layer, the    *)
(* siblings are always in order of distance, and the order inside a bucket *)
(* decides nothing.                                                        *)
(***************************************************************************)
EXTENDS Integers, FiniteSets

CONSTANTS
    IdBits,             \* 256 in the code
    Ids, my_id,
    xor_distance(_, _),
    Addresses, Threads,
    K,                  \* 10 in the code, like BucketSize and Siblings
    BucketSize, Siblings,
    SearchShift, MaxBuckets,
    None

ASSUME IdAssumption == IdBits \in Nat /\ Ids \subseteq 0 .. 2^IdBits - 1 /\ IsFiniteSet(Ids) /\ my_id \in Ids
ASSUME DistanceAssumption ==
    /\ \A x, y \in Ids : xor_distance(x, y) \in 0 .. 2^IdBits - 1
    /\ \A x, y, t \in Ids : xor_distance(x, t) = xor_distance(y, t) => x = y
ASSUME SizeAssumption ==
    /\ K \in Nat \ {0} /\ BucketSize \in Nat \ {0} /\ Siblings \in Nat \ {0}
    /\ SearchShift \in Nat /\ 2^SearchShift > 0 /\ MaxBuckets \in Nat \ {0}
ASSUME NoneAssumption == None \notin Addresses

Contacts == [id : Ids, address : Addresses]

VARIABLES
    table,          \* the address of each id in its bucket, or None
    siblings,       \* the address of each id in the sibling list, or None
    pc, op,         \* where each thread is, and the contact it is called with (a target has no address)
    low, high,      \* close_nodes: the buckets read; forget: high is the next to count
    out,            \* the contacts gathered
    \* history
    steady,         \* the ids that stayed in a bucket, and in the siblings, during a query
    seen,           \* the ids offered to the siblings since one was last removed
    raced           \* the ids two calls were writing at once

vars == <<table, siblings, pc, op, low, high, out, steady, seen, raced>>
-----------------------------------------------------------------------------
held(layer) == {x \in Ids : layer[x] # None}

\* "Who is known": the distinct ids contacts_iter yields.
known == held(table) \union held(siblings)

contacts(layer, ids) == {[id |-> x, address |-> layer[x]] : x \in ids}

\* The n contacts of S nearest to t: sort by distance, truncate.
nearest(S, t, n) ==
    {c \in S : Cardinality({d \in S : xor_distance(d.id, t) < xor_distance(c.id, t)}) < n}

leading_zeros(d) == Cardinality({bit \in 0 .. IdBits - 1 : d < 2^bit})

bucket_index(x) ==
    LET index == leading_zeros(xor_distance(x, my_id)) \div 2^SearchShift
    IN  IF index < MaxBuckets THEN index ELSE MaxBuckets - 1

bucket(i) == {x \in held(table) : bucket_index(x) = i}

\* In the middle of a write, and of close_nodes.
Writing == {"add", "removing"}
Querying == {"high", "low", "siblings", "answered"}

\* Every bucket and the sibling list keep within their size, the node is not its own
\* contact, and no index leaves the array of buckets.
TypeOK ==
    /\ table \in [Ids -> Addresses \union {None}]
    /\ siblings \in [Ids -> Addresses \union {None}]
    /\ table[my_id] = None /\ siblings[my_id] = None
    /\ \A i \in 0 .. MaxBuckets - 1 : Cardinality(bucket(i)) <= BucketSize
    /\ Cardinality(held(siblings)) <= Siblings
    /\ pc \in [Threads -> Writing \union Querying \union {"idle", "count", "remove"}]
    /\ op \in [Threads -> [id : Ids, address : Addresses \union {None}] \union {None}]
    /\ low \in [Threads -> 0 .. MaxBuckets - 1] /\ high \in [Threads -> 0 .. MaxBuckets - 1]
    /\ \A p \in Threads :
        /\ pc[p] \in Writing \union {"count", "remove"} => op[p] \in Contacts
        /\ pc[p] = "add" => op[p].id # my_id
        /\ pc[p] \in Querying => op[p].id \in Ids
        /\ pc[p] = "high" => high[p] + 1 < MaxBuckets
        /\ pc[p] = "low" => low[p] > 0
    /\ out \in [Threads -> SUBSET Contacts]
    /\ seen \subseteq Ids /\ raced \subseteq Ids

Init ==
    /\ table = [x \in Ids |-> None]
    /\ siblings = [x \in Ids |-> None]
    /\ pc = [p \in Threads |-> "idle"]
    /\ op = [p \in Threads |-> None]
    /\ low = [p \in Threads |-> 0]
    /\ high = [p \in Threads |-> 0]
    /\ out = [p \in Threads |-> {}]
    /\ steady = [p \in Threads |-> [table |-> {}, siblings |-> {}]]
    /\ seen = {}
    /\ raced = {}

\* A bug: the sibling lock is released before the removal from the bucket.
unlocked_early == TRUE

\* remove_contact keeps the sibling lock while it removes from the bucket.
unlocked == \A p \in Threads : pc[p] # "removing"

goto(p, where) == pc' = [pc EXCEPT ![p] = where]

\* The call returns and its locals are gone.
return(p) ==
    /\ goto(p, "idle")
    /\ op' = [op EXCEPT ![p] = None]
    /\ low' = [low EXCEPT ![p] = 0]
    /\ high' = [high EXCEPT ![p] = 0]
    /\ out' = [out EXCEPT ![p] = {}]

\* What a write does to the history of queries.
Observe ==
    steady' = [q \in Threads |-> [table |-> steady[q].table \intersect held(table'),
                                  siblings |-> steady[q].siblings \intersect held(siblings')]]

\* A call that begins to write x while another is at it.
Race(p, x) ==
    raced' = IF \E q \in Threads \ {p} : pc[q] \in Writing /\ op[q].id = x
             THEN raced \union {x} ELSE raced
-----------------------------------------------------------------------------
(* maybe_add_contact *)

\* A bug: the node itself is taken for a contact.
AddToBucket_self(p, c) ==
    /\ pc[p] = "idle"
    /\ table' = IF table[c.id] # None \/ Cardinality(bucket(bucket_index(c.id))) < BucketSize
                THEN [table EXCEPT ![c.id] = c.address] ELSE table
    /\ goto(p, "add")
    /\ op' = [op EXCEPT ![p] = c]
    /\ Race(p, c.id)
    /\ UNCHANGED <<siblings, low, high, out, seen>>
    /\ Observe

\* A bug: a contact that is already in its bucket keeps its old address.
AddToBucket_stale(p, c) ==
    /\ pc[p] = "idle" /\ c.id # my_id
    /\ table' = IF table[c.id] = None /\ Cardinality(bucket(bucket_index(c.id))) < BucketSize
                THEN [table EXCEPT ![c.id] = c.address] ELSE table
    /\ goto(p, "add")
    /\ op' = [op EXCEPT ![p] = c]
    /\ Race(p, c.id)
    /\ UNCHANGED <<siblings, low, high, out, seen>>
    /\ Observe

AddToBucket(p, c) ==
    /\ pc[p] = "idle" /\ c.id # my_id
    /\ table' = IF table[c.id] # None \/ Cardinality(bucket(bucket_index(c.id))) < BucketSize
                THEN [table EXCEPT ![c.id] = c.address] ELSE table
    /\ goto(p, "add")
    /\ op' = [op EXCEPT ![p] = c]
    /\ Race(p, c.id)
    /\ UNCHANGED <<siblings, low, high, out, seen>>
    /\ Observe

farther(x, y) == xor_distance(y, my_id) < xor_distance(x, my_id)

\* A bug: seniority, as in a bucket; a full list keeps what it has.
insert_sibling_senior(c) ==
    IF siblings[c.id] # None \/ Cardinality(held(siblings)) < Siblings
    THEN [siblings EXCEPT ![c.id] = c.address] ELSE siblings

\* Refresh a known sibling, fill a list that is not full, or take the farthest's place.
insert_sibling(c) ==
    LET last == CHOOSE x \in held(siblings) : \A y \in held(siblings) : ~farther(y, x) IN
    IF siblings[c.id] # None \/ Cardinality(held(siblings)) < Siblings
    THEN [siblings EXCEPT ![c.id] = c.address]
    ELSE IF farther(c.id, last) THEN siblings
    ELSE [siblings EXCEPT ![last] = None, ![c.id] = c.address]

AddToSiblings(p) ==
    /\ pc[p] = "add" /\ unlocked
    /\ siblings' = insert_sibling(op[p])
    /\ seen' = seen \union {op[p].id}
    /\ return(p)
    /\ UNCHANGED <<table, raced>>
    /\ Observe
-----------------------------------------------------------------------------
(* forget, and the remove_contact it ends in *)

\* More than K distinct ids.
plenty(S) == Cardinality({c.id : c \in S}) > K

CountSiblings(p, c) ==
    /\ pc[p] = "idle" /\ unlocked
    /\ out' = [out EXCEPT ![p] = contacts(siblings, held(siblings))]
    /\ goto(p, IF plenty(out'[p]) THEN "remove" ELSE "count")
    /\ op' = [op EXCEPT ![p] = c]
    /\ UNCHANGED <<table, siblings, low, high, steady, seen, raced>>

\* contacts_iter goes on, bucket by bucket, while the count is too low.
CountBucket(p) ==
    LET counted == out[p] \union contacts(table, bucket(high[p])) IN
    /\ pc[p] = "count"
    /\ IF ~plenty(counted) /\ high[p] + 1 = MaxBuckets
       THEN return(p)
       ELSE /\ out' = [out EXCEPT ![p] = counted]
            /\ goto(p, IF plenty(counted) THEN "remove" ELSE "count")
            /\ high' = [high EXCEPT ![p] = IF plenty(counted) THEN @ ELSE @ + 1]
            /\ UNCHANGED <<op, low>>
    /\ UNCHANGED <<table, siblings, steady, seen, raced>>

RemoveFromSiblings(p) ==
    LET c == op[p] IN
    /\ pc[p] = "remove" /\ unlocked
    /\ IF siblings[c.id] = c.address
       THEN siblings' = [siblings EXCEPT ![c.id] = None] /\ seen' = held(siblings')
       ELSE UNCHANGED <<siblings, seen>>
    /\ goto(p, "removing")
    /\ Race(p, c.id)
    /\ UNCHANGED <<table, op, low, high, out>>
    /\ Observe

RemoveFromBucket(p) ==
    LET c == op[p] IN
    /\ pc[p] = "removing"
    /\ table' = IF table[c.id] = c.address THEN [table EXCEPT ![c.id] = None] ELSE table
    /\ return(p)
    /\ UNCHANGED <<siblings, seen, raced>>
    /\ Observe
-----------------------------------------------------------------------------
(* close_nodes *)

\* A bug: the search stops at the first end of the table it meets.
widen_one_end(n, lo, hi) ==
    IF n >= K \/ lo = 0 \/ hi + 1 = MaxBuckets THEN "siblings"
    ELSE IF hi + 1 < MaxBuckets THEN "high" ELSE "low"

\* The head of the loop: enough candidates or no more buckets, or the next bucket to read.
widen(n, lo, hi) ==
    IF n >= K \/ (lo = 0 /\ hi + 1 = MaxBuckets) THEN "siblings"
    ELSE IF hi + 1 < MaxBuckets THEN "high" ELSE "low"

ReadHome(p, t) ==
    LET home == bucket_index(t) IN
    /\ pc[p] = "idle"
    /\ out' = [out EXCEPT ![p] = contacts(table, bucket(home))]
    /\ low' = [low EXCEPT ![p] = home]
    /\ high' = [high EXCEPT ![p] = home]
    /\ op' = [op EXCEPT ![p] = [id |-> t, address |-> None]]
    /\ goto(p, widen(Cardinality(out'[p]), home, home))
    /\ steady' = [steady EXCEPT ![p] = [table |-> held(table), siblings |-> held(siblings)]]
    /\ UNCHANGED <<table, siblings, seen, raced>>

ReadHigh(p) ==
    /\ pc[p] = "high"
    /\ high' = [high EXCEPT ![p] = @ + 1]
    /\ out' = [out EXCEPT ![p] = @ \union contacts(table, bucket(high'[p]))]
    /\ goto(p, IF low[p] > 0 THEN "low" ELSE widen(Cardinality(out'[p]), low[p], high'[p]))
    /\ UNCHANGED <<table, siblings, op, low, steady, seen, raced>>

ReadLow(p) ==
    /\ pc[p] = "low"
    /\ low' = [low EXCEPT ![p] = @ - 1]
    /\ out' = [out EXCEPT ![p] = @ \union contacts(table, bucket(low'[p]))]
    /\ goto(p, widen(Cardinality(out'[p]), low'[p], high[p]))
    /\ UNCHANGED <<table, siblings, op, high, steady, seen, raced>>

\* The fallback's K nearest, then the siblings; of one id the fallback's contact stays.
MergeSiblings(p) ==
    LET best == nearest(out[p], op[p].id, K)
        merged == best \union {c \in contacts(siblings, held(siblings)) : \A d \in best : d.id # c.id} IN
    /\ pc[p] = "siblings" /\ unlocked
    /\ out' = [out EXCEPT ![p] = nearest(merged, op[p].id, K)]
    /\ goto(p, "answered")
    /\ UNCHANGED <<table, siblings, op, low, high, steady, seen, raced>>

Return(p) ==
    /\ pc[p] = "answered"
    /\ return(p)
    /\ steady' = [steady EXCEPT ![p] = [table |-> {}, siblings |-> {}]]
    /\ UNCHANGED <<table, siblings, seen, raced>>
-----------------------------------------------------------------------------
Next ==
    \/ \E p \in Threads, c \in Contacts : AddToBucket(p, c) \/ CountSiblings(p, c)
    \/ \E p \in Threads, t \in Ids : ReadHome(p, t)
    \/ \E p \in Threads : \/ AddToSiblings(p) \/ CountBucket(p) \/ RemoveFromSiblings(p) \/ RemoveFromBucket(p)
                        \/ ReadHigh(p) \/ ReadLow(p) \/ MergeSiblings(p) \/ Return(p)

Spec == Init /\ [][Next]_vars
-----------------------------------------------------------------------------
(* Properties *)

\* However buckets change while close_nodes goes through them: a contact known all along is
\* in the answer, unless the answer is full, of nearer contacts if its bucket was read or it
\* was a sibling.
QueryMissesNothing ==
    \A p \in Threads : pc[p] = "answered" =>
        \A x \in steady[p].table \union steady[p].siblings :
            \/ \E c \in out[p] : c.id = x
            \/ /\ Cardinality(out[p]) = K
               /\ x \in steady[p].siblings \/ bucket_index(x) \in low[p] .. high[p] =>
                    \A c \in out[p] : xor_distance(c.id, op[p].id) < xor_distance(x, op[p].id)

\* Until one is removed the siblings are the nearest of all that were ever offered, and
\* from then on of those offered since.
NearestOffered ==
    /\ held(siblings) \subseteq seen
    /\ \A x \in seen \ held(siblings), y \in held(siblings) : farther(x, y)
    /\ seen \ held(siblings) # {} => Cardinality(held(siblings)) = Siblings

\* The two layers reach an id at the same address, unless two calls wrote it at once.
LayersAgree ==
    \A x \in (held(table) \intersect held(siblings)) \ raced :
        \/ table[x] = siblings[x]
        \/ \E p \in Threads : pc[p] \in Writing /\ op[p].id = x

\* When remove_contact returns, neither layer holds the contact.
RemovalIsComplete ==
    [][\A p \in Threads : pc[p] = "removing" /\ pc'[p] = "idle" =>
        op[p].address \notin {table'[op[p].id], siblings'[op[p].id]}]_vars

\* A step of p's forget that leaves fewer than K contacts.
Undercuts(p) ==
    pc[p] \in {"remove", "removing"} /\ pc'[p] # pc[p] /\ known' # known /\ Cardinality(known') < K

\* "removes nothing while the table holds K or fewer distinct contacts".
FloorKept == [][\A p \in Threads : ~Undercuts(p)]_vars
-----------------------------------------------------------------------------
(* What makes the properties inductive *)

\* While close_nodes gathers, it has read the buckets from low to high, each one once: what
\* stayed in one of them is in hand.  It goes on to the siblings with enough or with everything.
Gathering(p) ==
    /\ low[p] <= high[p]
    /\ \A c \in out[p] : bucket_index(c.id) \in low[p] .. high[p]
    /\ \A c, d \in out[p] : c.id = d.id => c = d
    /\ \A x \in steady[p].table : bucket_index(x) \in low[p] .. high[p] => \E c \in out[p] : c.id = x
    /\ pc[p] = "siblings" => Cardinality(out[p]) >= K \/ (low[p] = 0 /\ high[p] + 1 = MaxBuckets)

\* A call that writes an id alone knows what the layers hold of it.
Alone(p) ==
    LET x == op[p].id IN
    /\ \A q \in Threads \ {p} : ~(pc[q] \in Writing /\ op[q].id = x)
    /\ pc[p] = "add" => table[x] \in {None, op[p].address}
    /\ pc[p] = "removing" => table[x] = None \/ siblings[x] = None \/ table[x] = siblings[x]

IndInv ==
    /\ TypeOK
    /\ steady \in [Threads -> [table : SUBSET Ids, siblings : SUBSET Ids]]
    /\ \A p \in Threads :
        /\ steady[p].table \subseteq held(table) /\ steady[p].siblings \subseteq held(siblings)
        /\ pc[p] \in Querying \ {"answered"} => Gathering(p)
        /\ pc[p] \in Writing /\ op[p].id \notin raced => Alone(p)
        /\ pc[p] = "removing" => siblings[op[p].id] # op[p].address
    /\ QueryMissesNothing
    /\ NearestOffered
    /\ LayersAgree
=============================================================================
