------------------------- MODULE RoutingTableProofs -------------------------
(***************************************************************************)
(* RoutingTable for any number of threads, ids and addresses, any metric   *)
(* that tells ids apart, and buckets of any number and size.               *)
(***************************************************************************)
EXTENDS RoutingTable, FiniteSetTheorems, NaturalsInduction, TLAPS

\* A set of numbers has a least.
LEMMA NatMinimum ==
    ASSUME NEW S \in SUBSET Nat, S # {}
    PROVE  \E x \in S : \A y \in S : x <= y
<1>1. PICK x \in S : \A y \in S : ~(<<y, x>> \in OpToRel(<, Nat))
  BY NatLessThanWellFounded, WFMin, Zenon
<1>2. \A y \in S : ~(y < x)
  BY <1>1, Zenon DEF OpToRel
<1> QED  BY <1>2

\* Subsets of a finite set, and what cardinality says of them.
LEMMA SubsetFacts ==
    ASSUME NEW S, IsFiniteSet(S), NEW T, T \subseteq S
    PROVE  IsFiniteSet(T) /\ Cardinality(T) \in Nat /\ Cardinality(S) \in Nat /\ Cardinality(T) <= Cardinality(S)
BY FS_Subset, FS_CardinalityType, Zenon

\* Distances are bounded numbers.
LEMMA DistanceFacts ==
    ASSUME NEW x \in Ids, NEW t \in Ids
    PROVE  xor_distance(x, t) \in Nat /\ 2^IdBits \in Int /\ 2^IdBits - 1 - xor_distance(x, t) \in Nat
BY IdAssumption, DistanceAssumption

\* The index of a bucket is in the array: calc_bucket_index clamps it.
LEMMA IndexType ==
    ASSUME NEW x \in Ids
    PROVE  bucket_index(x) \in 0 .. MaxBuckets - 1
<1> DEFINE d == xor_distance(x, my_id)
           bits == {bit \in 0 .. IdBits - 1 : d < 2^bit}
<1>1. IsFiniteSet(0 .. IdBits - 1)
  BY IdAssumption, FS_Interval
<1>2. leading_zeros(d) \in Nat
  <2>1. bits \subseteq 0 .. IdBits - 1
    BY Zenon
  <2>2. Cardinality(bits) \in Nat
    BY <1>1, <2>1, SubsetFacts, Zenon
  <2> QED  BY <2>2, Zenon DEF leading_zeros
<1>3. \A a \in Nat, b \in Int : b > 0 => a \div b \in Nat
  OBVIOUS
<1>4. leading_zeros(d) \div 2^SearchShift \in Nat
  BY <1>2, <1>3, SizeAssumption
<1> QED
  BY <1>4, SizeAssumption DEF bucket_index

\* What the nodes of a layer are, and that there are finitely many.
LEMMA HeldFacts ==
    ASSUME NEW layer
    PROVE  held(layer) \subseteq Ids /\ IsFiniteSet(held(layer)) /\ Cardinality(held(layer)) \in Nat
<1>1. held(layer) \subseteq Ids
  BY Zenon DEF held
<1> QED  BY <1>1, SubsetFacts, IdAssumption, Zenon

\* The contact nearest to t, and the one farthest from it.
LEMMA NearestId ==
    ASSUME NEW S \in SUBSET Ids, S # {}, NEW t \in Ids
    PROVE  \E x \in S : \A y \in S : xor_distance(x, t) <= xor_distance(y, t)
<1> DEFINE D == {xor_distance(x, t) : x \in S}
<1>1. D \in SUBSET Nat /\ D # {}
  BY DistanceFacts, Zenon
<1>2. PICK d \in D : \A e \in D : d <= e
  BY <1>1, NatMinimum, Zenon
<1> QED  BY <1>2, Zenon

LEMMA FarthestId ==
    ASSUME NEW S \in SUBSET Ids, S # {}, NEW t \in Ids
    PROVE  \E x \in S : \A y \in S : xor_distance(y, t) <= xor_distance(x, t)
<1> DEFINE gap(x) == 2^IdBits - 1 - xor_distance(x, t)
           D == {gap(x) : x \in S}
<1>1. D \in SUBSET Nat /\ D # {}
  BY DistanceFacts, Zenon
<1>2. PICK d \in D : \A e \in D : d <= e
  BY <1>1, NatMinimum, Zenon
<1>3. PICK x \in S : d = gap(x)
  BY Zenon
<1>4. \A y \in S : gap(x) <= gap(y)
  BY <1>2, <1>3, Zenon
<1>5. \A y \in S : xor_distance(y, t) \in Nat /\ xor_distance(x, t) \in Nat /\ 2^IdBits \in Int
  BY DistanceFacts, Zenon
<1>6. \A y \in S : xor_distance(y, t) <= xor_distance(x, t)
  BY <1>4, <1>5
<1> QED  BY <1>6, Zenon
-----------------------------------------------------------------------------
(* Types *)

Labels == Writing \union Querying \union {"idle", "count", "remove"}

\* The layers, and what a thread has in hand.
LayersOK ==
    /\ table \in [Ids -> Addresses \union {None}]
    /\ siblings \in [Ids -> Addresses \union {None}]
    /\ table[my_id] = None /\ siblings[my_id] = None
    /\ \A i \in 0 .. MaxBuckets - 1 : Cardinality(bucket(i)) <= BucketSize
    /\ Cardinality(held(siblings)) <= Siblings

LocalsOK ==
    /\ pc \in [Threads -> Labels]
    /\ op \in [Threads -> [id : Ids, address : Addresses \union {None}] \union {None}]
    /\ low \in [Threads -> 0 .. MaxBuckets - 1] /\ high \in [Threads -> 0 .. MaxBuckets - 1]
    /\ out \in [Threads -> SUBSET Contacts]

Local(p) ==
    /\ pc[p] \in Writing \union {"count", "remove"} => op[p] \in Contacts
    /\ pc[p] = "add" => op[p].id # my_id
    /\ pc[p] \in Querying => op[p].id \in Ids
    /\ pc[p] = "high" => high[p] + 1 < MaxBuckets
    /\ pc[p] = "low" => low[p] > 0

LEMMA TypeParts == TypeOK <=> LayersOK /\ LocalsOK /\ (\A p \in Threads : Local(p)) /\ seen \subseteq Ids /\ raced \subseteq Ids
BY Zenon DEF TypeOK, LayersOK, LocalsOK, Local, Labels

LEMMA TypePartsNext ==
    TypeOK' <=> LayersOK' /\ LocalsOK' /\ (\A p \in Threads : Local(p)') /\ seen' \subseteq Ids /\ raced' \subseteq Ids
BY Zenon DEF TypeOK, LayersOK, LocalsOK, Local, Labels

\* A step of p leaves the locals of the other threads alone.
LEMMA LocalsStep ==
    ASSUME LocalsOK, \A q \in Threads : Local(q), NEW p \in Threads,
           NEW w \in Labels, NEW o \in [id : Ids, address : Addresses \union {None}] \union {None},
           NEW lo \in 0 .. MaxBuckets - 1, NEW hi \in 0 .. MaxBuckets - 1, NEW S \in SUBSET Contacts,
           pc' = [pc EXCEPT ![p] = w], op' = [op EXCEPT ![p] = o], low' = [low EXCEPT ![p] = lo],
           high' = [high EXCEPT ![p] = hi], out' = [out EXCEPT ![p] = S],
           w \in Writing \union {"count", "remove"} => o \in Contacts,
           w = "add" => o.id # my_id,
           w \in Querying => o.id \in Ids,
           w = "high" => hi + 1 < MaxBuckets,
           w = "low" => lo > 0
    PROVE  LocalsOK' /\ \A q \in Threads : Local(q)'
<1>1. LocalsOK'
  BY Zenon DEF LocalsOK
<1>2. ASSUME NEW q \in Threads PROVE Local(q)'
  <2>1. CASE q = p
    BY <2>1, Zenon DEF LocalsOK, Local
  <2>2. CASE q # p
    BY <2>2, Zenon DEF LocalsOK, Local
  <2> QED  BY <2>1, <2>2, Zenon
<1> QED  BY <1>1, <1>2, Zenon

\* Where the loop of close_nodes goes, given where it is.
LEMMA WidenFacts ==
    ASSUME NEW n, NEW lo \in 0 .. MaxBuckets - 1, NEW hi \in 0 .. MaxBuckets - 1
    PROVE  /\ widen(n, lo, hi) \in {"siblings", "high", "low"}
           /\ widen(n, lo, hi) = "high" => hi + 1 < MaxBuckets
           /\ widen(n, lo, hi) = "low" => lo > 0
           /\ widen(n, lo, hi) = "siblings" => n >= K \/ (lo = 0 /\ hi + 1 = MaxBuckets)
BY SizeAssumption DEF widen

LEMMA ReturnLocals ==
    ASSUME LocalsOK, \A q \in Threads : Local(q), NEW p \in Threads, return(p)
    PROVE  LocalsOK' /\ \A q \in Threads : Local(q)'
<1>1. "idle" \in Labels /\ "idle" \notin Writing \union Querying \union {"count", "remove"}
  BY Zenon DEF Labels, Writing, Querying
<1>2. 0 \in 0 .. MaxBuckets - 1
  BY SizeAssumption
<1>3. "idle" # "add" /\ "idle" # "high" /\ "idle" # "low"
  BY Zenon
<1> QED
  BY <1>1, <1>2, <1>3, LocalsStep, Zenon DEF return, goto

\* Contacts read from a layer are contacts.
LEMMA ContactsType ==
    ASSUME NEW layer \in [Ids -> Addresses \union {None}], NEW S, S \subseteq held(layer)
    PROVE  contacts(layer, S) \in SUBSET Contacts
BY DEF contacts, held, Contacts

\* Taking one entry out of a layer.
LEMMA HeldWithout ==
    ASSUME NEW layer \in [Ids -> Addresses \union {None}], NEW x \in Ids
    PROVE  /\ [layer EXCEPT ![x] = None] \in [Ids -> Addresses \union {None}]
           /\ held([layer EXCEPT ![x] = None]) = held(layer) \ {x}
BY NoneAssumption, Zenon DEF held

LEMMA BucketFacts ==
    /\ \A i : bucket(i) \subseteq held(table) /\ IsFiniteSet(bucket(i)) /\ Cardinality(bucket(i)) \in Nat
<1> SUFFICES ASSUME NEW i PROVE bucket(i) \subseteq held(table) /\ IsFiniteSet(bucket(i)) /\ Cardinality(bucket(i)) \in Nat
  BY Zenon
<1>1. bucket(i) \subseteq held(table)
  BY Zenon DEF bucket
<1> QED  BY <1>1, HeldFacts, SubsetFacts, Zenon

LEMMA BucketFactsNext ==
    /\ \A i : bucket(i)' \subseteq held(table') /\ IsFiniteSet(bucket(i)') /\ Cardinality(bucket(i)') \in Nat
<1> SUFFICES ASSUME NEW i PROVE bucket(i)' \subseteq held(table') /\ IsFiniteSet(bucket(i)') /\ Cardinality(bucket(i)') \in Nat
  BY Zenon
<1>1. bucket(i)' \subseteq held(table') /\ held(table') \subseteq Ids
  BY Zenon DEF bucket, held
<1>2. bucket(i)' \subseteq Ids
  BY <1>1, Zenon
<1> QED  BY <1>1, <1>2, IdAssumption, SubsetFacts, Zenon

\* Adding to a bucket that has room, or refreshing, keeps the buckets within their size.
LEMMA AddedToBucket ==
    ASSUME LayersOK, NEW c \in Contacts, c.id # my_id, siblings' = siblings,
           table' = IF table[c.id] # None \/ Cardinality(bucket(bucket_index(c.id))) < BucketSize
                    THEN [table EXCEPT ![c.id] = c.address] ELSE table
    PROVE  LayersOK'
<1> DEFINE room == table[c.id] # None \/ Cardinality(bucket(bucket_index(c.id))) < BucketSize
<1> USE DEF Contacts
<1>1. CASE ~room
  <2>1. table' = table
    BY <1>1, Zenon
  <2> QED  BY <2>1, Zenon DEF LayersOK, bucket, held
<1>2. CASE room
  <2>1. table' = [table EXCEPT ![c.id] = c.address]
    BY <1>2, Zenon
  <2>2. table' \in [Ids -> Addresses \union {None}] /\ held(table') = held(table) \union {c.id}
    <3>1. table \in [Ids -> Addresses \union {None}] /\ c.id \in Ids /\ c.address \in Addresses
      BY Zenon DEF LayersOK
    <3> QED  BY <2>1, <3>1, NoneAssumption, Zenon DEF held
  <2>3. table'[my_id] = None
    BY <2>1, IdAssumption, Zenon DEF LayersOK
  <2>4. ASSUME NEW i \in 0 .. MaxBuckets - 1 PROVE Cardinality(bucket(i)') <= BucketSize
    <3>1. bucket(i)' = {x \in held(table') : bucket_index(x) = i}
      BY Zenon DEF bucket
    <3>2. CASE bucket_index(c.id) = i /\ c.id \notin held(table)
      <4>1. bucket(i)' = bucket(i) \union {c.id} /\ c.id \notin bucket(i)
        BY <2>2, <3>1, <3>2, Zenon DEF bucket
      <4>2. Cardinality(bucket(i)) < BucketSize
        BY <1>2, <3>2, Zenon DEF held
      <4>3. IsFiniteSet(bucket(i)) /\ Cardinality(bucket(i)) \in Nat
        BY BucketFacts, Zenon
      <4>4. Cardinality(bucket(i) \union {c.id}) = Cardinality(bucket(i)) + 1
        BY <4>1, <4>3, FS_AddElement, Zenon
      <4> QED  BY <4>1, <4>2, <4>3, <4>4, SizeAssumption
    <3>3. CASE ~(bucket_index(c.id) = i /\ c.id \notin held(table))
      <4>1. bucket(i)' = bucket(i)
        BY <2>2, <3>1, <3>3, Zenon DEF bucket
      <4> QED  BY <4>1, Zenon DEF LayersOK
    <3> QED  BY <3>2, <3>3, Zenon
  <2> QED  BY <2>2, <2>3, <2>4, Zenon DEF LayersOK
<1> QED  BY <1>1, <1>2, Zenon

\* Taking an entry out keeps the layers in order.
LEMMA RemovedFromBucket ==
    ASSUME LayersOK, NEW x \in Ids, siblings' = siblings, table' = [table EXCEPT ![x] = None]
    PROVE  LayersOK'
<1>1. table' \in [Ids -> Addresses \union {None}] /\ held(table') = held(table) \ {x}
  BY HeldWithout, Zenon DEF LayersOK
<1>2. table'[my_id] = None
  BY IdAssumption, Zenon DEF LayersOK
<1>3. ASSUME NEW i \in 0 .. MaxBuckets - 1 PROVE Cardinality(bucket(i)') <= BucketSize
  <2>1. bucket(i)' \subseteq bucket(i)
    BY <1>1, Zenon DEF bucket
  <2>2. Cardinality(bucket(i)') \in Nat /\ Cardinality(bucket(i)') <= Cardinality(bucket(i))
    BY <2>1, BucketFacts, SubsetFacts, Zenon
  <2> QED  BY <2>2, BucketFacts, SizeAssumption DEF LayersOK
<1> QED  BY <1>1, <1>2, <1>3, Zenon DEF LayersOK

LEMMA RemovedFromSiblings ==
    ASSUME LayersOK, NEW x \in Ids, table' = table, siblings' = [siblings EXCEPT ![x] = None]
    PROVE  LayersOK' /\ held(siblings') = held(siblings) \ {x}
<1>1. siblings' \in [Ids -> Addresses \union {None}] /\ held(siblings') = held(siblings) \ {x}
  BY HeldWithout, Zenon DEF LayersOK
<1>2. siblings'[my_id] = None
  BY IdAssumption, Zenon DEF LayersOK
<1>3. Cardinality(held(siblings')) <= Siblings
  <2>1. Cardinality(held(siblings')) \in Nat /\ Cardinality(held(siblings')) <= Cardinality(held(siblings))
    BY <1>1, HeldFacts, SubsetFacts, Zenon
  <2> QED  BY <2>1, HeldFacts, SizeAssumption DEF LayersOK
<1>4. \A i : bucket(i)' = bucket(i)
  BY Zenon DEF bucket, held
<1> QED  BY <1>1, <1>2, <1>3, <1>4, Zenon DEF LayersOK

\* What insert_sibling does: it adds or refreshes, keeps everything, or puts the newcomer in
\* the place of the farthest.
LEMMA InsertCases ==
    ASSUME LayersOK, NEW c \in Contacts, c.id # my_id
    PROVE  LET H == held(siblings)
               new == insert_sibling(c)
           IN  \/ /\ c.id \in H \/ Cardinality(H) < Siblings
                  /\ new = [siblings EXCEPT ![c.id] = c.address] /\ held(new) = H \union {c.id}
               \/ /\ c.id \notin H /\ Cardinality(H) = Siblings
                  /\ \E last \in H :
                        /\ \A y \in H : ~farther(y, last)
                        /\ \/ farther(c.id, last) /\ new = siblings
                           \/ /\ ~farther(c.id, last)
                              /\ new = [siblings EXCEPT ![last] = None, ![c.id] = c.address]
                              /\ held(new) = (H \ {last}) \union {c.id}
<1> DEFINE H == held(siblings)
           last == CHOOSE x \in H : \A y \in H : ~farther(y, x)
           new == insert_sibling(c)
           room == siblings[c.id] # None \/ Cardinality(H) < Siblings
<1> USE DEF Contacts
<1>0. c.id \in Ids /\ c.address \in Addresses /\ c.address # None
  BY NoneAssumption, Zenon
<1>1. H \subseteq Ids /\ Cardinality(H) \in Nat /\ Cardinality(H) <= Siblings /\ (H = {} => Cardinality(H) = 0)
  BY HeldFacts, FS_EmptySet, Zenon DEF LayersOK
<1>2. room <=> c.id \in H \/ Cardinality(H) < Siblings
  BY <1>0, Zenon DEF held
<1>3. CASE room
  <2>1. new = [siblings EXCEPT ![c.id] = c.address]
    BY <1>3, Zenon DEF insert_sibling
  <2>2. held(new) = H \union {c.id}
    <3>1. siblings \in [Ids -> Addresses \union {None}]
      BY Zenon DEF LayersOK
    <3> QED  BY <1>0, <2>1, <3>1, Zenon DEF held
  <2> QED  BY <1>2, <1>3, <2>1, <2>2, Zenon
<1>4. CASE ~room
  <2>1. Cardinality(H) = Siblings /\ c.id \notin H
    BY <1>1, <1>2, <1>4, SizeAssumption
  <2>2. H # {}
    BY <1>1, <2>1, SizeAssumption, Zenon
  <2>3. \E x \in H : \A y \in H : ~farther(y, x)
    <3>1. PICK x \in H : \A y \in H : xor_distance(y, my_id) <= xor_distance(x, my_id)
      BY <1>1, <2>2, FarthestId, IdAssumption, Zenon
    <3>2. \A y \in H : xor_distance(y, my_id) \in Nat /\ xor_distance(x, my_id) \in Nat
      BY <1>1, DistanceFacts, IdAssumption, Zenon
    <3> QED  BY <3>1, <3>2 DEF farther
  <2>4. last \in H /\ \A y \in H : ~farther(y, last)
    BY <2>3, Zenon
  <2>5. CASE farther(c.id, last)
    <3>1. new = siblings
      BY <1>4, <2>5, Zenon DEF insert_sibling
    <3> QED  BY <2>1, <2>4, <2>5, <3>1, Zenon
  <2>6. CASE ~farther(c.id, last)
    <3>1. new = [siblings EXCEPT ![last] = None, ![c.id] = c.address]
      BY <1>4, <2>6, Zenon DEF insert_sibling
    <3>2. held(new) = (H \ {last}) \union {c.id}
      BY <1>0, <1>1, <2>1, <2>4, <3>1, Zenon DEF LayersOK, held
    <3> QED  BY <2>1, <2>4, <2>6, <3>1, <3>2, Zenon
  <2> QED  BY <2>5, <2>6, Zenon
<1> QED  BY <1>3, <1>4, Zenon

LEMMA InsertType ==
    ASSUME LayersOK, NEW c \in Contacts, c.id # my_id, table' = table, siblings' = insert_sibling(c)
    PROVE  LayersOK'
<1> DEFINE H == held(siblings)
<1> USE DEF Contacts
<1>1. H \subseteq Ids /\ IsFiniteSet(H) /\ Cardinality(H) \in Nat /\ Cardinality(H) <= Siblings
  BY HeldFacts, Zenon DEF LayersOK
<1>2. \A i : bucket(i)' = bucket(i)
  BY Zenon DEF bucket, held
<1>3. siblings' \in [Ids -> Addresses \union {None}] /\ siblings'[my_id] = None
  BY <1>1, InsertCases, IdAssumption DEF LayersOK
<1>4. Cardinality(held(siblings')) <= Siblings
  <2>1. CASE held(siblings') = H
    BY <1>1, <2>1, Zenon
  <2>2. CASE Cardinality(H) < Siblings /\ held(siblings') = H \union {c.id}
    <3>1. Cardinality(H \union {c.id}) \in {Cardinality(H), Cardinality(H) + 1}
      BY <1>1, FS_AddElement, Zenon
    <3> QED  BY <1>1, <2>2, <3>1, SizeAssumption
  <2>3. ASSUME NEW last \in H, c.id \notin H, held(siblings') = (H \ {last}) \union {c.id}
        PROVE  Cardinality(held(siblings')) <= Siblings
    <3>1. IsFiniteSet(H \ {last}) /\ Cardinality(H \ {last}) = Cardinality(H) - 1
      BY <1>1, <2>3, FS_RemoveElement, Zenon
    <3>2. Cardinality((H \ {last}) \union {c.id}) = Cardinality(H \ {last}) + 1
      BY <2>3, <3>1, FS_AddElement, Zenon
    <3> QED  BY <1>1, <2>3, <3>1, <3>2, SizeAssumption
  <2> QED  BY <2>1, <2>2, <2>3, InsertCases
<1> QED  BY <1>2, <1>3, <1>4, Zenon DEF LayersOK

LEMMA SameLayers ==
    ASSUME LayersOK, table' = table, siblings' = siblings
    PROVE  LayersOK'
BY Zenon DEF LayersOK, bucket, held

LEMMA RaceType ==
    ASSUME NEW p, NEW x \in Ids, raced \subseteq Ids, Race(p, x)
    PROVE  raced' \subseteq Ids
BY Zenon DEF Race

LEMMA InitType == Init => TypeOK
<1> SUFFICES ASSUME Init PROVE TypeOK
  BY Zenon
<1>1. held(table) = {} /\ held(siblings) = {}
  BY Zenon DEF Init, held
<1>2. \A i : bucket(i) = {}
  BY <1>1, Zenon DEF bucket
<1>3. LayersOK
  <2>1. Cardinality({}) <= BucketSize /\ Cardinality({}) <= Siblings
    BY FS_EmptySet, SizeAssumption
  <2>2. table \in [Ids -> Addresses \union {None}] /\ siblings \in [Ids -> Addresses \union {None}]
    BY Zenon DEF Init
  <2>3. table[my_id] = None /\ siblings[my_id] = None
    BY IdAssumption, Zenon DEF Init
  <2> QED  BY <1>1, <1>2, <2>1, <2>2, <2>3, Zenon DEF LayersOK
<1>4. LocalsOK /\ \A p \in Threads : Local(p)
  BY SizeAssumption DEF Init, LocalsOK, Local, Labels, Writing, Querying
<1> QED
  BY <1>3, <1>4, TypeParts, Zenon DEF Init

LEMMA AddToBucketType ==
    ASSUME TypeOK, NEW p \in Threads, NEW c \in Contacts, AddToBucket(p, c)
    PROVE  TypeOK'
<1> USE TypeParts
<1>0. c.id \in Ids /\ c.address \in Addresses
  BY Zenon DEF Contacts
<1>1. LayersOK'
  BY AddedToBucket, Zenon DEF AddToBucket
<1>2. LocalsOK' /\ \A q \in Threads : Local(q)'
  <2>1. "add" \in Labels /\ "add" \notin Querying
    BY Zenon DEF Labels, Writing, Querying
  <2>2. c \in [id : Ids, address : Addresses \union {None}] \union {None}
    BY Zenon DEF Contacts
  <2>3. low' = [low EXCEPT ![p] = low[p]] /\ high' = [high EXCEPT ![p] = high[p]] /\ out' = [out EXCEPT ![p] = out[p]]
    BY Zenon DEF AddToBucket, LocalsOK
  <2>4. low[p] \in 0 .. MaxBuckets - 1 /\ high[p] \in 0 .. MaxBuckets - 1 /\ out[p] \in SUBSET Contacts
    BY Zenon DEF LocalsOK
  <2>5. pc' = [pc EXCEPT ![p] = "add"] /\ op' = [op EXCEPT ![p] = c] /\ c.id # my_id
    BY Zenon DEF AddToBucket, goto
  <2> QED
    BY <2>1, <2>2, <2>3, <2>4, <2>5, LocalsStep, Zenon
<1>3. seen' \subseteq Ids /\ raced' \subseteq Ids
  BY <1>0, RaceType, Zenon DEF AddToBucket
<1> QED  BY <1>1, <1>2, <1>3, TypePartsNext, Zenon

LEMMA AddToSiblingsType ==
    ASSUME TypeOK, NEW p \in Threads, AddToSiblings(p)
    PROVE  TypeOK'
<1> USE TypeParts
<1>1. op[p] \in Contacts /\ op[p].id # my_id /\ op[p].id \in Ids
  BY Zenon DEF AddToSiblings, Local, Writing, Contacts
<1>2. LayersOK'
  BY <1>1, InsertType, Zenon DEF AddToSiblings
<1>3. LocalsOK' /\ \A q \in Threads : Local(q)'
  BY ReturnLocals, Zenon DEF AddToSiblings
<1>4. seen' \subseteq Ids /\ raced' \subseteq Ids
  BY <1>1, Zenon DEF AddToSiblings
<1> QED  BY <1>2, <1>3, <1>4, TypePartsNext, Zenon

LEMMA CountSiblingsType ==
    ASSUME TypeOK, NEW p \in Threads, NEW c \in Contacts, CountSiblings(p, c)
    PROVE  TypeOK'
<1> USE TypeParts
<1> DEFINE w == IF plenty(out'[p]) THEN "remove" ELSE "count"
           S == contacts(siblings, held(siblings))
<1>1. LayersOK'
  BY SameLayers, Zenon DEF CountSiblings
<1>2. LocalsOK' /\ \A q \in Threads : Local(q)'
  <2>1. w \in Labels /\ w # "add" /\ w # "high" /\ w # "low" /\ w \notin Querying
    BY Zenon DEF Labels, Writing, Querying
  <2>2. c \in [id : Ids, address : Addresses \union {None}] \union {None}
    BY Zenon DEF Contacts
  <2>3. low' = [low EXCEPT ![p] = low[p]] /\ high' = [high EXCEPT ![p] = high[p]]
    BY Zenon DEF CountSiblings, LocalsOK
  <2>4. low[p] \in 0 .. MaxBuckets - 1 /\ high[p] \in 0 .. MaxBuckets - 1
    BY Zenon DEF LocalsOK
  <2>5. pc' = [pc EXCEPT ![p] = w] /\ op' = [op EXCEPT ![p] = c] /\ out' = [out EXCEPT ![p] = S]
    BY Zenon DEF CountSiblings, goto
  <2>6. S \in SUBSET Contacts
    BY ContactsType, Zenon DEF LayersOK
  <2> HIDE DEF w, S
  <2> QED
    BY <2>1, <2>2, <2>3, <2>4, <2>5, <2>6, LocalsStep, Zenon
<1>3. seen' \subseteq Ids /\ raced' \subseteq Ids
  BY Zenon DEF CountSiblings
<1> QED  BY <1>1, <1>2, <1>3, TypePartsNext, Zenon

LEMMA CountBucketType ==
    ASSUME TypeOK, NEW p \in Threads, CountBucket(p)
    PROVE  TypeOK'
<1> USE TypeParts
<1> DEFINE S == out[p] \union contacts(table, bucket(high[p]))
           w == IF plenty(S) THEN "remove" ELSE "count"
           hi == IF plenty(S) THEN high[p] ELSE high[p] + 1
<1>1. LayersOK'
  BY SameLayers, Zenon DEF CountBucket
<1>2. LocalsOK' /\ \A q \in Threads : Local(q)'
  <2>1. CASE ~plenty(S) /\ high[p] + 1 = MaxBuckets
    <3>1. return(p)
      BY <2>1, Zenon DEF CountBucket
    <3> QED  BY <3>1, ReturnLocals, Zenon
  <2>2. CASE ~(~plenty(S) /\ high[p] + 1 = MaxBuckets)
    <3>1. w \in Labels /\ w # "add" /\ w # "high" /\ w # "low" /\ w \notin Querying
      BY Zenon DEF Labels, Writing, Querying
    <3>2. op[p] \in Contacts
      BY Zenon DEF CountBucket, Local
    <3>3. op[p] \in [id : Ids, address : Addresses \union {None}] \union {None}
      BY Zenon DEF LocalsOK
    <3>4. op' = [op EXCEPT ![p] = op[p]] /\ low' = [low EXCEPT ![p] = low[p]]
      BY <2>2, Zenon DEF CountBucket, LocalsOK
    <3>5. low[p] \in 0 .. MaxBuckets - 1 /\ high[p] \in 0 .. MaxBuckets - 1 /\ out[p] \in SUBSET Contacts
      BY Zenon DEF LocalsOK
    <3>6. hi \in 0 .. MaxBuckets - 1
      BY <2>2, <3>5, SizeAssumption
    <3>7. pc' = [pc EXCEPT ![p] = w] /\ high' = [high EXCEPT ![p] = hi] /\ out' = [out EXCEPT ![p] = S]
      BY <2>2, Zenon DEF CountBucket, goto
    <3>8. S \in SUBSET Contacts
      <4>1. contacts(table, bucket(high[p])) \in SUBSET Contacts
        BY BucketFacts, ContactsType, Zenon DEF LayersOK
      <4> QED  BY <3>5, <4>1, Zenon
    <3> HIDE DEF w, S, hi
    <3> QED
      BY <3>1, <3>2, <3>3, <3>4, <3>5, <3>6, <3>7, <3>8, LocalsStep, Zenon
  <2> QED  BY <2>1, <2>2, Zenon
<1>3. seen' \subseteq Ids /\ raced' \subseteq Ids
  BY Zenon DEF CountBucket
<1> QED  BY <1>1, <1>2, <1>3, TypePartsNext, Zenon

LEMMA RemoveFromSiblingsType ==
    ASSUME TypeOK, NEW p \in Threads, RemoveFromSiblings(p)
    PROVE  TypeOK'
<1> USE TypeParts
<1>1. op[p] \in Contacts /\ op[p].id \in Ids
  BY Zenon DEF RemoveFromSiblings, Local, Contacts
<1>2. LayersOK' /\ seen' \subseteq Ids
  <2>1. CASE siblings[op[p].id] = op[p].address
    <3>1. siblings' = [siblings EXCEPT ![op[p].id] = None] /\ table' = table /\ seen' = held(siblings')
      BY <2>1, Zenon DEF RemoveFromSiblings
    <3> QED  BY <1>1, <3>1, RemovedFromSiblings, HeldFacts, Zenon
  <2>2. CASE siblings[op[p].id] # op[p].address
    BY <2>2, SameLayers, Zenon DEF RemoveFromSiblings
  <2> QED  BY <2>1, <2>2, Zenon
<1>3. LocalsOK' /\ \A q \in Threads : Local(q)'
  <2>1. "removing" \in Labels /\ "removing" \notin Querying
    BY Zenon DEF Labels, Writing, Querying
  <2>2. op[p] \in [id : Ids, address : Addresses \union {None}] \union {None}
    BY Zenon DEF LocalsOK
  <2>3. low' = [low EXCEPT ![p] = low[p]] /\ high' = [high EXCEPT ![p] = high[p]] /\ out' = [out EXCEPT ![p] = out[p]]
        /\ op' = [op EXCEPT ![p] = op[p]]
    BY Zenon DEF RemoveFromSiblings, LocalsOK
  <2>4. low[p] \in 0 .. MaxBuckets - 1 /\ high[p] \in 0 .. MaxBuckets - 1 /\ out[p] \in SUBSET Contacts
    BY Zenon DEF LocalsOK
  <2>5. pc' = [pc EXCEPT ![p] = "removing"]
    BY Zenon DEF RemoveFromSiblings, goto
  <2> QED
    BY <1>1, <2>1, <2>2, <2>3, <2>4, <2>5, LocalsStep, Zenon
<1>4. raced' \subseteq Ids
  BY <1>1, RaceType, Zenon DEF RemoveFromSiblings
<1> QED  BY <1>2, <1>3, <1>4, TypePartsNext, Zenon

LEMMA RemoveFromBucketType ==
    ASSUME TypeOK, NEW p \in Threads, RemoveFromBucket(p)
    PROVE  TypeOK'
<1> USE TypeParts
<1>1. op[p] \in Contacts /\ op[p].id \in Ids
  BY Zenon DEF RemoveFromBucket, Local, Writing, Contacts
<1>2. LayersOK'
  <2>1. CASE table[op[p].id] = op[p].address
    BY <1>1, <2>1, RemovedFromBucket, Zenon DEF RemoveFromBucket
  <2>2. CASE table[op[p].id] # op[p].address
    BY <2>2, SameLayers, Zenon DEF RemoveFromBucket
  <2> QED  BY <2>1, <2>2, Zenon
<1>3. LocalsOK' /\ \A q \in Threads : Local(q)'
  BY ReturnLocals, Zenon DEF RemoveFromBucket
<1>4. seen' \subseteq Ids /\ raced' \subseteq Ids
  BY Zenon DEF RemoveFromBucket
<1> QED  BY <1>2, <1>3, <1>4, TypePartsNext, Zenon

LEMMA ReadHomeType ==
    ASSUME TypeOK, NEW p \in Threads, NEW t \in Ids, ReadHome(p, t)
    PROVE  TypeOK'
<1> USE TypeParts
<1> DEFINE home == bucket_index(t)
           S == contacts(table, bucket(home))
           w == widen(Cardinality(S), home, home)
           o == [id |-> t, address |-> None]
<1>1. LayersOK'
  BY SameLayers, Zenon DEF ReadHome
<1>2. LocalsOK' /\ \A q \in Threads : Local(q)'
  <2>0. out[p] \in SUBSET Contacts /\ out' = [out EXCEPT ![p] = S]
    BY Zenon DEF ReadHome, LocalsOK
  <2>1. home \in 0 .. MaxBuckets - 1
    BY IndexType, Zenon
  <2>2. o \in [id : Ids, address : Addresses \union {None}] \union {None} /\ o.id \in Ids
    BY Zenon
  <2>3. S \in SUBSET Contacts
    BY BucketFacts, ContactsType, Zenon DEF LayersOK
  <2>4. /\ pc' = [pc EXCEPT ![p] = w] /\ op' = [op EXCEPT ![p] = o]
        /\ low' = [low EXCEPT ![p] = home] /\ high' = [high EXCEPT ![p] = home]
    <3>1. out'[p] = S
      BY <2>0, Zenon DEF LocalsOK
    <3> QED  BY <3>1, Zenon DEF ReadHome, goto
  <2> HIDE DEF o, home, S
  <2>5. w \in {"siblings", "high", "low"} /\ (w = "high" => home + 1 < MaxBuckets) /\ (w = "low" => home > 0)
    BY <2>1, WidenFacts, Zenon
  <2> HIDE DEF w
  <2>6. w \in Labels /\ w \notin Writing \union {"count", "remove"} /\ w # "add"
    BY <2>5, Zenon DEF Labels, Writing, Querying
  <2> QED
    BY <2>0, <2>1, <2>2, <2>3, <2>4, <2>5, <2>6, LocalsStep, Zenon
<1>3. seen' \subseteq Ids /\ raced' \subseteq Ids
  BY Zenon DEF ReadHome
<1> QED  BY <1>1, <1>2, <1>3, TypePartsNext, Zenon

LEMMA ReadHighType ==
    ASSUME TypeOK, NEW p \in Threads, ReadHigh(p)
    PROVE  TypeOK'
<1> USE TypeParts
<1> DEFINE hi == high[p] + 1
           S == out[p] \union contacts(table, bucket(hi))
           w == IF low[p] > 0 THEN "low" ELSE widen(Cardinality(S), low[p], hi)
<1>1. LayersOK'
  BY SameLayers, Zenon DEF ReadHigh
<1>2. LocalsOK' /\ \A q \in Threads : Local(q)'
  <2>0. /\ low[p] \in 0 .. MaxBuckets - 1 /\ high[p] \in 0 .. MaxBuckets - 1 /\ out[p] \in SUBSET Contacts
        /\ op[p] \in [id : Ids, address : Addresses \union {None}] \union {None}
    BY Zenon DEF LocalsOK
  <2>1. hi \in 0 .. MaxBuckets - 1
    BY <2>0, SizeAssumption DEF ReadHigh, Local
  <2>2. op[p].id \in Ids
    BY Zenon DEF ReadHigh, Local, Querying
  <2>3. S \in SUBSET Contacts
    <3>1. contacts(table, bucket(hi)) \in SUBSET Contacts
      BY BucketFacts, ContactsType, Zenon DEF LayersOK
    <3> QED  BY <2>0, <3>1, Zenon
  <2>4. /\ pc' = [pc EXCEPT ![p] = w] /\ op' = [op EXCEPT ![p] = op[p]] /\ out' = [out EXCEPT ![p] = S]
        /\ low' = [low EXCEPT ![p] = low[p]] /\ high' = [high EXCEPT ![p] = hi]
    <3>1. high' = [high EXCEPT ![p] = hi] /\ high'[p] = hi
      BY Zenon DEF ReadHigh, LocalsOK
    <3>2. out' = [out EXCEPT ![p] = S] /\ out'[p] = S
      BY <3>1, Zenon DEF ReadHigh, LocalsOK
    <3> QED  BY <3>1, <3>2, Zenon DEF ReadHigh, goto, LocalsOK
  <2>5. w \in {"siblings", "high", "low"} /\ (w = "high" => hi + 1 < MaxBuckets) /\ (w = "low" => low[p] > 0)
    BY <2>0, <2>1, WidenFacts, Zenon
  <2> HIDE DEF w, S, hi
  <2>6. w \in Labels /\ w \notin Writing \union {"count", "remove"} /\ w # "add"
    BY <2>5, Zenon DEF Labels, Writing, Querying
  <2> QED
    BY <2>0, <2>1, <2>2, <2>3, <2>4, <2>5, <2>6, LocalsStep, Zenon
<1>3. seen' \subseteq Ids /\ raced' \subseteq Ids
  BY Zenon DEF ReadHigh
<1> QED  BY <1>1, <1>2, <1>3, TypePartsNext, Zenon

LEMMA ReadLowType ==
    ASSUME TypeOK, NEW p \in Threads, ReadLow(p)
    PROVE  TypeOK'
<1> USE TypeParts
<1> DEFINE lo == low[p] - 1
           S == out[p] \union contacts(table, bucket(lo))
           w == widen(Cardinality(S), lo, high[p])
<1>1. LayersOK'
  BY SameLayers, Zenon DEF ReadLow
<1>2. LocalsOK' /\ \A q \in Threads : Local(q)'
  <2>0. /\ low[p] \in 0 .. MaxBuckets - 1 /\ high[p] \in 0 .. MaxBuckets - 1 /\ out[p] \in SUBSET Contacts
        /\ op[p] \in [id : Ids, address : Addresses \union {None}] \union {None}
    BY Zenon DEF LocalsOK
  <2>1. lo \in 0 .. MaxBuckets - 1
    BY <2>0, SizeAssumption DEF ReadLow, Local
  <2>2. op[p].id \in Ids
    BY Zenon DEF ReadLow, Local, Querying
  <2>3. S \in SUBSET Contacts
    <3>1. contacts(table, bucket(lo)) \in SUBSET Contacts
      BY BucketFacts, ContactsType, Zenon DEF LayersOK
    <3> QED  BY <2>0, <3>1, Zenon
  <2>4. /\ pc' = [pc EXCEPT ![p] = w] /\ op' = [op EXCEPT ![p] = op[p]] /\ out' = [out EXCEPT ![p] = S]
        /\ low' = [low EXCEPT ![p] = lo] /\ high' = [high EXCEPT ![p] = high[p]]
    <3>1. low' = [low EXCEPT ![p] = lo] /\ low'[p] = lo
      BY Zenon DEF ReadLow, LocalsOK
    <3>2. out' = [out EXCEPT ![p] = S] /\ out'[p] = S
      BY <3>1, Zenon DEF ReadLow, LocalsOK
    <3> QED  BY <3>1, <3>2, Zenon DEF ReadLow, goto, LocalsOK
  <2>5. w \in {"siblings", "high", "low"} /\ (w = "high" => high[p] + 1 < MaxBuckets) /\ (w = "low" => lo > 0)
    BY <2>0, <2>1, WidenFacts, Zenon
  <2> HIDE DEF w, S, lo
  <2>6. w \in Labels /\ w \notin Writing \union {"count", "remove"} /\ w # "add"
    BY <2>5, Zenon DEF Labels, Writing, Querying
  <2> QED
    BY <2>0, <2>1, <2>2, <2>3, <2>4, <2>5, <2>6, LocalsStep, Zenon
<1>3. seen' \subseteq Ids /\ raced' \subseteq Ids
  BY Zenon DEF ReadLow
<1> QED  BY <1>1, <1>2, <1>3, TypePartsNext, Zenon

\* What close_nodes answers are contacts.
LEMMA MergedType ==
    ASSUME TypeOK, NEW S \in SUBSET Contacts, NEW t
    PROVE  LET best == nearest(S, t, K)
           IN  nearest(best \union {c \in contacts(siblings, held(siblings)) : \A d \in best : d.id # c.id}, t, K)
                 \in SUBSET Contacts
<1>1. contacts(siblings, held(siblings)) \in SUBSET Contacts
  BY TypeParts, ContactsType, Zenon DEF LayersOK
<1>2. \A T \in SUBSET Contacts : nearest(T, t, K) \in SUBSET Contacts
  BY Zenon DEF nearest
<1> QED  BY <1>1, <1>2, Zenon

LEMMA MergeSiblingsType ==
    ASSUME TypeOK, NEW p \in Threads, MergeSiblings(p)
    PROVE  TypeOK'
<1> USE TypeParts
<1> DEFINE best == nearest(out[p], op[p].id, K)
           merged == best \union {c \in contacts(siblings, held(siblings)) : \A d \in best : d.id # c.id}
           S == nearest(merged, op[p].id, K)
<1>1. LayersOK'
  BY SameLayers, Zenon DEF MergeSiblings
<1>2. LocalsOK' /\ \A q \in Threads : Local(q)'
  <2>0. /\ low[p] \in 0 .. MaxBuckets - 1 /\ high[p] \in 0 .. MaxBuckets - 1 /\ out[p] \in SUBSET Contacts
        /\ op[p] \in [id : Ids, address : Addresses \union {None}] \union {None}
    BY Zenon DEF LocalsOK
  <2>1. op[p].id \in Ids
    BY Zenon DEF MergeSiblings, Local, Querying
  <2>2. S \in SUBSET Contacts
    BY <2>0, MergedType, Zenon
  <2>3. pc' = [pc EXCEPT ![p] = "answered"] /\ out' = [out EXCEPT ![p] = S]
    BY Zenon DEF MergeSiblings, goto
  <2>4. op' = [op EXCEPT ![p] = op[p]] /\ low' = [low EXCEPT ![p] = low[p]] /\ high' = [high EXCEPT ![p] = high[p]]
    BY Zenon DEF MergeSiblings, LocalsOK
  <2>5. "answered" \in Labels /\ "answered" \notin Writing \union {"count", "remove"}
    BY Zenon DEF Labels, Writing, Querying
  <2> HIDE DEF S
  <2> QED
    BY <2>0, <2>1, <2>2, <2>3, <2>4, <2>5, LocalsStep, Zenon
<1>3. seen' \subseteq Ids /\ raced' \subseteq Ids
  BY Zenon DEF MergeSiblings
<1> QED  BY <1>1, <1>2, <1>3, TypePartsNext, Zenon

LEMMA ReturnType ==
    ASSUME TypeOK, NEW p \in Threads, Return(p)
    PROVE  TypeOK'
<1> USE TypeParts
<1>1. LayersOK'
  BY SameLayers, Zenon DEF Return
<1>2. LocalsOK' /\ \A q \in Threads : Local(q)'
  BY ReturnLocals, Zenon DEF Return
<1>3. seen' \subseteq Ids /\ raced' \subseteq Ids
  BY Zenon DEF Return
<1> QED  BY <1>1, <1>2, <1>3, TypePartsNext, Zenon

LEMMA StutterType ==
    ASSUME TypeOK, UNCHANGED vars
    PROVE  TypeOK'
<1>1. /\ table' = table /\ siblings' = siblings /\ pc' = pc /\ op' = op /\ low' = low /\ high' = high
      /\ out' = out /\ seen' = seen /\ raced' = raced
  BY Zenon DEF vars
<1> QED  BY <1>1, Zenon DEF TypeOK, bucket, held

LEMMA StepType == TypeOK /\ [Next]_vars => TypeOK'
<1> SUFFICES ASSUME TypeOK, [Next]_vars PROVE TypeOK'
  BY Zenon
<1>1. ASSUME NEW p \in Threads, NEW c \in Contacts, AddToBucket(p, c) \/ CountSiblings(p, c) PROVE TypeOK'
  BY <1>1, AddToBucketType, CountSiblingsType, Zenon
<1>2. ASSUME NEW p \in Threads, NEW t \in Ids, ReadHome(p, t) PROVE TypeOK'
  BY <1>2, ReadHomeType, Zenon
<1>3. ASSUME NEW p \in Threads,
             AddToSiblings(p) \/ CountBucket(p) \/ RemoveFromSiblings(p) \/ RemoveFromBucket(p)
      PROVE  TypeOK'
  BY <1>3, AddToSiblingsType, CountBucketType, RemoveFromSiblingsType, RemoveFromBucketType, Zenon
<1>4. ASSUME NEW p \in Threads, ReadHigh(p) \/ ReadLow(p) \/ MergeSiblings(p) \/ Return(p) PROVE TypeOK'
  BY <1>4, ReadHighType, ReadLowType, MergeSiblingsType, ReturnType, Zenon
<1>5. CASE UNCHANGED vars
  BY <1>5, StutterType, Zenon
<1> QED
  BY <1>1, <1>2, <1>3, <1>4, <1>5, Zenon DEF Next

\* However calls interleave, no bucket and not the sibling list outgrows its size, the node is
\* never its own contact, and close_nodes and contacts_iter never index past the buckets.
THEOREM TypeCorrect == Spec => []TypeOK
BY InitType, StepType, PTL DEF Spec
-----------------------------------------------------------------------------
(* The siblings *)

LEMMA NearestInsert ==
    ASSUME TypeOK, NearestOffered, NEW p \in Threads, AddToSiblings(p)
    PROVE  NearestOffered'
<1> DEFINE H == held(siblings)
           z == op[p].id
           dist(x) == xor_distance(x, my_id)
<1> USE TypeParts
<1>1. /\ op[p] \in Contacts /\ z # my_id /\ z \in Ids
      /\ siblings' = insert_sibling(op[p]) /\ seen' = seen \union {z}
  BY Zenon DEF AddToSiblings, Local, Writing, Contacts
<1>2. H \subseteq Ids /\ IsFiniteSet(H) /\ Cardinality(H) \in Nat /\ H \subseteq seen /\ seen \subseteq Ids
  BY HeldFacts, Zenon DEF NearestOffered
<1>3. \A x, y \in Ids : dist(x) \in Nat /\ (farther(x, y) <=> dist(y) < dist(x)) /\ (dist(x) = dist(y) => x = y)
  BY IdAssumption, DistanceAssumption, DistanceFacts, Zenon DEF farther
<1>4. \A x \in seen \ H, y \in H : farther(x, y)
  BY Zenon DEF NearestOffered
<1>5. seen \ H # {} => Cardinality(H) = Siblings
  BY Zenon DEF NearestOffered
<1>6. CASE (z \in H \/ Cardinality(H) < Siblings) /\ held(siblings') = H \union {z}
  <2>1. CASE z \in H
    BY <1>1, <1>6, <2>1, Zenon DEF NearestOffered
  <2>2. CASE Cardinality(H) < Siblings
    <3>1. seen \ H = {}
      BY <1>2, <1>5, <2>2, SizeAssumption
    <3>2. seen' \ held(siblings') = {} /\ held(siblings') \subseteq seen'
      BY <1>1, <1>2, <1>6, <3>1, Zenon
    <3> QED  BY <3>2, Zenon DEF NearestOffered
  <2> QED  BY <1>6, <2>1, <2>2, Zenon
<1>7. ASSUME z \notin H, Cardinality(H) = Siblings, NEW last \in H, \A y \in H : ~farther(y, last),
             farther(z, last), siblings' = siblings
      PROVE  NearestOffered'
  <2>1. ASSUME NEW y \in H PROVE farther(z, y)
    <3>1. dist(y) \in Nat /\ dist(last) \in Nat /\ dist(z) \in Nat
      BY <1>1, <1>2, <1>3, Zenon
    <3>2. ~(dist(last) < dist(y)) /\ dist(last) < dist(z)
      BY <1>1, <1>2, <1>3, <1>7, Zenon
    <3>3. dist(y) < dist(z)
      BY <3>1, <3>2
    <3> QED  BY <1>1, <1>2, <1>3, <3>3, Zenon
  <2>2. \A x \in seen' \ held(siblings'), y \in held(siblings') : farther(x, y)
    BY <1>1, <1>4, <1>7, <2>1, Zenon
  <2> QED  BY <1>1, <1>2, <1>7, <2>2, Zenon DEF NearestOffered
<1>8. ASSUME z \notin H, Cardinality(H) = Siblings, NEW last \in H, \A y \in H : ~farther(y, last),
             ~farther(z, last), held(siblings') = (H \ {last}) \union {z}
      PROVE  NearestOffered'
  <2>1. held(siblings') \subseteq seen'
    BY <1>1, <1>2, <1>8, Zenon
  <2>2. Cardinality(held(siblings')) = Siblings
    <3>1. IsFiniteSet(H \ {last}) /\ Cardinality(H \ {last}) = Cardinality(H) - 1
      BY <1>2, FS_RemoveElement, Zenon
    <3>2. Cardinality((H \ {last}) \union {z}) = Cardinality(H \ {last}) + 1
      BY <1>8, <3>1, FS_AddElement, Zenon
    <3> QED  BY <1>2, <1>8, <3>1, <3>2
  <2>3. ASSUME NEW x \in (seen \ H) \union {last}, NEW y \in (H \ {last}) \union {z}, x # y
        PROVE  farther(x, y)
    <3>1. x \in Ids /\ y \in Ids /\ last \in Ids
      BY <1>1, <1>2, Zenon
    <3>2. dist(x) \in Nat /\ dist(y) \in Nat /\ dist(last) \in Nat
      BY <1>3, <3>1, Zenon
    <3>3. dist(last) <= dist(x)
      <4>1. CASE x = last
        BY <3>2, <4>1
      <4>2. CASE x # last
        BY <1>3, <1>4, <3>1, <3>2, <4>2
      <4> QED  BY <4>1, <4>2, Zenon
    <3>4. ~(dist(last) < dist(y))
      BY <1>1, <1>3, <1>8, <3>1, Zenon
    <3>5. dist(x) # dist(y)
      BY <1>3, <2>3, <3>1, Zenon
    <3>6. dist(y) < dist(x)
      BY <3>2, <3>3, <3>4, <3>5
    <3> QED  BY <1>3, <3>1, <3>6, Zenon
  <2>4. seen' \ held(siblings') \subseteq (seen \ H) \union {last}
    BY <1>1, <1>8, Zenon
  <2>5. \A x \in seen' \ held(siblings'), y \in held(siblings') : farther(x, y)
    BY <1>8, <2>3, <2>4, Zenon
  <2> QED  BY <2>1, <2>2, <2>5, Zenon DEF NearestOffered
<1> QED
  BY <1>1, <1>6, <1>7, <1>8, InsertCases, Zenon

LEMMA NearestStep == TypeOK /\ NearestOffered /\ [Next]_vars => NearestOffered'
<1> SUFFICES ASSUME TypeOK, NearestOffered, [Next]_vars PROVE NearestOffered'
  BY Zenon
<1>1. ASSUME NEW p \in Threads, RemoveFromSiblings(p) PROVE NearestOffered'
  <2>1. CASE siblings' = siblings /\ seen' = seen
    BY <2>1, Zenon DEF NearestOffered, held
  <2>2. CASE seen' = held(siblings')
    <3>1. seen' \ held(siblings') = {} /\ held(siblings') \subseteq seen'
      BY <2>2, Zenon
    <3> QED  BY <3>1, Zenon DEF NearestOffered
  <2> QED  BY <1>1, <2>1, <2>2, Zenon DEF RemoveFromSiblings
<1>2. CASE siblings' = siblings /\ seen' = seen
  BY <1>2, Zenon DEF NearestOffered, held
<1>3. (\E p \in Threads : AddToSiblings(p) \/ RemoveFromSiblings(p)) \/ (siblings' = siblings /\ seen' = seen)
  BY Zenon DEF Next, vars, AddToBucket, CountSiblings, CountBucket, RemoveFromBucket, ReadHome, ReadHigh, ReadLow, MergeSiblings, Return
<1> QED
  BY <1>1, <1>2, <1>3, NearestInsert, Zenon

\* The sibling list holds the nearest of all contacts offered since one was last removed, in
\* whatever order threads offer and remove them: insert_sibling never drops a nearer one.
THEOREM SiblingsAreNearest == Spec => []NearestOffered
<1>1. Init => NearestOffered
  BY Zenon DEF Init, NearestOffered, held
<1> QED
  BY <1>1, NearestStep, TypeCorrect, PTL DEF Spec
-----------------------------------------------------------------------------
(* The two layers *)

\* A step of the thread p.
ThreadStep(p) ==
    \/ \E c \in Contacts : AddToBucket(p, c) \/ CountSiblings(p, c)
    \/ \E t \in Ids : ReadHome(p, t)
    \/ AddToSiblings(p) \/ CountBucket(p) \/ RemoveFromSiblings(p) \/ RemoveFromBucket(p)
    \/ ReadHigh(p) \/ ReadLow(p) \/ MergeSiblings(p) \/ Return(p)

LEMMA StepOfThread == [Next]_vars => UNCHANGED vars \/ \E p \in Threads : ThreadStep(p)
BY Zenon DEF Next, ThreadStep

LEMMA OthersKeep ==
    ASSUME TypeOK, NEW p \in Threads, ThreadStep(p), NEW q \in Threads, q # p
    PROVE  pc'[q] = pc[q] /\ op'[q] = op[q] /\ low'[q] = low[q] /\ high'[q] = high[q] /\ out'[q] = out[q]
<1> USE TypeParts DEF LocalsOK, goto, return
<1>1. ASSUME NEW c \in Contacts, AddToBucket(p, c) \/ CountSiblings(p, c)
      PROVE  pc'[q] = pc[q] /\ op'[q] = op[q] /\ low'[q] = low[q] /\ high'[q] = high[q] /\ out'[q] = out[q]
  BY <1>1 DEF AddToBucket, CountSiblings
<1>2. ASSUME NEW t \in Ids, ReadHome(p, t)
      PROVE  pc'[q] = pc[q] /\ op'[q] = op[q] /\ low'[q] = low[q] /\ high'[q] = high[q] /\ out'[q] = out[q]
  BY <1>2, Zenon DEF ReadHome
<1>3. CASE AddToSiblings(p) \/ RemoveFromSiblings(p) \/ RemoveFromBucket(p) \/ Return(p)
  BY <1>3 DEF AddToSiblings, RemoveFromSiblings, RemoveFromBucket, Return
<1>4. CASE CountBucket(p)
  BY <1>4 DEF CountBucket
<1>5. CASE ReadHigh(p) \/ ReadLow(p) \/ MergeSiblings(p)
  BY <1>5 DEF ReadHigh, ReadLow, MergeSiblings
<1> QED
  BY <1>1, <1>2, <1>3, <1>4, <1>5, Zenon DEF ThreadStep

\* A call in the middle of a removal has taken its contact out of the siblings.
Removing == \A p \in Threads : pc[p] = "removing" => siblings[op[p].id] # op[p].address

\* The steps that write nothing.
LEMMA ReadOnly ==
    ASSUME TypeOK, NEW p \in Threads, ThreadStep(p),
           \A c \in Contacts : ~AddToBucket(p, c),
           ~AddToSiblings(p), ~RemoveFromSiblings(p), ~RemoveFromBucket(p)
    PROVE  /\ table' = table /\ siblings' = siblings /\ raced' = raced /\ seen' = seen
           /\ pc[p] \notin Writing /\ pc'[p] \notin Writing
<1> USE TypeParts DEF LocalsOK, goto, return, Writing
<1>1. ASSUME NEW c \in Contacts, CountSiblings(p, c)
      PROVE  /\ table' = table /\ siblings' = siblings /\ raced' = raced /\ seen' = seen
             /\ pc[p] \notin Writing /\ pc'[p] \notin Writing
  BY <1>1, Zenon DEF CountSiblings
<1>2. ASSUME NEW t \in Ids, ReadHome(p, t)
      PROVE  /\ table' = table /\ siblings' = siblings /\ raced' = raced /\ seen' = seen
             /\ pc[p] \notin Writing /\ pc'[p] \notin Writing
  BY <1>2, Zenon DEF ReadHome, widen
<1>3. CASE CountBucket(p)
  BY <1>3 DEF CountBucket
<1>4. CASE ReadHigh(p) \/ ReadLow(p) \/ MergeSiblings(p) \/ Return(p)
  BY <1>4 DEF ReadHigh, ReadLow, MergeSiblings, Return, widen
<1> QED
  BY <1>1, <1>2, <1>3, <1>4, Zenon DEF ThreadStep

LEMMA RemovingStep == TypeOK /\ Removing /\ [Next]_vars => Removing'
<1> SUFFICES ASSUME TypeOK, Removing, [Next]_vars PROVE Removing'
  BY Zenon
<1>1. CASE UNCHANGED vars
  BY <1>1, Zenon DEF Removing, vars
<1>2. ASSUME NEW p \in Threads, ThreadStep(p) PROVE Removing'
  <2> SUFFICES ASSUME NEW q \in Threads, pc'[q] = "removing" PROVE siblings'[op'[q].id] # op'[q].address
    BY Zenon DEF Removing
  <2>1. CASE RemoveFromSiblings(p)
    <3>1. q = p
      BY <1>2, <2>1, OthersKeep, Zenon DEF RemoveFromSiblings, unlocked
    <3>2. op[p] \in Contacts /\ op' = op
      BY <2>1, TypeParts, Zenon DEF RemoveFromSiblings, Local
    <3>3. op[p].id \in Ids /\ op[p].address # None
      BY <3>2, NoneAssumption, Zenon DEF Contacts
    <3>4. CASE siblings[op[p].id] = op[p].address
      <4>1. siblings' = [siblings EXCEPT ![op[p].id] = None]
        BY <2>1, <3>4, Zenon DEF RemoveFromSiblings
      <4>2. siblings'[op[p].id] = None
        BY <3>3, <4>1, TypeParts, Zenon DEF LayersOK
      <4> QED  BY <3>1, <3>2, <3>3, <4>2, Zenon
    <3>5. CASE siblings[op[p].id] # op[p].address
      BY <2>1, <3>1, <3>2, <3>5, Zenon DEF RemoveFromSiblings
    <3> QED  BY <3>4, <3>5, Zenon
  <2>2. CASE AddToSiblings(p)
    <3>1. pc'[p] = "idle"
      BY <2>2, TypeParts, Zenon DEF AddToSiblings, return, goto, LocalsOK
    <3> QED  BY <1>2, <2>2, <3>1, OthersKeep, Zenon DEF AddToSiblings, unlocked
  <2>3. ASSUME NEW c \in Contacts, AddToBucket(p, c)
        PROVE  siblings'[op'[q].id] # op'[q].address
    <3>1. pc'[p] = "add" /\ siblings' = siblings
      BY <2>3, TypeParts, Zenon DEF AddToBucket, goto, LocalsOK
    <3> QED  BY <1>2, <3>1, OthersKeep DEF Removing
  <2>4. CASE RemoveFromBucket(p)
    <3>1. pc'[p] = "idle" /\ siblings' = siblings
      BY <2>4, TypeParts, Zenon DEF RemoveFromBucket, return, goto, LocalsOK
    <3> QED  BY <1>2, <3>1, OthersKeep DEF Removing
  <2>5. CASE ~RemoveFromSiblings(p) /\ ~AddToSiblings(p) /\ ~RemoveFromBucket(p) /\ \A c \in Contacts : ~AddToBucket(p, c)
    <3>1. siblings' = siblings /\ pc'[p] \notin Writing
      BY <1>2, <2>5, ReadOnly, Zenon
    <3> QED  BY <1>2, <3>1, OthersKeep, Zenon DEF Removing, Writing
  <2> QED  BY <2>1, <2>2, <2>3, <2>4, <2>5, Zenon
<1> QED  BY <1>1, <1>2, StepOfThread, Zenon

LEMMA RemovingHolds == Spec => []Removing
<1>1. Init => Removing
  BY Zenon DEF Init, Removing
<1> QED  BY <1>1, RemovingStep, TypeCorrect, PTL DEF Spec

\* The removal that ends leaves the contact in neither layer.
LEMMA RemovalStep ==
    TypeOK /\ Removing /\ [Next]_vars =>
        \A p \in Threads : pc[p] = "removing" /\ pc'[p] = "idle" => op[p].address \notin {table'[op[p].id], siblings'[op[p].id]}
<1> SUFFICES ASSUME TypeOK, Removing, [Next]_vars, NEW p \in Threads, pc[p] = "removing", pc'[p] = "idle"
             PROVE  op[p].address \notin {table'[op[p].id], siblings'[op[p].id]}
  BY Zenon
<1>1. op[p] \in Contacts
  BY TypeParts, Zenon DEF Local, Writing
<1>2. op[p].id \in Ids /\ op[p].address # None
  BY <1>1, NoneAssumption, Zenon DEF Contacts
<1>3. RemoveFromBucket(p)
  <2>1. PICK q \in Threads : ThreadStep(q)
    BY StepOfThread, Zenon DEF vars
  <2>2. q = p
    BY <2>1, OthersKeep, Zenon
  <2> QED
    BY <2>1, <2>2, Zenon DEF ThreadStep, AddToBucket, CountSiblings, ReadHome, AddToSiblings, CountBucket,
        RemoveFromSiblings, ReadHigh, ReadLow, MergeSiblings, Return
<1>4. siblings'[op[p].id] # op[p].address
  BY <1>3, Zenon DEF RemoveFromBucket, Removing
<1>5. table'[op[p].id] # op[p].address
  BY <1>2, <1>3, TypeParts, Zenon DEF RemoveFromBucket, LayersOK
<1> QED  BY <1>4, <1>5, Zenon

\* remove_contact holds the sibling lock until the bucket is done, so no call can put the
\* contact back among the siblings in between: when it returns, neither layer has it.
THEOREM RemovalCompletes == Spec => RemovalIsComplete
<1>1. TypeOK /\ Removing /\ [Next]_vars => 
        [\A p \in Threads : pc[p] = "removing" /\ pc'[p] = "idle" =>
            op[p].address \notin {table'[op[p].id], siblings'[op[p].id]}]_vars
  BY RemovalStep, Zenon
<1> QED  BY <1>1, TypeCorrect, RemovingHolds, PTL DEF Spec, RemovalIsComplete

Writers == \A p \in Threads : pc[p] \in Writing /\ op[p].id \notin raced => Alone(p)

\* What Race records.
LEMMA RaceFacts ==
    ASSUME NEW p \in Threads, NEW x, Race(p, x)
    PROVE  /\ raced \subseteq raced'
           /\ \A q \in Threads \ {p} : pc[q] \in Writing /\ op[q].id = x => x \in raced'
BY Zenon DEF Race

\* What a write by p to x means for the calls that write another id.
LEMMA OtherWriters ==
    ASSUME TypeOK, Writers, NEW p \in Threads, ThreadStep(p), NEW x, raced \subseteq raced',
           NEW q \in Threads, q # p, pc'[q] \in Writing, op'[q].id \notin raced', op[q].id # x,
           \A y \in Ids \ {x} : table'[y] = table[y] /\ siblings'[y] \in {siblings[y], None},
           pc'[p] \in Writing => op'[p].id = x
    PROVE  Alone(q)'
<1>1. pc'[q] = pc[q] /\ op'[q] = op[q]
  BY OthersKeep, Zenon
<1>2. Alone(q)
  BY <1>1, Zenon DEF Writers
<1>3. op[q].id \in Ids \ {x}
  BY <1>1, TypeParts, Zenon DEF Local, Contacts
<1>4. ASSUME NEW r \in Threads \ {q} PROVE ~(pc'[r] \in Writing /\ op'[r].id = op[q].id)
  <2>1. CASE r = p
    BY <2>1, Zenon
  <2>2. CASE r # p
    BY <1>2, <2>2, OthersKeep DEF Alone
  <2> QED  BY <2>1, <2>2, Zenon
<1>5. table'[op[q].id] = table[op[q].id] /\ siblings'[op[q].id] \in {siblings[op[q].id], None}
  BY <1>3, Zenon
<1> QED  BY <1>1, <1>2, <1>4, <1>5, Zenon DEF Alone

\* The layers on an id that p did not write.
LEMMA OtherIdsAgree ==
    ASSUME TypeOK, LayersAgree, NEW p \in Threads, ThreadStep(p), NEW x, raced \subseteq raced',
           \A y \in Ids \ {x} : table'[y] = table[y] /\ siblings'[y] \in {siblings[y], None},
           pc[p] \in Writing => op[p].id = x,
           NEW z \in (held(table') \intersect held(siblings')) \ raced', z # x
    PROVE  table'[z] = siblings'[z] \/ \E q \in Threads : pc'[q] \in Writing /\ op'[q].id = z
<1>1. z \in Ids /\ table'[z] # None /\ siblings'[z] # None
  BY Zenon DEF held
<1>2. table'[z] = table[z] /\ siblings'[z] = siblings[z]
  BY <1>1, Zenon
<1>3. z \in (held(table) \intersect held(siblings)) \ raced
  BY <1>1, <1>2, Zenon DEF held
<1>4. CASE table[z] = siblings[z]
  BY <1>2, <1>4, Zenon
<1>5. ASSUME NEW q \in Threads, pc[q] \in Writing, op[q].id = z
      PROVE  \E r \in Threads : pc'[r] \in Writing /\ op'[r].id = z
  <2>1. q # p
    BY <1>5, Zenon
  <2>2. pc'[q] = pc[q] /\ op'[q] = op[q]
    BY <2>1, OthersKeep, Zenon
  <2> QED  BY <1>5, <2>2, Zenon
<1> QED  BY <1>3, <1>4, <1>5, Zenon DEF LayersAgree

LEMMA AddToBucketAgrees ==
    ASSUME TypeOK, Writers, LayersAgree, NEW p \in Threads, NEW c \in Contacts, AddToBucket(p, c)
    PROVE  Writers' /\ LayersAgree'
<1> USE TypeParts
<1>0. ThreadStep(p) /\ c.id \in Ids /\ c.address \in Addresses
  BY Zenon DEF ThreadStep, Contacts
<1>1. pc[p] = "idle" /\ pc'[p] = "add" /\ op'[p] = c
  BY Zenon DEF AddToBucket, goto, LocalsOK
<1>2. raced \subseteq raced' /\ \A q \in Threads \ {p} : pc[q] \in Writing /\ op[q].id = c.id => c.id \in raced'
  BY RaceFacts, Zenon DEF AddToBucket
<1>3. \A y \in Ids \ {c.id} : table'[y] = table[y] /\ siblings'[y] \in {siblings[y], None}
  BY Zenon DEF AddToBucket, LayersOK
<1>4. table'[c.id] \in {None, c.address}
  BY <1>0, Zenon DEF AddToBucket, LayersOK
<1>5. ASSUME NEW q \in Threads, pc'[q] \in Writing, op'[q].id \notin raced' PROVE Alone(q)'
  <2>1. CASE q = p
    <3>1. \A r \in Threads \ {p} : ~(pc'[r] \in Writing /\ op'[r].id = c.id)
      BY <1>0, <1>1, <1>2, <1>5, <2>1, OthersKeep
    <3> QED  BY <1>1, <1>4, <2>1, <3>1, Zenon DEF Alone
  <2>2. CASE q # p
    <3>1. pc'[q] = pc[q] /\ op'[q] = op[q]
      BY <1>0, <2>2, OthersKeep, Zenon
    <3>2. op[q].id # c.id
      BY <1>2, <1>5, <2>2, <3>1, Zenon
    <3> QED  BY <1>0, <1>1, <1>2, <1>3, <1>5, <2>2, <3>2, OtherWriters, Zenon
  <2> QED  BY <2>1, <2>2, Zenon
<1>6. pc[p] \notin Writing /\ pc'[p] \in Writing
  BY <1>1, Zenon DEF Writing
<1>7. ASSUME NEW z \in (held(table') \intersect held(siblings')) \ raced'
      PROVE  table'[z] = siblings'[z] \/ \E q \in Threads : pc'[q] \in Writing /\ op'[q].id = z
  <2>1. CASE z = c.id
    BY <1>1, <1>6, <2>1, Zenon
  <2>2. CASE z # c.id
    BY <1>0, <1>2, <1>3, <1>6, <2>2, OtherIdsAgree
  <2> QED  BY <2>1, <2>2, Zenon
<1> QED  BY <1>5, <1>7, Zenon DEF Writers, LayersAgree

LEMMA AddToSiblingsAgrees ==
    ASSUME TypeOK, Writers, LayersAgree, NEW p \in Threads, AddToSiblings(p)
    PROVE  Writers' /\ LayersAgree'
<1> USE TypeParts
<1> DEFINE x == op[p].id
<1>0. ThreadStep(p) /\ op[p] \in Contacts /\ x \in Ids /\ x # my_id /\ op[p].address \in Addresses
  BY Zenon DEF ThreadStep, AddToSiblings, Local, Writing, Contacts
<1>1. pc[p] = "add" /\ pc'[p] = "idle" /\ table' = table /\ raced' = raced /\ siblings' = insert_sibling(op[p])
  BY Zenon DEF AddToSiblings, return, goto, LocalsOK
<1>2. \A y \in Ids \ {x} : siblings'[y] \in {siblings[y], None}
  BY <1>0, <1>1, InsertCases, HeldFacts DEF LayersOK
<1>3. siblings'[x] \in {None, op[p].address}
  <2>1. siblings \in [Ids -> Addresses \union {None}] /\ \A y \in held(siblings) : y \in Ids
    BY Zenon DEF LayersOK, held
  <2>2. CASE siblings' = [siblings EXCEPT ![x] = op[p].address]
    BY <1>0, <2>1, <2>2, Zenon
  <2>3. CASE x \notin held(siblings) /\ siblings' = siblings
    BY <1>0, <2>3, Zenon DEF held
  <2>4. ASSUME NEW last \in held(siblings), siblings' = [siblings EXCEPT ![last] = None, ![x] = op[p].address]
        PROVE  siblings'[x] = op[p].address
    BY <1>0, <2>1, <2>4, Zenon
  <2> QED  BY <1>0, <1>1, <2>2, <2>3, <2>4, InsertCases, Zenon
<1>4. pc'[p] \notin Writing /\ pc[p] \in Writing
  BY <1>1, Zenon DEF Writing
<1>5. ASSUME NEW q \in Threads, pc'[q] \in Writing, op'[q].id \notin raced' PROVE Alone(q)'
  <2>1. q # p
    BY <1>4, <1>5, Zenon
  <2>2. pc'[q] = pc[q] /\ op'[q] = op[q]
    BY <1>0, <2>1, OthersKeep, Zenon
  <2>3. op[q].id # x
    BY <1>1, <1>4, <1>5, <2>1, <2>2, Zenon DEF Writers, Alone
  <2> QED  BY <1>0, <1>1, <1>2, <1>4, <1>5, <2>1, <2>3, OtherWriters, Zenon
<1>6. ASSUME NEW z \in (held(table') \intersect held(siblings')) \ raced'
      PROVE  table'[z] = siblings'[z] \/ \E q \in Threads : pc'[q] \in Writing /\ op'[q].id = z
  <2>1. CASE z = x
    <3>1. table[x] \in {None, op[p].address}
      BY <1>1, <1>4, <1>6, <2>1, Zenon DEF Writers, Alone
    <3> QED  BY <1>1, <1>3, <2>1, <3>1, Zenon DEF held
  <2>2. CASE z # x
    BY <1>0, <1>1, <1>2, <2>2, OtherIdsAgree
  <2> QED  BY <2>1, <2>2, Zenon
<1> QED  BY <1>5, <1>6, Zenon DEF Writers, LayersAgree

LEMMA RemoveFromSiblingsAgrees ==
    ASSUME TypeOK, Writers, LayersAgree, NEW p \in Threads, RemoveFromSiblings(p)
    PROVE  Writers' /\ LayersAgree'
<1> USE TypeParts
<1> DEFINE x == op[p].id
<1>0. ThreadStep(p) /\ op[p] \in Contacts /\ x \in Ids
  BY Zenon DEF ThreadStep, RemoveFromSiblings, Local, Contacts
<1>1. pc[p] = "remove" /\ pc'[p] = "removing" /\ table' = table /\ op' = op
  BY Zenon DEF RemoveFromSiblings, goto, LocalsOK
<1>2. raced \subseteq raced' /\ \A q \in Threads \ {p} : pc[q] \in Writing /\ op[q].id = x => x \in raced'
  BY RaceFacts, Zenon DEF RemoveFromSiblings
<1>3. \A y \in Ids : siblings'[y] \in {siblings[y], None}
  BY <1>0, Zenon DEF RemoveFromSiblings, LayersOK
<1>4. pc[p] \notin Writing /\ pc'[p] \in Writing
  BY <1>1, Zenon DEF Writing
<1>5. ASSUME NEW q \in Threads, pc'[q] \in Writing, op'[q].id \notin raced' PROVE Alone(q)'
  <2>1. CASE q = p
    <3>1. x \notin raced' /\ x \notin raced
      BY <1>1, <1>2, <1>5, <2>1, Zenon
    <3>2. \A r \in Threads : ~(pc[r] \in Writing /\ op[r].id = x)
      BY <1>2, <1>4, <3>1, Zenon
    <3>3. \A r \in Threads \ {p} : ~(pc'[r] \in Writing /\ op'[r].id = x)
      BY <1>0, <3>2, OthersKeep, Zenon
    <3>4. table[x] = None \/ siblings[x] = None \/ table[x] = siblings[x]
      BY <1>0, <3>1, <3>2, Zenon DEF LayersAgree, held
    <3> QED  BY <1>0, <1>1, <1>3, <2>1, <3>3, <3>4, Zenon DEF Alone
  <2>2. CASE q # p
    <3>1. pc'[q] = pc[q] /\ op'[q] = op[q]
      BY <1>0, <2>2, OthersKeep, Zenon
    <3>2. op[q].id # x
      BY <1>2, <1>5, <2>2, <3>1, Zenon
    <3> QED  BY <1>0, <1>1, <1>2, <1>3, <1>5, <2>2, <3>2, OtherWriters, Zenon
  <2> QED  BY <2>1, <2>2, Zenon
<1>6. ASSUME NEW z \in (held(table') \intersect held(siblings')) \ raced'
      PROVE  table'[z] = siblings'[z] \/ \E q \in Threads : pc'[q] \in Writing /\ op'[q].id = z
  <2>1. CASE z = x
    BY <1>1, <1>4, <2>1, Zenon
  <2>2. CASE z # x
    <3>1. \A y \in Ids \ {x} : table'[y] = table[y] /\ siblings'[y] \in {siblings[y], None}
      BY <1>1, <1>3, Zenon
    <3>2. (pc[p] \in Writing => op[p].id = x) /\ raced \subseteq raced' /\ ThreadStep(p)
      BY <1>0, <1>2, Zenon
    <3> HIDE DEF x
    <3> QED  BY <2>2, <3>1, <3>2, OtherIdsAgree
  <2> QED  BY <2>1, <2>2, Zenon
<1> QED  BY <1>5, <1>6, Zenon DEF Writers, LayersAgree

LEMMA RemoveFromBucketAgrees ==
    ASSUME TypeOK, Writers, LayersAgree, NEW p \in Threads, RemoveFromBucket(p)
    PROVE  Writers' /\ LayersAgree'
<1> USE TypeParts
<1> DEFINE x == op[p].id
<1>0. ThreadStep(p) /\ op[p] \in Contacts /\ x \in Ids
  BY Zenon DEF ThreadStep, RemoveFromBucket, Local, Writing, Contacts
<1>1. pc[p] = "removing" /\ pc'[p] = "idle" /\ siblings' = siblings /\ raced' = raced
  BY Zenon DEF RemoveFromBucket, return, goto, LocalsOK
<1>2. (\A y \in Ids \ {x} : table'[y] = table[y]) /\ table'[x] \in {table[x], None}
  BY <1>0, Zenon DEF RemoveFromBucket, LayersOK
<1>3. pc'[p] \notin Writing /\ pc[p] \in Writing
  BY <1>1, Zenon DEF Writing
<1>4. ASSUME NEW q \in Threads, pc'[q] \in Writing, op'[q].id \notin raced' PROVE Alone(q)'
  <2>1. q # p
    BY <1>3, <1>4, Zenon
  <2>2. pc'[q] = pc[q] /\ op'[q] = op[q]
    BY <1>0, <2>1, OthersKeep, Zenon
  <2>3. op[q].id # x
    BY <1>1, <1>3, <1>4, <2>1, <2>2, Zenon DEF Writers, Alone
  <2> QED  BY <1>0, <1>1, <1>2, <1>3, <1>4, <2>1, <2>3, OtherWriters, Zenon
<1>5. ASSUME NEW z \in (held(table') \intersect held(siblings')) \ raced'
      PROVE  table'[z] = siblings'[z] \/ \E q \in Threads : pc'[q] \in Writing /\ op'[q].id = z
  <2>1. CASE z = x
    <3>1. table[x] = None \/ siblings[x] = None \/ table[x] = siblings[x]
      BY <1>1, <1>3, <1>5, <2>1, Zenon DEF Writers, Alone
    <3> QED  BY <1>1, <1>2, <2>1, <3>1, Zenon DEF held
  <2>2. CASE z # x
    BY <1>0, <1>1, <1>2, <2>2, OtherIdsAgree
  <2> QED  BY <2>1, <2>2, Zenon
<1> QED  BY <1>4, <1>5, Zenon DEF Writers, LayersAgree

LEMMA AgreeStep == TypeOK /\ Writers /\ LayersAgree /\ [Next]_vars => Writers' /\ LayersAgree'
<1> SUFFICES ASSUME TypeOK, Writers, LayersAgree, [Next]_vars PROVE Writers' /\ LayersAgree'
  BY Zenon
<1>1. CASE UNCHANGED vars
  BY <1>1 DEF vars, Writers, Alone, LayersAgree, held
<1>2. ASSUME NEW p \in Threads, ThreadStep(p),
             \A c \in Contacts : ~AddToBucket(p, c), ~AddToSiblings(p), ~RemoveFromSiblings(p), ~RemoveFromBucket(p)
      PROVE  Writers' /\ LayersAgree'
  <2>1. /\ table' = table /\ siblings' = siblings /\ raced' = raced
        /\ pc[p] \notin Writing /\ pc'[p] \notin Writing
    BY <1>2, ReadOnly, Zenon
  <2>2. \A q \in Threads : /\ pc'[q] \in Writing <=> pc[q] \in Writing
                           /\ pc[q] \in Writing => pc'[q] = pc[q] /\ op'[q] = op[q]
    BY <1>2, <2>1, OthersKeep, Zenon
  <2>3. ASSUME NEW q \in Threads, pc'[q] \in Writing, op'[q].id \notin raced' PROVE Alone(q)'
    <3>1. pc[q] \in Writing /\ pc'[q] = pc[q] /\ op'[q] = op[q] /\ Alone(q)
      BY <2>1, <2>2, <2>3, Zenon DEF Writers
    <3> QED  BY <2>1, <2>2, <3>1, Zenon DEF Alone
  <2>4. LayersAgree'
    BY <2>1, <2>2 DEF LayersAgree, held
  <2> QED  BY <2>3, <2>4, Zenon DEF Writers
<1> QED
  BY <1>1, <1>2, StepOfThread, AddToBucketAgrees, AddToSiblingsAgrees, RemoveFromSiblingsAgrees, RemoveFromBucketAgrees, Zenon

LEMMA AgreeHolds == Spec => [](Writers /\ LayersAgree)
<1>1. Init => Writers /\ LayersAgree
  BY Zenon DEF Init, Writers, LayersAgree, held, Writing
<1> QED
  BY <1>1, AgreeStep, TypeCorrect, PTL DEF Spec

\* A bucket and the siblings never disagree for good on the address of a contact, unless two
\* calls wrote it at the same time.
THEOREM LayersStayTogether == Spec => []LayersAgree
BY AgreeHolds, PTL
-----------------------------------------------------------------------------
(* The n nearest of a set of contacts *)

Distinct(S) == \A c, d \in S : c.id = d.id => c = d

nearer(S, t, c) == {d \in S : xor_distance(d.id, t) < xor_distance(c.id, t)}

LEMMA DistinctFinite ==
    ASSUME NEW S \in SUBSET Contacts, Distinct(S)
    PROVE  IsFiniteSet(S) /\ Cardinality(S) \in Nat
<1> DEFINE f == [c \in S |-> c.id]
<1>1. f \in Injection(S, Ids)
  BY Zenon DEF Injection, IsInjective, Distinct, Contacts
<1>2. IsFiniteSet(S)
  BY <1>1, FS_Injection, IdAssumption, Zenon
<1> QED  BY <1>2, FS_CardinalityType, Zenon

LEMMA ContactDistance ==
    ASSUME NEW c \in Contacts, NEW t \in Ids
    PROVE  xor_distance(c.id, t) \in Nat /\ c.id \in Ids
BY DistanceFacts, Zenon DEF Contacts

LEMMA NearestContact ==
    ASSUME NEW S \in SUBSET Contacts, S # {}, NEW t \in Ids
    PROVE  /\ \E c \in S : \A d \in S : xor_distance(c.id, t) <= xor_distance(d.id, t)
           /\ \E c \in S : \A d \in S : xor_distance(d.id, t) <= xor_distance(c.id, t)
<1> DEFINE I == {c.id : c \in S}
<1>1. I \in SUBSET Ids /\ I # {}
  BY Zenon DEF Contacts
<1>2. PICK x \in I : \A y \in I : xor_distance(x, t) <= xor_distance(y, t)
  BY <1>1, NearestId, Zenon
<1>3. PICK z \in I : \A y \in I : xor_distance(y, t) <= xor_distance(z, t)
  BY <1>1, FarthestId, Zenon
<1> QED  BY <1>2, <1>3, Zenon

\* Whoever is left out is farther than all that are taken, and n or more are taken.
LEMMA LeftOut ==
    ASSUME NEW S \in SUBSET Contacts, IsFiniteSet(S), NEW t \in Ids, NEW n \in Nat,
           NEW c \in S, c \notin nearest(S, t, n)
    PROVE  /\ Cardinality(nearest(S, t, n)) >= n
           /\ \A d \in nearest(S, t, n) : xor_distance(d.id, t) < xor_distance(c.id, t)
<1> DEFINE N == nearest(S, t, n)
           dist(d) == xor_distance(d.id, t)
<1>1. \A d \in S : IsFiniteSet(nearer(S, t, d)) /\ Cardinality(nearer(S, t, d)) \in Nat /\ nearer(S, t, d) \subseteq S
  BY SubsetFacts, Zenon DEF nearer
<1>2. \A d \in S : dist(d) \in Nat
  BY ContactDistance, Zenon
<1>3. \A d : d \in N <=> d \in S /\ Cardinality(nearer(S, t, d)) < n
  BY Zenon DEF nearest, nearer
<1>4. N \subseteq S /\ IsFiniteSet(N) /\ Cardinality(N) \in Nat
  BY <1>3, SubsetFacts, Zenon
<1>5. ASSUME NEW d \in N PROVE dist(d) < dist(c)
  <2> SUFFICES ASSUME ~(dist(d) < dist(c)) PROVE FALSE
    BY Zenon
  <2>1. d \in S /\ dist(d) \in Nat /\ dist(c) \in Nat
    BY <1>2, <1>4, Zenon
  <2>2. \A e \in S : dist(e) < dist(c) => dist(e) < dist(d)
    BY <1>2, <2>1
  <2>3. nearer(S, t, c) \subseteq nearer(S, t, d)
    BY <2>2, Zenon DEF nearer
  <2>4. Cardinality(nearer(S, t, c)) <= Cardinality(nearer(S, t, d))
    BY <1>1, <2>1, <2>3, SubsetFacts, Zenon
  <2>5. Cardinality(nearer(S, t, d)) < n /\ ~(Cardinality(nearer(S, t, c)) < n)
    BY <1>3, Zenon
  <2> QED  BY <1>1, <2>1, <2>4, <2>5
<1>6. Cardinality(N) >= n
  <2>1. PICK x \in S \ N : \A d \in S \ N : dist(x) <= dist(d)
    <3>1. S \ N \in SUBSET Contacts /\ S \ N # {}
      BY Zenon
    <3> QED  BY <3>1, NearestContact, Zenon
  <2>2. nearer(S, t, x) \subseteq N
    <3>1. \A d \in S : dist(d) < dist(x) => d \in N
      BY <1>2, <2>1
    <3> QED  BY <3>1, Zenon DEF nearer
  <2>3. Cardinality(nearer(S, t, x)) <= Cardinality(N)
    BY <1>4, <2>2, SubsetFacts, Zenon
  <2>4. ~(Cardinality(nearer(S, t, x)) < n)
    BY <1>3, <2>1, Zenon
  <2> QED  BY <1>1, <1>4, <2>1, <2>3, <2>4
<1> QED  BY <1>5, <1>6, Zenon

\* No more than n are taken: no two contacts are at the same distance.
LEMMA TakesAtMost ==
    ASSUME NEW S \in SUBSET Contacts, Distinct(S), NEW t \in Ids, NEW n \in Nat
    PROVE  Cardinality(nearest(S, t, n)) <= n
<1> DEFINE N == nearest(S, t, n)
           dist(d) == xor_distance(d.id, t)
<1>1. IsFiniteSet(S) /\ N \subseteq S
  BY DistinctFinite, Zenon DEF nearest
<1>2. CASE N = {}
  BY <1>2, FS_EmptySet
<1>3. CASE N # {}
  <2>1. PICK x \in N : \A d \in N : dist(d) <= dist(x)
    BY <1>1, <1>3, NearestContact, Zenon
  <2>2. ASSUME NEW d \in N, d # x PROVE dist(d) < dist(x)
    <3>1. d \in Contacts /\ x \in Contacts /\ d.id # x.id
      BY <1>1, <2>2, Zenon DEF Distinct
    <3>2. d.id \in Ids /\ x.id \in Ids /\ dist(d) \in Nat /\ dist(x) \in Nat
      BY <3>1, ContactDistance, Zenon
    <3>3. dist(d) # dist(x)
      BY <3>1, <3>2, DistanceAssumption, Zenon
    <3> QED  BY <2>1, <3>2, <3>3
  <2>3. N \subseteq nearer(S, t, x) \union {x}
    BY <1>1, <2>2, Zenon DEF nearer
  <2>4. IsFiniteSet(nearer(S, t, x)) /\ Cardinality(nearer(S, t, x)) \in Nat
    BY <1>1, SubsetFacts, Zenon DEF nearer
  <2>5. Cardinality(nearer(S, t, x)) < n
    BY <2>1, Zenon DEF nearest, nearer
  <2>6. x \notin nearer(S, t, x)
    <3>1. ~(dist(x) < dist(x))
      BY <1>1, <2>1, ContactDistance
    <3> QED  BY <3>1, Zenon DEF nearer
  <2>7. IsFiniteSet(nearer(S, t, x) \union {x}) /\ Cardinality(nearer(S, t, x) \union {x}) = Cardinality(nearer(S, t, x)) + 1
    BY <2>4, <2>6, FS_AddElement, Zenon
  <2>8. Cardinality(N) \in Nat /\ Cardinality(N) <= Cardinality(nearer(S, t, x) \union {x})
    BY <2>3, <2>7, SubsetFacts, Zenon
  <2> QED  BY <2>4, <2>5, <2>7, <2>8
<1> QED  BY <1>2, <1>3, Zenon

\* n contacts or more give exactly n.
LEMMA TakesEnough ==
    ASSUME NEW S \in SUBSET Contacts, Distinct(S), NEW t \in Ids, NEW n \in Nat, Cardinality(S) >= n
    PROVE  Cardinality(nearest(S, t, n)) = n
<1> DEFINE N == nearest(S, t, n)
<1>1. IsFiniteSet(S) /\ Cardinality(S) \in Nat /\ N \subseteq S
  BY DistinctFinite, Zenon DEF nearest
<1>2. Cardinality(N) \in Nat /\ Cardinality(N) <= n
  BY <1>1, SubsetFacts, TakesAtMost, Zenon
<1>3. CASE N = S
  BY <1>1, <1>2, <1>3
<1>4. CASE N # S
  <2>1. PICK c \in S : c \notin N
    BY <1>1, <1>4, Zenon
  <2>2. Cardinality(N) >= n
    BY <1>1, <2>1, LeftOut, Zenon
  <2> QED  BY <1>2, <2>2
<1> QED  BY <1>3, <1>4, Zenon
-----------------------------------------------------------------------------
(* close_nodes *)

SteadyOK ==
    /\ steady \in [Threads -> [table : SUBSET Ids, siblings : SUBSET Ids]]
    /\ \A p \in Threads : steady[p].table \subseteq held(table) /\ steady[p].siblings \subseteq held(siblings)

Gathers == \A p \in Threads : pc[p] \in Querying \ {"answered"} => Gathering(p)

\* A write only takes from the history of a query.
LEMMA ObserveFacts ==
    ASSUME SteadyOK, Observe
    PROVE  /\ SteadyOK'
           /\ \A q \in Threads : steady'[q].table \subseteq steady[q].table /\ steady'[q].siblings \subseteq steady[q].siblings
BY Zenon DEF SteadyOK, Observe, held

LEMMA SteadyStep ==
    ASSUME TypeOK, SteadyOK, NEW p \in Threads, ThreadStep(p)
    PROVE  /\ SteadyOK'
           /\ \A q \in Threads \ {p} : steady'[q].table \subseteq steady[q].table /\ steady'[q].siblings \subseteq steady[q].siblings
<1>1. CASE Observe
  BY <1>1, ObserveFacts, Zenon
<1>2. CASE UNCHANGED <<table, siblings, steady>>
  BY <1>2, Zenon DEF SteadyOK, held
<1>3. ASSUME NEW t \in Ids, ReadHome(p, t)
      PROVE  /\ SteadyOK'
             /\ \A q \in Threads \ {p} : steady'[q].table \subseteq steady[q].table /\ steady'[q].siblings \subseteq steady[q].siblings
  BY <1>3, HeldFacts, Zenon DEF ReadHome, SteadyOK
<1>4. CASE Return(p)
  BY <1>4, HeldFacts, Zenon DEF Return, SteadyOK
<1> QED
  BY <1>1, <1>2, <1>3, <1>4, Zenon DEF ThreadStep, AddToBucket, CountSiblings, AddToSiblings, CountBucket,
      RemoveFromSiblings, RemoveFromBucket, ReadHigh, ReadLow, MergeSiblings

\* What reading a bucket yields.
LEMMA BucketContacts ==
    ASSUME TypeOK, NEW i
    PROVE  /\ contacts(table, bucket(i)) \in SUBSET Contacts
           /\ Distinct(contacts(table, bucket(i)))
           /\ \A c \in contacts(table, bucket(i)) : bucket_index(c.id) = i
           /\ \A x \in held(table) : bucket_index(x) = i => \E c \in contacts(table, bucket(i)) : c.id = x
<1>1. contacts(table, bucket(i)) \in SUBSET Contacts
  BY TypeParts, BucketFacts, ContactsType, Zenon DEF LayersOK
<1>2. Distinct(contacts(table, bucket(i)))
  BY DEF Distinct, contacts
<1>3. \A c \in contacts(table, bucket(i)) : bucket_index(c.id) = i
  BY DEF contacts, bucket
<1>4. ASSUME NEW x \in held(table), bucket_index(x) = i
      PROVE  \E c \in contacts(table, bucket(i)) : c.id = x
  <2>1. [id |-> x, address |-> table[x]] \in contacts(table, bucket(i))
    BY <1>4, Zenon DEF contacts, bucket
  <2> QED  BY <2>1, Zenon
<1> QED  BY <1>1, <1>2, <1>3, <1>4, Zenon

\* A query goes on from the buckets lo..hi to those from newlo to newhi, one more, b.
LEMMA OneMoreBucket ==
    ASSUME TypeOK, SteadyOK, NEW p \in Threads, Gathering(p), steady' = steady,
           NEW b \in Int, low[p] \in Int, high[p] \in Int, low'[p] \in Int, high'[p] \in Int,
           b \notin low[p] .. high[p], low'[p] <= high'[p],
           \A i \in Int : i \in low'[p] .. high'[p] <=> i \in low[p] .. high[p] \/ i = b,
           \A x \in Ids : bucket_index(x) \in Int,
           out'[p] = out[p] \union contacts(table, bucket(b)),
           pc'[p] = "siblings" => Cardinality(out'[p]) >= K \/ (low'[p] = 0 /\ high'[p] + 1 = MaxBuckets)
    PROVE  Gathering(p)'
<1> DEFINE new == contacts(table, bucket(b))
<1>1. /\ \A c \in new : c.id \in Ids /\ bucket_index(c.id) = b
      /\ \A c, d \in new : c.id = d.id => c = d
      /\ \A x \in held(table) : bucket_index(x) = b => \E c \in new : c.id = x
  BY BucketContacts DEF Distinct, Contacts
<1>2. \A c \in out[p] : c.id \in Ids /\ bucket_index(c.id) \in low[p] .. high[p]
  BY TypeParts DEF LocalsOK, Contacts, Gathering
<1>3. steady[p].table \subseteq Ids /\ steady[p].table \subseteq held(table)
  BY Zenon DEF SteadyOK
<1> HIDE DEF new
<1>4. \A c \in out'[p] : bucket_index(c.id) \in low'[p] .. high'[p]
  BY <1>1, <1>2, Zenon DEF new
<1>5. ASSUME NEW c \in out'[p], NEW d \in out'[p], c.id = d.id PROVE c = d
  <2>1. c \in out[p] \union new /\ d \in out[p] \union new
    BY Zenon DEF new
  <2>2. CASE c \in out[p] /\ d \in out[p]
    BY <1>5, <2>2, Zenon DEF Gathering
  <2>3. CASE c \in new /\ d \in new
    BY <1>1, <1>5, <2>3, Zenon
  <2>4. CASE ~(c \in out[p] /\ d \in out[p]) /\ ~(c \in new /\ d \in new)
    BY <1>1, <1>2, <1>5, <2>1, <2>4
  <2> QED  BY <2>2, <2>3, <2>4, Zenon
<1>6. ASSUME NEW x \in steady[p].table, bucket_index(x) \in low'[p] .. high'[p]
      PROVE  \E c \in out'[p] : c.id = x
  <2>1. x \in Ids /\ x \in held(table) /\ bucket_index(x) \in Int
    BY <1>3, Zenon
  <2>2. bucket_index(x) \in low[p] .. high[p] \/ bucket_index(x) = b
    BY <1>6, <2>1, Zenon
  <2>3. CASE bucket_index(x) \in low[p] .. high[p]
    BY <2>3, Zenon DEF Gathering
  <2>4. CASE bucket_index(x) = b
    BY <1>1, <2>1, <2>4, Zenon DEF new
  <2> QED  BY <2>2, <2>3, <2>4, Zenon
<1> QED
  BY <1>4, <1>5, <1>6, Zenon DEF Gathering

LEMMA IndexInt == \A x \in Ids : bucket_index(x) \in Int /\ bucket_index(x) \in 0 .. MaxBuckets - 1
BY IndexType

LEMMA ReadHomeGathers ==
    ASSUME TypeOK, SteadyOK, NEW p \in Threads, NEW t \in Ids, ReadHome(p, t)
    PROVE  Gathering(p)'
<1> DEFINE home == bucket_index(t)
           S == contacts(table, bucket(home))
<1> USE TypeParts
<1>1. low'[p] = home /\ high'[p] = home /\ out'[p] = S /\ pc'[p] = widen(Cardinality(S), home, home)
  BY Zenon DEF ReadHome, goto, LocalsOK
<1>2. steady'[p].table = held(table)
  BY Zenon DEF ReadHome, SteadyOK
<1>3. home \in Int /\ home \in 0 .. MaxBuckets - 1 /\ \A i \in Int : i \in home .. home <=> i = home
  BY IndexInt
<1>4. /\ \A c \in S : c.id \in Ids /\ bucket_index(c.id) = home
      /\ \A c, d \in S : c.id = d.id => c = d
      /\ \A x \in held(table) : bucket_index(x) = home => \E c \in S : c.id = x
  BY BucketContacts DEF Distinct, Contacts
<1>5. pc'[p] = "siblings" => Cardinality(S) >= K \/ (home = 0 /\ home + 1 = MaxBuckets)
  BY <1>1, <1>3, WidenFacts, Zenon
<1> HIDE DEF home, S
<1>6. \A x \in held(table) : bucket_index(x) \in Int
  BY IndexInt, HeldFacts, Zenon
<1> QED
  BY <1>1, <1>2, <1>3, <1>4, <1>5, <1>6 DEF Gathering

LEMMA ReadHighGathers ==
    ASSUME TypeOK, SteadyOK, Gathers, NEW p \in Threads, ReadHigh(p)
    PROVE  Gathering(p)'
<1> USE TypeParts
<1>1. Gathering(p) /\ steady' = steady
  BY Zenon DEF Gathers, ReadHigh, Querying
<1>2. /\ low[p] \in 0 .. MaxBuckets - 1 /\ high[p] \in 0 .. MaxBuckets - 1
      /\ low'[p] = low[p] /\ high'[p] = high[p] + 1 /\ high[p] + 1 < MaxBuckets
      /\ out'[p] = out[p] \union contacts(table, bucket(high[p] + 1))
  BY Zenon DEF ReadHigh, LocalsOK, Local
<1>3. pc'[p] = IF low[p] > 0 THEN "low" ELSE widen(Cardinality(out'[p]), low[p], high'[p])
  BY Zenon DEF ReadHigh, goto, LocalsOK
<1>4. low[p] \in Int /\ high[p] \in Int /\ low'[p] \in Int /\ high'[p] \in Int /\ low[p] <= high[p] /\ low'[p] <= high'[p]
  <2>1. low[p] <= high[p]
    BY <1>1, Zenon DEF Gathering
  <2> QED
    BY <1>2, <2>1, SizeAssumption
<1>5. high[p] + 1 \in Int /\ high[p] + 1 \notin low[p] .. high[p]
  BY <1>4
<1>6. \A i \in Int : i \in low'[p] .. high'[p] <=> i \in low[p] .. high[p] \/ i = high[p] + 1
  BY <1>2, <1>4
<1>7. pc'[p] = "siblings" => Cardinality(out'[p]) >= K \/ (low'[p] = 0 /\ high'[p] + 1 = MaxBuckets)
  BY <1>2, <1>3, WidenFacts, SizeAssumption
<1> QED
  BY <1>1, <1>2, <1>4, <1>5, <1>6, <1>7, IndexInt, OneMoreBucket, Zenon

LEMMA ReadLowGathers ==
    ASSUME TypeOK, SteadyOK, Gathers, NEW p \in Threads, ReadLow(p)
    PROVE  Gathering(p)'
<1> USE TypeParts
<1>1. Gathering(p) /\ steady' = steady
  BY Zenon DEF Gathers, ReadLow, Querying
<1>2. /\ low[p] \in 0 .. MaxBuckets - 1 /\ high[p] \in 0 .. MaxBuckets - 1
      /\ low'[p] = low[p] - 1 /\ high'[p] = high[p] /\ low[p] > 0
      /\ out'[p] = out[p] \union contacts(table, bucket(low[p] - 1))
  BY Zenon DEF ReadLow, LocalsOK, Local
<1>3. pc'[p] = widen(Cardinality(out'[p]), low'[p], high[p])
  BY Zenon DEF ReadLow, goto, LocalsOK
<1>4. low[p] \in Int /\ high[p] \in Int /\ low'[p] \in Int /\ high'[p] \in Int /\ low[p] <= high[p] /\ low'[p] <= high'[p]
  <2>1. low[p] <= high[p]
    BY <1>1, Zenon DEF Gathering
  <2> QED
    BY <1>2, <2>1, SizeAssumption
<1>5. low[p] - 1 \in Int /\ low[p] - 1 \notin low[p] .. high[p]
  BY <1>4
<1>6. \A i \in Int : i \in low'[p] .. high'[p] <=> i \in low[p] .. high[p] \/ i = low[p] - 1
  BY <1>2, <1>4
<1>7. pc'[p] = "siblings" => Cardinality(out'[p]) >= K \/ (low'[p] = 0 /\ high'[p] + 1 = MaxBuckets)
  BY <1>2, <1>3, WidenFacts, SizeAssumption
<1> QED
  BY <1>1, <1>2, <1>4, <1>5, <1>6, <1>7, IndexInt, OneMoreBucket, Zenon

\* Only the reads of buckets leave a call gathering.
LEMMA GathersStep ==
    ASSUME TypeOK, SteadyOK, Gathers, NEW p \in Threads, ThreadStep(p)
    PROVE  Gathers'
<1> SUFFICES ASSUME NEW q \in Threads, pc'[q] \in Querying \ {"answered"} PROVE Gathering(q)'
  BY Zenon DEF Gathers
<1>1. CASE q # p
  <2>1. pc'[q] = pc[q] /\ low'[q] = low[q] /\ high'[q] = high[q] /\ out'[q] = out[q]
    BY <1>1, OthersKeep, Zenon
  <2>2. steady'[q].table \subseteq steady[q].table
    BY <1>1, SteadyStep, Zenon
  <2>3. Gathering(q)
    BY <2>1, Zenon DEF Gathers
  <2> QED  BY <2>1, <2>2, <2>3, Zenon DEF Gathering
<1>2. CASE q = p
  <2>1. (\E t \in Ids : ReadHome(p, t)) \/ ReadHigh(p) \/ ReadLow(p)
    <3>1. ASSUME NEW c \in Contacts, AddToBucket(p, c) \/ CountSiblings(p, c) PROVE pc'[p] \notin Querying
      BY <3>1, TypeParts, Zenon DEF AddToBucket, CountSiblings, goto, LocalsOK, Querying
    <3>2. CASE CountBucket(p)
      BY <1>2, <3>2, TypeParts DEF CountBucket, return, goto, LocalsOK, Querying
    <3>3. CASE AddToSiblings(p) \/ RemoveFromSiblings(p) \/ RemoveFromBucket(p) \/ Return(p) \/ MergeSiblings(p)
      BY <1>2, <3>3, TypeParts, Zenon
      DEF AddToSiblings, RemoveFromSiblings, RemoveFromBucket, Return, MergeSiblings, return, goto, LocalsOK, Querying
    <3> QED  BY <1>2, <3>1, <3>2, <3>3, Zenon DEF ThreadStep
  <2> QED  BY <1>2, <2>1, ReadHomeGathers, ReadHighGathers, ReadLowGathers, Zenon
<1> QED  BY <1>1, <1>2, Zenon

\* The answer is made of what was gathered and of the siblings: the heart of close_nodes.
LEMMA MergeAnswers ==
    ASSUME TypeOK, NEW S \in SUBSET Contacts, Distinct(S), NEW t \in Ids
    PROVE  LET best == nearest(S, t, K)
               merged == best \union {c \in contacts(siblings, held(siblings)) : \A d \in best : d.id # c.id}
               answer == nearest(merged, t, K)
           IN  /\ Cardinality(S) >= K => Cardinality(answer) = K
               /\ \A x \in held(siblings) \union {c.id : c \in S} :
                    \/ \E c \in answer : c.id = x
                    \/ /\ Cardinality(answer) = K
                       /\ \A c \in answer : xor_distance(c.id, t) < xor_distance(x, t)
<1> DEFINE best == nearest(S, t, K)
           sibs == contacts(siblings, held(siblings))
           merged == best \union {c \in sibs : \A d \in best : d.id # c.id}
           answer == nearest(merged, t, K)
           dist(c) == xor_distance(c.id, t)
<1>1. K \in Nat /\ IsFiniteSet(S) /\ Cardinality(S) \in Nat
  BY SizeAssumption, DistinctFinite, Zenon
<1>2. best \subseteq S
  BY Zenon DEF nearest
<1>3. sibs \in SUBSET Contacts /\ Distinct(sibs) /\ \A x \in held(siblings) : \E c \in sibs : c.id = x
  <2>1. sibs \in SUBSET Contacts
    BY TypeParts, ContactsType, Zenon DEF LayersOK
  <2>2. Distinct(sibs)
    BY DEF Distinct, contacts
  <2>3. ASSUME NEW x \in held(siblings) PROVE \E c \in sibs : c.id = x
    <3>1. [id |-> x, address |-> siblings[x]] \in sibs
      BY Zenon DEF contacts
    <3> QED  BY <3>1, Zenon
  <2> QED  BY <2>1, <2>2, <2>3, Zenon
<1> HIDE DEF sibs
<1>4. merged \in SUBSET Contacts /\ Distinct(merged)
  BY <1>2, <1>3, Zenon DEF Distinct
<1>5. IsFiniteSet(merged) /\ Cardinality(merged) \in Nat
  BY <1>4, DistinctFinite, Zenon
<1>6. answer \subseteq merged /\ best \subseteq merged
  BY Zenon DEF nearest
<1> HIDE DEF merged
<1>7. Cardinality(best) \in Nat /\ Cardinality(best) <= Cardinality(merged) /\ IsFiniteSet(best)
  BY <1>5, <1>6, SubsetFacts, Zenon
<1>8. Cardinality(best) = K => Cardinality(answer) = K
  BY <1>1, <1>4, <1>5, <1>7, TakesEnough
<1>9. Cardinality(S) >= K => Cardinality(best) = K
  BY <1>1, TakesEnough, Zenon
<1>10. ASSUME NEW m \in merged, m \notin answer
       PROVE  Cardinality(answer) = K /\ \A c \in answer : dist(c) < dist(m)
  <2>1. Cardinality(answer) >= K /\ \A c \in answer : dist(c) < dist(m)
    BY <1>1, <1>4, <1>5, <1>10, LeftOut, Zenon
  <2>2. Cardinality(answer) <= K /\ Cardinality(answer) \in Nat
    BY <1>1, <1>4, <1>5, <1>6, TakesAtMost, SubsetFacts
  <2> QED  BY <1>1, <2>1, <2>2
<1>11. ASSUME NEW m \in S, m \notin best, \A c \in answer : c.id # m.id
       PROVE  Cardinality(answer) = K /\ \A c \in answer : dist(c) < dist(m)
  <2>1. Cardinality(best) >= K /\ \A d \in best : dist(d) < dist(m)
    BY <1>1, <1>11, LeftOut, Zenon
  <2>2. Cardinality(best) <= K
    BY <1>1, TakesAtMost, Zenon
  <2>3. Cardinality(answer) = K
    BY <1>1, <1>7, <1>8, <2>1, <2>2
  <2>4. ASSUME NEW c \in answer, ~(dist(c) < dist(m)) PROVE FALSE
    <3>1. c \in Contacts /\ m \in Contacts /\ c \in merged
      BY <1>4, <1>6, Zenon
    <3>2. dist(c) \in Nat /\ dist(m) \in Nat /\ \A d \in best : dist(d) \in Nat
      BY <1>2, <3>1, ContactDistance, Zenon
    <3>3. best \subseteq nearer(merged, t, c)
      <4>1. \A d \in best : dist(d) < dist(c)
        BY <2>1, <2>4, <3>2
      <4> QED  BY <1>6, <4>1, Zenon DEF nearer
    <3>4. IsFiniteSet(nearer(merged, t, c)) /\ Cardinality(nearer(merged, t, c)) \in Nat
      BY <1>5, SubsetFacts, Zenon DEF nearer
    <3>5. Cardinality(best) <= Cardinality(nearer(merged, t, c))
      BY <3>3, <3>4, SubsetFacts, Zenon
    <3>6. Cardinality(nearer(merged, t, c)) < K
      BY Zenon DEF nearest, nearer
    <3> QED  BY <1>1, <1>7, <2>1, <3>4, <3>5, <3>6
  <2> QED  BY <2>3, <2>4, Zenon
<1>12. ASSUME NEW x \in held(siblings), \A c \in answer : c.id # x
       PROVE  Cardinality(answer) = K /\ \A c \in answer : dist(c) < xor_distance(x, t)
  <2>1. PICK m \in merged : m.id = x
    BY <1>3, Zenon DEF merged
  <2>2. m \notin answer
    BY <1>12, <2>1, Zenon
  <2> QED  BY <1>10, <2>1, <2>2, Zenon
<1>13. ASSUME NEW m \in S, \A c \in answer : c.id # m.id
       PROVE  Cardinality(answer) = K /\ \A c \in answer : dist(c) < dist(m)
  <2>1. m \notin answer
    BY <1>13, Zenon
  <2>2. CASE m \in best
    BY <1>6, <1>10, <2>1, <2>2, Zenon
  <2>3. CASE m \notin best
    BY <1>11, <1>13, <2>3, Zenon
  <2> QED  BY <2>2, <2>3, Zenon
<1>14. ASSUME NEW x \in held(siblings) \union {c.id : c \in S}
       PROVE  \/ \E c \in answer : c.id = x
              \/ /\ Cardinality(answer) = K
                 /\ \A c \in answer : dist(c) < xor_distance(x, t)
  <2>1. CASE x \in held(siblings)
    BY <1>12, <2>1, Zenon
  <2>2. CASE x \in {c.id : c \in S}
    BY <1>13, <2>2, Zenon
  <2> QED  BY <2>1, <2>2, Zenon
<1> QED
  BY <1>8, <1>9, <1>14, Zenon DEF merged, sibs

LEMMA MergeMissesNothing ==
    ASSUME TypeOK, SteadyOK, Gathers, NEW p \in Threads, MergeSiblings(p),
           NEW x \in steady[p].table \union steady[p].siblings
    PROVE  \/ \E c \in out'[p] : c.id = x
           \/ /\ Cardinality(out'[p]) = K
              /\ x \in steady[p].siblings \/ bucket_index(x) \in low[p] .. high[p] =>
                    \A c \in out'[p] : xor_distance(c.id, op[p].id) < xor_distance(x, op[p].id)
<1> USE TypeParts
<1> DEFINE t == op[p].id
           best == nearest(out[p], t, K)
           merged == best \union {c \in contacts(siblings, held(siblings)) : \A d \in best : d.id # c.id}
           answer == nearest(merged, t, K)
<1>1. out'[p] = answer
  BY Zenon DEF MergeSiblings, LocalsOK
<1>2. t \in Ids /\ out[p] \in SUBSET Contacts /\ Gathering(p) /\ pc[p] = "siblings"
  BY Zenon DEF MergeSiblings, Local, LocalsOK, Gathers, Querying
<1>3. Distinct(out[p])
  BY <1>2, Zenon DEF Gathering, Distinct
<1>4. /\ Cardinality(out[p]) >= K => Cardinality(answer) = K
      /\ \A y \in held(siblings) \union {c.id : c \in out[p]} :
            \/ \E c \in answer : c.id = y
            \/ /\ Cardinality(answer) = K
               /\ \A c \in answer : xor_distance(c.id, t) < xor_distance(y, t)
  BY <1>2, <1>3, MergeAnswers, Zenon
<1>5. steady[p].table \subseteq held(table) /\ steady[p].siblings \subseteq held(siblings) /\ steady[p].table \subseteq Ids
  BY Zenon DEF SteadyOK
<1> HIDE DEF answer
<1>6. CASE x \in steady[p].siblings
  BY <1>1, <1>4, <1>5, <1>6, Zenon
<1>7. CASE x \in steady[p].table /\ bucket_index(x) \in low[p] .. high[p]
  <2>1. x \in {c.id : c \in out[p]}
    BY <1>2, <1>7 DEF Gathering
  <2> QED  BY <1>1, <1>4, <2>1, Zenon
<1>8. CASE x \in steady[p].table /\ x \notin steady[p].siblings /\ bucket_index(x) \notin low[p] .. high[p]
  <2>1. bucket_index(x) \in 0 .. MaxBuckets - 1
    BY <1>5, <1>8, IndexInt, Zenon
  <2>2. ~(low[p] = 0 /\ high[p] + 1 = MaxBuckets)
    <3>1. high[p] \in 0 .. MaxBuckets - 1
      BY Zenon DEF LocalsOK
    <3> QED  BY <1>8, <2>1, <3>1, SizeAssumption
  <2>3. Cardinality(out[p]) >= K
    BY <1>2, <2>2, Zenon DEF Gathering
  <2> QED  BY <1>1, <1>4, <1>8, <2>3, Zenon
<1> QED  BY <1>6, <1>7, <1>8, Zenon

LEMMA MissesNothingStep ==
    ASSUME TypeOK, SteadyOK, Gathers, QueryMissesNothing, NEW p \in Threads, ThreadStep(p)
    PROVE  QueryMissesNothing'
<1> SUFFICES ASSUME NEW q \in Threads, pc'[q] = "answered", NEW x \in steady'[q].table \union steady'[q].siblings
             PROVE  \/ \E c \in out'[q] : c.id = x
                    \/ /\ Cardinality(out'[q]) = K
                       /\ x \in steady'[q].siblings \/ bucket_index(x) \in low'[q] .. high'[q] =>
                            \A c \in out'[q] : xor_distance(c.id, op'[q].id) < xor_distance(x, op'[q].id)
  BY Zenon DEF QueryMissesNothing
<1>1. CASE q # p
  <2>1. pc'[q] = pc[q] /\ op'[q] = op[q] /\ low'[q] = low[q] /\ high'[q] = high[q] /\ out'[q] = out[q]
    BY <1>1, OthersKeep, Zenon
  <2>2. steady'[q].table \subseteq steady[q].table /\ steady'[q].siblings \subseteq steady[q].siblings
    BY <1>1, SteadyStep, Zenon
  <2> QED  BY <2>1, <2>2, Zenon DEF QueryMissesNothing
<1>2. CASE q = p
  <2>1. MergeSiblings(p)
    <3>1. ASSUME NEW c \in Contacts, AddToBucket(p, c) \/ CountSiblings(p, c) PROVE pc'[p] # "answered"
      BY <3>1, TypeParts, Zenon DEF AddToBucket, CountSiblings, goto, LocalsOK
    <3>2. ASSUME NEW t \in Ids, ReadHome(p, t) PROVE pc'[p] # "answered"
      BY <3>2, TypeParts, Zenon DEF ReadHome, goto, LocalsOK, widen
    <3>3. CASE CountBucket(p)
      BY <1>2, <3>3, TypeParts, Zenon DEF CountBucket, return, goto, LocalsOK
    <3>4. CASE AddToSiblings(p) \/ RemoveFromSiblings(p) \/ RemoveFromBucket(p) \/ Return(p)
      BY <1>2, <3>4, TypeParts, Zenon DEF AddToSiblings, RemoveFromSiblings, RemoveFromBucket, Return, return, goto, LocalsOK
    <3>5. CASE ReadHigh(p) \/ ReadLow(p)
      BY <1>2, <3>5, TypeParts, Zenon DEF ReadHigh, ReadLow, goto, LocalsOK, widen
    <3> QED  BY <1>2, <3>1, <3>2, <3>3, <3>4, <3>5, Zenon DEF ThreadStep
  <2>2. steady' = steady /\ low' = low /\ high' = high /\ op' = op
    BY <2>1, Zenon DEF MergeSiblings
  <2> QED  BY <1>2, <2>1, <2>2, MergeMissesNothing, Zenon
<1> QED  BY <1>1, <1>2, Zenon

LEMMA QueryStep ==
    TypeOK /\ SteadyOK /\ Gathers /\ QueryMissesNothing /\ [Next]_vars => SteadyOK' /\ Gathers' /\ QueryMissesNothing'
<1> SUFFICES ASSUME TypeOK, SteadyOK, Gathers, QueryMissesNothing, [Next]_vars
             PROVE  SteadyOK' /\ Gathers' /\ QueryMissesNothing'
  BY Zenon
<1>1. CASE UNCHANGED vars
  <2>1. /\ table' = table /\ siblings' = siblings /\ pc' = pc /\ op' = op /\ low' = low /\ high' = high
        /\ out' = out /\ steady' = steady
    BY <1>1, Zenon DEF vars
  <2>2. SteadyOK' /\ Gathers'
    BY <2>1, Zenon DEF SteadyOK, Gathers, Gathering, held
  <2>3. QueryMissesNothing'
    BY <2>1, Zenon DEF QueryMissesNothing
  <2> QED  BY <2>2, <2>3, Zenon
<1>2. ASSUME NEW p \in Threads, ThreadStep(p) PROVE SteadyOK' /\ Gathers' /\ QueryMissesNothing'
  BY <1>2, SteadyStep, GathersStep, MissesNothingStep, Zenon
<1> QED  BY <1>1, <1>2, StepOfThread, Zenon

LEMMA QueryHolds == Spec => [](SteadyOK /\ Gathers /\ QueryMissesNothing)
<1>1. Init => SteadyOK /\ Gathers /\ QueryMissesNothing
  BY DEF Init, SteadyOK, Gathers, QueryMissesNothing, Querying, held
<1> QED
  BY <1>1, QueryStep, TypeCorrect, PTL DEF Spec

\* A contact that stays known while close_nodes goes through the buckets one lock at a time is
\* in the answer, or the answer is full, of nearer contacts if the contact's bucket was read or
\* it was a sibling: for tables of any shape and any number of threads that add and remove.
THEOREM QueriesMissNothing == Spec => []QueryMissesNothing
BY QueryHolds, PTL

\* All of it as one inductive invariant of the table and its threads.
THEOREM TableInvariant == Spec => []IndInv
<1>1. TypeOK /\ SteadyOK /\ Gathers /\ Writers /\ Removing /\ QueryMissesNothing /\ NearestOffered /\ LayersAgree => IndInv
  BY Zenon DEF SteadyOK, Gathers, Writers, Removing, IndInv
<1> QED
  BY <1>1, TypeCorrect, QueryHolds, AgreeHolds, RemovingHolds, SiblingsAreNearest, PTL
=============================================================================
