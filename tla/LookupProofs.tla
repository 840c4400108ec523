---------------------------- MODULE LookupProofs ----------------------------
(***************************************************************************)
(* Lookup for any number of peers, whatever they know and hold, whichever  *)
(* calls fail and in whichever order they end.                             *)
(***************************************************************************)
EXTENDS Lookup, FiniteSetTheorems, NaturalsInduction, TLAPS

\* What is nearer than x.
below(S, x) == {y \in S : y < x}

LEMMA NatMinimum ==
    ASSUME NEW S \in SUBSET Nat, S # {}
    PROVE  \E x \in S : \A y \in S : x <= y
<1>1. PICK x \in S : \A y \in S : ~(<<y, x>> \in OpToRel(<, Nat))
  BY NatLessThanWellFounded, WFMin, Zenon
<1>2. \A y \in S : ~(y < x)
  BY <1>1, Zenon DEF OpToRel
<1> QED  BY <1>2

\* Subsets of a finite set, and what cardinality says of them.
LEMMA SubsetFacts ==
    ASSUME NEW S, IsFiniteSet(S), NEW T, T \subseteq S
    PROVE  IsFiniteSet(T) /\ Cardinality(T) \in Nat /\ Cardinality(S) \in Nat /\ Cardinality(T) <= Cardinality(S)
BY FS_Subset, FS_CardinalityType

\* Something is nearest, unless there is nothing.
LEMMA NearestExists ==
    ASSUME NEW S \in SUBSET Nat, IsFiniteSet(S), NEW n \in Nat \ {0}
    PROVE  /\ nearest(S, n) \subseteq S
           /\ S # {} => \E x \in nearest(S, n) : \A y \in S : x <= y
<1>1. nearest(S, n) \subseteq S
  BY DEF nearest
<1>2. ASSUME S # {}
      PROVE  \E x \in nearest(S, n) : \A y \in S : x <= y
  <2>1. PICK x \in S : \A y \in S : x <= y
    BY <1>2, NatMinimum
  <2>2. {y \in S : y < x} = {}
    <3>1. \A y \in S : y \in Nat /\ x \in Nat /\ ~(y < x)
      BY <2>1
    <3> QED  BY <3>1, Zenon
  <2>3. x \in nearest(S, n)
    BY <2>2, FS_EmptySet DEF nearest
  <2> QED  BY <2>1, <2>3
<1> QED  BY <1>1, <1>2

\* A finite set of numbers has a greatest.
LEMMA NatMaximum ==
    ASSUME NEW T \in SUBSET Nat, IsFiniteSet(T), T # {}
    PROVE  \E x \in T : \A y \in T : y <= x
<1> DEFINE above(x) == Cardinality(T) - Cardinality(below(T, x))
           V == {above(x) : x \in T}
<1>1. \A x \in T : /\ IsFiniteSet(below(T, x)) /\ Cardinality(below(T, x)) \in Nat /\ Cardinality(T) \in Nat
                   /\ Cardinality(below(T, x)) <= Cardinality(T)
  BY SubsetFacts DEF below
<1>2. V \in SUBSET Nat /\ V # {}
  BY <1>1
<1>3. PICK v \in V : \A w \in V : v <= w
  BY <1>2, NatMinimum, Zenon
<1>4. PICK x \in T : v = above(x)
  OBVIOUS
<1>5. ASSUME NEW y \in T, x < y
      PROVE  FALSE
  <2>1. below(T, x) \union {x} \subseteq below(T, y) /\ x \notin below(T, x)
    <3>1. x \in Nat /\ y \in Nat /\ \A z \in T : z \in Nat
      OBVIOUS
    <3>2. \A z \in T : z < x => z < y
      BY <1>5, <3>1
    <3>3. \A z : z \in below(T, x) \union {x} => z \in T /\ z < y
      BY <1>5, <3>2 DEF below
    <3>4. x \notin below(T, x)
      BY <3>1 DEF below
    <3> QED  BY <3>3, <3>4 DEF below
  <2>2. IsFiniteSet(below(T, x) \union {x}) /\ Cardinality(below(T, x) \union {x}) = Cardinality(below(T, x)) + 1
    BY <1>1, <2>1, FS_AddElement, Zenon
  <2>3. Cardinality(below(T, x)) + 1 <= Cardinality(below(T, y))
    BY <1>1, <2>1, <2>2, SubsetFacts
  <2>4. above(x) <= above(y)
    BY <1>3, <1>4
  <2> QED  BY <1>1, <2>3, <2>4
<1>6. \A y \in T : x \in Nat /\ y \in Nat
  OBVIOUS
<1> QED  BY <1>5, <1>6

\* There are at most n nearest.
LEMMA NearestBound ==
    ASSUME NEW S \in SUBSET Nat, IsFiniteSet(S), NEW n \in Int
    PROVE  /\ IsFiniteSet(nearest(S, n)) /\ Cardinality(nearest(S, n)) \in Nat
           /\ Cardinality(nearest(S, n)) <= n \/ nearest(S, n) = {}
<1> DEFINE T == nearest(S, n)
<1>1. T \subseteq S /\ IsFiniteSet(T) /\ Cardinality(T) \in Nat /\ T \in SUBSET Nat
  BY SubsetFacts, Zenon DEF nearest
<1>2. ASSUME T # {}
      PROVE  Cardinality(T) <= n
  <2>1. PICK x \in T : \A y \in T : y <= x
    BY <1>1, <1>2, NatMaximum
  <2>2. T = below(T, x) \union {x} /\ x \notin below(T, x) /\ below(T, x) \subseteq below(S, x)
    BY <1>1, <2>1 DEF below
  <2>3. Cardinality(below(S, x)) < n
    BY <2>1 DEF nearest, below
  <2>4. below(S, x) \subseteq S /\ IsFiniteSet(below(S, x))
    BY SubsetFacts DEF below
  <2>5. /\ IsFiniteSet(below(T, x)) /\ Cardinality(below(T, x)) \in Nat /\ Cardinality(below(S, x)) \in Nat
        /\ Cardinality(below(T, x)) <= Cardinality(below(S, x))
    BY <2>2, <2>4, SubsetFacts
  <2>6. Cardinality(T) = Cardinality(below(T, x)) + 1
    BY <2>2, <2>5, FS_AddElement
  <2> QED  BY <2>3, <2>5, <2>6
<1> QED  BY <1>1, <1>2

\* Truncating what is known, merging and truncating again loses nothing: the n nearest of a
\* union only depend on the n nearest of its parts.
LEMMA NearestMerge ==
    ASSUME NEW A \in SUBSET Nat, NEW B \in SUBSET Nat, IsFiniteSet(A), IsFiniteSet(B), NEW n \in Nat
    PROVE  nearest(nearest(A, n) \union B, n) = nearest(A \union B, n)
<1> DEFINE N == nearest(A, n)
<1> USE DEF below
<1>1. nearest(A, n) = {x \in A : Cardinality(below(A, x)) < n} /\ N \subseteq A
  BY DEF nearest
<1>2. nearest(N \union B, n) = {x \in N \union B : Cardinality(below(N \union B, x)) < n}
  BY DEF nearest
<1>3. nearest(A \union B, n) = {x \in A \union B : Cardinality(below(A \union B, x)) < n}
  BY DEF nearest
<1>4. IsFiniteSet(A \union B) /\ A \union B \in SUBSET Nat
  BY FS_Union, Zenon
<1> HIDE DEF N, below
<1>5. \A x \in A \union B :
        /\ below(A, x) \subseteq below(A \union B, x) /\ below(N \union B, x) \subseteq below(A \union B, x)
        /\ below(A \union B, x) \subseteq A \union B
  BY <1>1 DEF below, N
<1>6. \A x \in A \union B :
        /\ IsFiniteSet(below(A \union B, x)) /\ Cardinality(below(A \union B, x)) \in Nat
        /\ IsFiniteSet(below(N \union B, x)) /\ Cardinality(below(N \union B, x)) \in Nat
        /\ Cardinality(below(A, x)) \in Nat
        /\ Cardinality(below(A, x)) <= Cardinality(below(A \union B, x))
        /\ Cardinality(below(N \union B, x)) <= Cardinality(below(A \union B, x))
  BY <1>4, <1>5, SubsetFacts, Zenon
<1>7. ASSUME NEW x \in nearest(A \union B, n)
      PROVE  x \in nearest(N \union B, n)
  <2>1. x \in A \union B /\ Cardinality(below(A \union B, x)) < n
    BY <1>3
  <2>2. x \in A => x \in N
    <3>1. Cardinality(below(A, x)) < n
      BY <1>6, <2>1
    <3> QED  BY <1>1, <3>1 DEF N
  <2>3. Cardinality(below(N \union B, x)) < n
    BY <1>6, <2>1
  <2> QED  BY <1>2, <2>1, <2>2, <2>3
<1>8. ASSUME NEW x \in nearest(N \union B, n)
      PROVE  x \in nearest(A \union B, n)
  <2>0. x \in A \union B /\ x \in Nat /\ Cardinality(below(N \union B, x)) < n
    BY <1>1, <1>2, Zenon DEF N
  <2>1. CASE below(A, x) \subseteq N
    <3>1. below(A \union B, x) = below(N \union B, x)
      BY <1>1, <2>1 DEF below, N
    <3> QED  BY <1>3, <2>0, <3>1
  <2>2. CASE ~(below(A, x) \subseteq N)
    <3> DEFINE far == below(A, x) \ N
    <3>1. far \in SUBSET Nat /\ far # {}
      BY <2>2, Zenon DEF below
    <3>2. PICK y \in far : \A z \in far : y <= z
      BY <3>1, NatMinimum, Zenon
    <3>3. y \in A /\ y < x /\ y \notin N /\ y \in Nat
      BY <3>2 DEF below
    <3>4. ~(Cardinality(below(A, y)) < n)
      BY <1>1, <3>3 DEF N
    <3>5. below(A, y) \subseteq below(N \union B, x)
      <4> SUFFICES ASSUME NEW z \in below(A, y)
                   PROVE  z \in N /\ z < x
        BY Zenon DEF below
      <4>1. z \in A /\ z < y /\ z \in Nat
        BY DEF below
      <4>2. z < x /\ z \in below(A, x)
        BY <2>0, <3>3, <4>1 DEF below
      <4> QED  BY <3>2, <3>3, <4>1, <4>2
    <3>6. Cardinality(below(A, y)) <= Cardinality(below(N \union B, x))
      BY <1>6, <2>0, <3>5, SubsetFacts, Zenon
    <3>7. Cardinality(below(A, y)) \in Nat
      BY <1>6, <3>3
    <3> QED  BY <1>6, <2>0, <3>4, <3>6, <3>7
  <2> QED  BY <2>1, <2>2
<1> QED  BY <1>7, <1>8 DEF N
-----------------------------------------------------------------------------
(* Pipelines *)

LEMMA NodeFacts ==
    /\ IsFiniteSet(Nodes) /\ Nodes \subseteq Nat /\ Peers \subseteq Nodes /\ me \in Nodes /\ me \notin Peers
    /\ \A S : S \subseteq Nodes => S \in SUBSET Nat /\ IsFiniteSet(S) /\ Cardinality(S) \in Nat
<1>1. IsFiniteSet(Nodes) /\ Nodes \subseteq Nat
  BY NodeAssumption, FS_AddElement DEF Nodes
<1>2. Peers \subseteq Nodes /\ me \in Nodes /\ me \notin Peers
  BY NodeAssumption DEF Nodes
<1>3. \A S : S \subseteq Nodes => S \in SUBSET Nat /\ IsFiniteSet(S) /\ Cardinality(S) \in Nat
  BY <1>1, SubsetFacts, Zenon
<1> QED  BY <1>1, <1>2, <1>3

\* Topping a pipeline up never overfills it, and leaves it empty only if nothing is left to do.
LEMMA Filled ==
    ASSUME NEW F, F \subseteq Nodes, Cardinality(F) <= ALPHA, NEW S, S \subseteq Nodes,
           NEW w \in Nat \ {0}, w <= ALPHA, NEW G, G = F \union nearest(S, w - Cardinality(F))
    PROVE  /\ F \subseteq G /\ G \subseteq F \union S /\ G \subseteq Nodes /\ Cardinality(G) <= ALPHA
           /\ G = {} => S = {}
<1> DEFINE n == w - Cardinality(F)
           N == nearest(S, n)
<1>0. S \in SUBSET Nat /\ IsFiniteSet(S) /\ IsFiniteSet(F) /\ Cardinality(F) \in Nat
  BY NodeFacts, Zenon
<1>1. /\ S \in SUBSET Nat /\ IsFiniteSet(S) /\ IsFiniteSet(F) /\ Cardinality(F) \in Nat /\ ALPHA \in Nat
      /\ n \in Int
  BY <1>0, SizeAssumption
<1>2. N \subseteq S
  BY DEF nearest
<1>3. IsFiniteSet(N) /\ Cardinality(N) \in Nat /\ (Cardinality(N) <= n \/ N = {})
  BY <1>1, NearestBound
<1>4. G = F \union N
  OBVIOUS
<1>5. ASSUME N # {}
      PROVE  Cardinality(G) <= ALPHA
  <2>1. Cardinality(G) = Cardinality(F) + Cardinality(N) - Cardinality(F \intersect N)
    BY <1>1, <1>3, <1>4, FS_Union
  <2>2. Cardinality(F \intersect N) \in Nat
    BY <1>1, SubsetFacts
  <2>3. Cardinality(N) <= w - Cardinality(F)
    BY <1>3, <1>5
  <2> HIDE DEF N
  <2> QED  BY <1>1, <1>3, <2>1, <2>2, <2>3
<1>6. N = {} => Cardinality(G) <= ALPHA
  BY <1>4, Zenon
<1>7. ASSUME G = {}
      PROVE  S = {}
  <2>1. F = {} /\ N = {}
    BY <1>4, <1>7
  <2>2. Cardinality(F) = 0
    BY <2>1, FS_EmptySet
  <2>3. n = w
    BY <2>2
  <2> QED  BY <1>1, <2>1, <2>3, NearestExists
<1> HIDE DEF N
<1> QED  BY <1>2, <1>4, <1>5, <1>6, <1>7

LEMMA InitInv == Init => IndInv
<1> SUFFICES ASSUME Init
             PROVE  IndInv
  OBVIOUS
<1>1. /\ kind \in {"node", "first", "all", "store"} /\ phase = "closing"
      /\ names \in [Peers -> SUBSET Nodes] /\ holds \in [Nodes -> {"valid", "invalid", "nothing"}]
      /\ table \subseteq Peers
  BY EnvironmentAssumption DEF Init
<1>0. PICK near \in SUBSET table : candidates = nearest(near, K)
  BY EnvironmentAssumption DEF Init
<1>2. /\ candidates = nearest(near, K) /\ in_flight = top_up(candidates, {}, {}) /\ queried = in_flight
      /\ start = candidates /\ heard = candidates
      /\ rest = {} /\ found = {} /\ accepted = 0 /\ lost = {} /\ stored = {}
  BY <1>0 DEF Init
<1>3. near \in SUBSET Nat /\ IsFiniteSet(near) /\ K \in Nat /\ ALPHA \in Nat \ {0} /\ Peers \subseteq Nodes
  BY <1>1, NodeFacts, SizeAssumption, Zenon
<1>4. candidates \subseteq near /\ candidates \subseteq Peers /\ Cardinality(candidates) <= K
  <2>1. candidates \subseteq near
    BY <1>2 DEF nearest
  <2>2. Cardinality(candidates) <= K \/ candidates = {}
    BY <1>2, <1>3, NearestBound
  <2>3. Cardinality(candidates) <= K
    BY <1>3, <2>2, FS_EmptySet
  <2> QED  BY <1>1, <2>1, <2>3
<1>5. candidates = nearest(heard, K)
  BY <1>2, <1>3, NearestMerge, FS_EmptySet, nearest(near, K) \union {} = nearest(near, K), near \union {} = near
<1>6. /\ in_flight \subseteq candidates /\ Cardinality(in_flight) <= ALPHA
      /\ in_flight = {} => candidates = {}
  <2>1. in_flight = {} \union nearest(candidates, ALPHA - Cardinality({}))
    BY <1>2 DEF top_up
  <2>2. {} \subseteq Nodes /\ Cardinality({}) <= ALPHA /\ candidates \subseteq Nodes
    BY <1>3, <1>4, FS_EmptySet
  <2> QED  BY <1>3, <2>1, <2>2, Filled
<1>7. TypeOK
  BY <1>1, <1>2, <1>3, <1>4, <1>6, Zenon DEF TypeOK
<1>8. ClosesIn
  BY <1>1, <1>2, <1>5, <1>6, Zenon DEF ClosesIn
<1>9. AsksOnce /\ ReadsOn
  BY <1>1 DEF AsksOnce, ReadsOn
<1>10. AcknowledgedStores
  BY <1>2, FS_EmptySet DEF AcknowledgedStores
<1> QED  BY <1>7, <1>8, <1>9, <1>10 DEF IndInv
-----------------------------------------------------------------------------
(* lookup_node *)

\* One reply, or one failure, merged: candidates stay the nearest of all the nodes named.
LEMMA MergeInv ==
    ASSUME IndInv, phase = "closing", NEW n \in in_flight, NEW named, named \subseteq Peers, Merge(n, named),
           table' \subseteq Peers, lost' \subseteq Nodes, lost \subseteq lost',
           n \in lost' \/ find_node(n) \ {me} \subseteq named
    PROVE  IndInv'
<1> DEFINE merged == nearest(candidates \union named, K)
           F == in_flight \ {n}
           flying == top_up(merged, queried, F)
<1>1. /\ candidates' = merged /\ in_flight' = flying /\ queried' = queried \union flying /\ heard' = heard \union named
      /\ UNCHANGED <<kind, names, holds, unreliable, start, phase, rest, found, accepted, stored>>
  BY DEF Merge, environment
<1>2. TypeOK /\ ClosesIn /\ AcknowledgedStores
  BY DEF IndInv
<1>3. /\ candidates \subseteq Peers /\ queried \subseteq Peers /\ heard \subseteq Peers /\ F \subseteq Nodes
      /\ start \subseteq heard /\ in_flight \subseteq queried /\ candidates = nearest(heard, K)
      /\ K \in Nat /\ ALPHA \in Nat \ {0} /\ Peers \subseteq Nodes
  BY <1>2, SizeAssumption, NodeFacts DEF TypeOK, ClosesIn
<1>4. Cardinality(F) <= ALPHA
  <2>1. IsFiniteSet(in_flight) /\ Cardinality(in_flight) <= ALPHA
    BY <1>2, NodeFacts, Zenon DEF TypeOK
  <2>2. Cardinality(F) <= Cardinality(in_flight) /\ Cardinality(F) \in Nat /\ Cardinality(in_flight) \in Nat
    BY <2>1, SubsetFacts
  <2> QED  BY <1>3, <2>1, <2>2
<1>5. merged = nearest(heard \union named, K)
  <2>1. heard \subseteq Nodes /\ named \subseteq Nodes
    BY <1>3
  <2>2. heard \in SUBSET Nat /\ IsFiniteSet(heard) /\ named \in SUBSET Nat /\ IsFiniteSet(named)
    BY <2>1, NodeFacts, Zenon
  <2> QED  BY <1>3, <2>2, NearestMerge
<1>6. merged \subseteq Peers /\ Cardinality(merged) <= K
  <2>1. merged \subseteq Peers
    BY <1>3 DEF nearest
  <2>2. candidates \union named \in SUBSET Nat /\ IsFiniteSet(candidates \union named)
    BY <1>3, NodeFacts, Zenon
  <2>3. Cardinality(merged) <= K \/ merged = {}
    <3>1. K \in Int
      BY <1>3
    <3> QED  BY <2>2, <3>1, NearestBound, Zenon
  <2> HIDE DEF merged
  <2>4. Cardinality(merged) <= K
    BY <1>3, <2>3, FS_EmptySet
  <2> QED  BY <2>1, <2>4
<1>7. /\ flying \subseteq F \union (merged \ queried) /\ flying \subseteq Nodes /\ Cardinality(flying) <= ALPHA
      /\ F \subseteq flying
      /\ flying = {} => merged \subseteq queried
  <2> DEFINE S == merged \ queried
  <2>1. S \subseteq Nodes /\ flying = F \union nearest(S, ALPHA - Cardinality(F))
    BY <1>3, <1>6 DEF top_up
  <2> HIDE DEF S, F, merged
  <2>2. /\ F \subseteq flying /\ flying \subseteq F \union S /\ flying \subseteq Nodes /\ Cardinality(flying) <= ALPHA
        /\ flying = {} => S = {}
    BY <1>3, <1>4, <2>1, Filled
  <2> QED  BY <2>2 DEF S
<1> HIDE DEF flying, merged
<1>8. flying \subseteq Peers
  BY <1>3, <1>6, <1>7
<1>9. TypeOK'
  BY <1>1, <1>2, <1>3, <1>6, <1>7, <1>8 DEF TypeOK
<1>10. ClosesIn'
  <2>1. \A m \in Peers : find_node(m)' = find_node(m)
    BY <1>1 DEF find_node
  <2>2. \A m \in queried' \ lost' : (phase' = "closing" /\ m \in in_flight') \/ find_node(m)' \ {me} \subseteq heard'
    <3> SUFFICES ASSUME NEW m \in queried' \ lost', m \notin flying
                 PROVE  find_node(m) \ {me} \subseteq heard'
      BY <1>1, <1>3, <1>8, <2>1
    <3>1. m \in queried /\ m \notin lost /\ m \notin F
      <4>1. m \in queried \union flying /\ m \notin lost
        BY <1>1
      <4> QED  BY <1>7, <4>1
    <3>2. CASE m = n
      BY <1>1, <3>2
    <3>3. CASE m # n
      BY <1>1, <1>2, <3>1, <3>3 DEF ClosesIn
    <3> QED  BY <3>2, <3>3
  <2>3. candidates' = nearest(heard', K)
    BY <1>1, <1>5
  <2>4. in_flight' \subseteq queried' /\ (in_flight' = {} => candidates' \subseteq queried')
    <3>1. in_flight' \subseteq queried'
      BY <1>1
    <3>2. in_flight' = {} => candidates' \subseteq queried'
      BY <1>1, <1>7
    <3> QED  BY <3>1, <3>2
  <2> QED  BY <1>1, <1>2, <2>2, <2>3, <2>4 DEF ClosesIn
<1>11. AsksOnce' /\ ReadsOn'
  BY <1>1 DEF AsksOnce, ReadsOn
<1>12. AcknowledgedStores'
  BY <1>1, <1>2, FS_EmptySet DEF ClosesIn, AcknowledgedStores
<1> QED  BY <1>9, <1>10, <1>11, <1>12 DEF IndInv

LEMMA NodeReplyInv ==
    ASSUME IndInv, NEW n \in Nodes, NodeReply(n)
    PROVE  IndInv'
<1>1. /\ phase = "closing" /\ n \in in_flight /\ Merge(n, find_node(n) \ {me})
      /\ table' = table \union (find_node(n) \ {me}) /\ lost' = lost
  BY DEF NodeReply
<1>2. n \in Peers /\ table \subseteq Peers /\ lost \subseteq Nodes /\ names[n] \subseteq Nodes
  BY <1>1 DEF IndInv, TypeOK, ClosesIn
<1>3. find_node(n) \ {me} \subseteq Peers
  BY <1>2 DEF find_node, Nodes
<1> QED  BY <1>1, <1>2, <1>3, MergeInv

LEMMA NodeFailsInv ==
    ASSUME IndInv, NEW n \in Nodes, NodeFails(n)
    PROVE  IndInv'
<1>1. /\ phase = "closing" /\ n \in in_flight /\ Merge(n, {})
      /\ table' \in {table, table \ {n}} /\ lost' = lost \union {n}
  BY DEF NodeFails
<1>2. table' \subseteq Peers /\ lost' \subseteq Nodes
  BY <1>1 DEF IndInv, TypeOK
<1> QED  BY <1>1, <1>2, MergeInv

\* The targets are nodes, ourselves perhaps among them.
LEMMA TargetFacts ==
    ASSUME TypeOK
    PROVE  targets \subseteq Nodes /\ candidates \union {me} \subseteq Nodes
BY NodeFacts, Zenon DEF targets, nearest, TypeOK

LEMMA SettleInv ==
    ASSUME IndInv, Settle
    PROVE  IndInv'
<1>1. /\ phase = "closing" /\ in_flight = {}
      /\ UNCHANGED <<kind, names, holds, unreliable, start, table, candidates, queried, found, accepted, heard, lost, stored>>
  BY DEF Settle, environment
<1>2. /\ TypeOK /\ ClosesIn /\ AcknowledgedStores /\ candidates \subseteq queried
      /\ rest = {} /\ found = {} /\ stored = {} /\ accepted = 0
  BY <1>1 DEF IndInv, ClosesIn
<1>3. targets' = targets /\ \A m : find_node(m)' = find_node(m)
  BY <1>1 DEF targets, find_node
<1>4. targets \subseteq Nodes
  BY <1>2, TargetFacts
<1>5. CASE kind = "node"
  <2>1. phase' = "done" /\ UNCHANGED <<in_flight, rest>>
    BY <1>5 DEF Settle
  <2>2. TypeOK'
    BY <1>1, <1>2, <2>1 DEF TypeOK
  <2>3. ClosesIn'
    BY <1>1, <1>2, <1>3, <2>1 DEF ClosesIn
  <2>4. AsksOnce' /\ ReadsOn' /\ AcknowledgedStores'
    BY <1>1, <1>2, <1>5, <2>1 DEF AsksOnce, ReadsOn, AcknowledgedStores
  <2> QED  BY <2>2, <2>3, <2>4 DEF IndInv
<1>6. CASE kind # "node"
  <2> DEFINE w == IF kind = "store" THEN 1 ELSE ALPHA
  <2>1. phase' = "asking" /\ in_flight' = nearest(targets, w) /\ rest' = targets \ in_flight'
    BY <1>6 DEF Settle
  <2>2. w \in Nat \ {0} /\ w <= ALPHA /\ ALPHA \in Nat
    BY SizeAssumption
  <2> HIDE DEF w
  <2>3. in_flight' \subseteq targets /\ Cardinality(in_flight') <= ALPHA
    <3>1. in_flight' = {} \union nearest(targets, w - Cardinality({}))
      BY <2>1, <2>2, FS_EmptySet
    <3>2. {} \subseteq Nodes /\ Cardinality({}) <= ALPHA
      BY <2>2, FS_EmptySet
    <3> QED  BY <1>4, <2>2, <3>1, <3>2, Filled
  <2>4. TypeOK'
    BY <1>1, <1>2, <1>4, <2>1, <2>3 DEF TypeOK
  <2>5. ClosesIn'
    BY <1>1, <1>2, <1>3, <2>1 DEF ClosesIn
  <2>6. AsksOnce'
    BY <1>1, <1>2, <1>3, <1>6, <2>1, <2>3 DEF AsksOnce
  <2>7. ReadsOn'
    BY <1>1, <1>2, <1>3, <2>1, <2>3 DEF ReadsOn
  <2>8. AcknowledgedStores'
    BY <1>1, <1>2 DEF AcknowledgedStores
  <2> QED  BY <2>4, <2>5, <2>6, <2>7, <2>8 DEF IndInv
<1> QED  BY <1>5, <1>6
-----------------------------------------------------------------------------
(* lookup_values, store_value_with_proof *)

\* n is never asked again, and the second half ends only when everybody has been asked.
LEMMA ProceedFacts ==
    ASSUME IndInv, phase = "asking", NEW n \in in_flight, NEW w \in Nat \ {0}, w <= ALPHA, Proceed(n, w)
    PROVE  /\ in_flight' \subseteq Nodes /\ Cardinality(in_flight') <= ALPHA /\ rest' \subseteq Nodes
           /\ in_flight' \intersect rest' = {} /\ in_flight' \union rest' = (in_flight \union rest) \ {n}
           /\ phase' \in {"asking", "done"}
           /\ phase' = "done" => in_flight' \union rest' = {}
<1> DEFINE F == in_flight \ {n}
<1>1. /\ in_flight' = F \union nearest(rest, w - Cardinality(F)) /\ rest' = rest \ in_flight'
      /\ phase' = IF in_flight' = {} THEN "done" ELSE "asking"
  BY DEF Proceed
<1>2. TypeOK /\ in_flight \intersect rest = {} /\ in_flight \subseteq Nodes /\ rest \subseteq Nodes
  BY DEF IndInv, AsksOnce, TypeOK
<1>3. F \subseteq Nodes /\ Cardinality(F) <= ALPHA
  <2>1. IsFiniteSet(in_flight) /\ Cardinality(in_flight) <= ALPHA /\ ALPHA \in Nat
    BY <1>2, NodeFacts, SizeAssumption, Zenon DEF TypeOK
  <2>2. Cardinality(F) <= Cardinality(in_flight) /\ Cardinality(F) \in Nat /\ Cardinality(in_flight) \in Nat
    BY <2>1, SubsetFacts
  <2> QED  BY <1>2, <2>1, <2>2
<1>4. /\ F \subseteq in_flight' /\ in_flight' \subseteq F \union rest /\ in_flight' \subseteq Nodes
      /\ Cardinality(in_flight') <= ALPHA
      /\ in_flight' = {} => rest = {}
  <2> HIDE DEF F
  <2> QED  BY <1>1, <1>2, <1>3, Filled
<1> QED  BY <1>1, <1>2, <1>4

\* What all the steps of the second half leave alone.
LEMMA AskingKeeps ==
    ASSUME IndInv, phase = "asking", phase' \in {"asking", "done"},
           UNCHANGED <<kind, names, holds, start, candidates, queried, heard>>, lost \subseteq lost'
    PROVE  ClosesIn' /\ targets' = targets
<1>1. targets' = targets /\ \A m : find_node(m)' = find_node(m)
  BY DEF targets, find_node
<1>2. ClosesIn'
  BY <1>1 DEF IndInv, ClosesIn
<1> QED  BY <1>1, <1>2

\* A read that goes on, or ends at the first value.
LEMMA ReadInv ==
    ASSUME IndInv, phase = "asking", kind \in {"first", "all"}, NEW n \in in_flight,
           UNCHANGED <<kind, names, holds, start, candidates, queried, accepted, heard, stored>>,
           table' \subseteq Peers, lost' \subseteq Nodes, lost \subseteq lost',
           found' = found \/ (found' = found \union {n} /\ holds[n] = "valid"),
           holds[n] = "valid" => n \in found' \union lost',
           \/ Proceed(n, ALPHA)
           \/ /\ in_flight' = {} /\ phase' = "done" /\ rest' = rest
              /\ kind = "first" /\ found' # {}
    PROVE  IndInv'
<1> DEFINE valid == {m \in targets : holds[m] = "valid"}
<1>1. ALPHA \in Nat \ {0} /\ ALPHA <= ALPHA
  BY SizeAssumption
<1>0. AcknowledgedStores'
  <2>1. stored \ lost \subseteq Nodes /\ stored \ lost' \subseteq stored \ lost /\ accepted \in Nat
    BY DEF IndInv, TypeOK
  <2>2. IsFiniteSet(stored \ lost)
    BY <2>1, NodeFacts
  <2>3. /\ Cardinality(stored \ lost') <= Cardinality(stored \ lost)
        /\ Cardinality(stored \ lost') \in Nat /\ Cardinality(stored \ lost) \in Nat
    BY <2>1, <2>2, SubsetFacts
  <2> QED  BY <2>1, <2>3 DEF IndInv, AcknowledgedStores
<1>2. CASE Proceed(n, ALPHA)
  <2>1. /\ in_flight' \subseteq Nodes /\ Cardinality(in_flight') <= ALPHA /\ rest' \subseteq Nodes
        /\ in_flight' \intersect rest' = {} /\ in_flight' \union rest' = (in_flight \union rest) \ {n}
        /\ phase' \in {"asking", "done"}
        /\ phase' = "done" => in_flight' \union rest' = {}
    BY <1>1, <1>2, ProceedFacts
  <2>2. ClosesIn' /\ targets' = targets
    BY <2>1, AskingKeeps
  <2>3. TypeOK'
    BY <2>1 DEF IndInv, TypeOK
  <2>4. AsksOnce'
    BY <2>1, <2>2 DEF IndInv, AsksOnce
  <2>5. n \in targets /\ found \subseteq valid /\ valid \ (in_flight \union rest) \subseteq found \union lost
    BY DEF IndInv, AsksOnce, ReadsOn
  <2>6. found' \subseteq valid /\ valid \ (in_flight' \union rest') \subseteq found' \union lost'
    BY <2>1, <2>5
  <2>7. ReadsOn'
    BY <2>1, <2>2, <2>6 DEF ReadsOn
  <2> QED  BY <1>0, <2>2, <2>3, <2>4, <2>7 DEF IndInv
<1>3. CASE in_flight' = {} /\ phase' = "done" /\ rest' = rest /\ kind = "first" /\ found' # {}
  <2>1. ClosesIn' /\ targets' = targets
    BY <1>3, AskingKeeps
  <2>2. TypeOK'
    BY <1>1, <1>3, FS_EmptySet DEF IndInv, TypeOK
  <2>3. AsksOnce'
    BY <1>3 DEF AsksOnce
  <2>4. n \in targets /\ found \subseteq valid
    BY DEF IndInv, AsksOnce, ReadsOn
  <2>5. ReadsOn'
    BY <1>3, <2>1, <2>4 DEF ReadsOn
  <2> QED  BY <1>0, <2>1, <2>2, <2>3, <2>5 DEF IndInv
<1> QED  BY <1>2, <1>3

LEMMA ValueReplyInv ==
    ASSUME IndInv, NEW n \in Nodes, ValueReply(n)
    PROVE  IndInv'
<1>1. /\ phase = "asking" /\ kind \in {"first", "all"} /\ n \in in_flight /\ lost' = lost
      /\ UNCHANGED <<kind, names, holds, start, candidates, queried, accepted, heard, stored>>
      /\ found' = IF holds[n] = "valid" THEN found \union {n} ELSE found
      /\ table' = IF holds[n] = "nothing" /\ n # me THEN table \union (find_node(n) \ {me}) ELSE table
      /\ \/ Proceed(n, ALPHA)
         \/ /\ in_flight' = {} /\ phase' = "done" /\ rest' = rest
            /\ kind = "first" /\ holds[n] = "valid"
  BY DEF ValueReply, environment
<1>2. table' \subseteq Peers
  <2>1. table \subseteq Peers /\ (n # me => names[n] \subseteq Nodes)
    BY DEF IndInv, TypeOK, Nodes
  <2> QED  BY <1>1, <2>1 DEF find_node, Nodes
<1>3. lost \subseteq Nodes
  BY DEF IndInv, TypeOK
<1> QED  BY <1>1, <1>2, <1>3, ReadInv

LEMMA ValueFailsInv ==
    ASSUME IndInv, NEW n \in Nodes, ValueFails(n)
    PROVE  IndInv'
<1>1. /\ phase = "asking" /\ kind \in {"first", "all"} /\ n \in in_flight /\ lost' = lost \union {n}
      /\ UNCHANGED <<kind, names, holds, start, candidates, queried, accepted, heard, stored>>
      /\ found' = found /\ table' \in {table, table \ {n}} /\ Proceed(n, ALPHA)
  BY DEF ValueFails, environment
<1>2. table' \subseteq Peers /\ lost' \subseteq Nodes
  BY <1>1 DEF IndInv, TypeOK
<1> QED  BY <1>1, <1>2, ReadInv

\* One more acknowledged and one more stored; or perhaps stored, and lost.
LEMMA StoreInv ==
    ASSUME IndInv, phase = "asking", kind = "store", NEW n \in in_flight,
           UNCHANGED <<kind, names, holds, start, candidates, queried, found, heard>>,
           table' \subseteq Peers, Proceed(n, 1),
           \/ stored' = stored \union {n} /\ accepted' = accepted + 1 /\ lost' = lost
           \/ stored' = stored /\ accepted' = accepted /\ lost' = lost
           \/ stored' \in {stored, stored \union {n}} /\ accepted' = accepted /\ lost' = lost \union {n}
    PROVE  IndInv'
<1>1. 1 \in Nat \ {0} /\ 1 <= ALPHA
  BY SizeAssumption
<1>2. /\ in_flight' \subseteq Nodes /\ Cardinality(in_flight') <= ALPHA /\ rest' \subseteq Nodes
      /\ in_flight' \intersect rest' = {} /\ in_flight' \union rest' = (in_flight \union rest) \ {n}
      /\ phase' \in {"asking", "done"}
  BY <1>1, ProceedFacts
<1>3. ClosesIn' /\ targets' = targets
  BY <1>2, AskingKeeps
<1>4. n \in Nodes /\ n \notin stored /\ stored \subseteq Nodes /\ lost \subseteq Nodes /\ accepted \in Nat
  BY DEF IndInv, TypeOK, AsksOnce
<1>5. TypeOK'
  BY <1>2, <1>4 DEF IndInv, TypeOK
<1>6. AsksOnce'
  BY <1>2, <1>3 DEF IndInv, AsksOnce
<1>7. ReadsOn'
  BY DEF ReadsOn
<1>8. /\ IsFiniteSet(stored) /\ IsFiniteSet(stored \ lost) /\ Cardinality(stored) \in Nat
      /\ Cardinality(stored \ lost) \in Nat /\ Cardinality(stored \ lost) <= accepted /\ accepted <= Cardinality(stored)
  <2>1. stored \ lost \subseteq Nodes
    BY <1>4
  <2>2. IsFiniteSet(stored) /\ IsFiniteSet(stored \ lost) /\ Cardinality(stored) \in Nat /\ Cardinality(stored \ lost) \in Nat
    BY <1>4, <2>1, NodeFacts, Zenon
  <2> QED  BY <2>2 DEF IndInv, AcknowledgedStores
<1>9. Cardinality(stored \union {n}) = Cardinality(stored) + 1
  BY <1>4, <1>8, FS_AddElement, Zenon
<1>10. AcknowledgedStores'
  <2>1. CASE stored' = stored \union {n} /\ accepted' = accepted + 1 /\ lost' = lost
    <3>1. stored' \ lost' \subseteq (stored \ lost) \union {n}
      BY <2>1
    <3>2. /\ IsFiniteSet((stored \ lost) \union {n})
          /\ Cardinality((stored \ lost) \union {n}) <= Cardinality(stored \ lost) + 1
      BY <1>8, FS_AddElement
    <3>3. /\ Cardinality(stored' \ lost') <= Cardinality((stored \ lost) \union {n})
          /\ Cardinality(stored' \ lost') \in Nat /\ Cardinality((stored \ lost) \union {n}) \in Nat
      BY <3>1, <3>2, SubsetFacts
    <3>4. Cardinality(stored' \ lost') <= accepted' /\ accepted' <= Cardinality(stored')
      BY <1>4, <1>8, <1>9, <2>1, <3>2, <3>3
    <3> QED  BY <3>4 DEF AcknowledgedStores
  <2>2. CASE stored' = stored /\ accepted' = accepted /\ lost' = lost
    BY <1>8, <2>2 DEF AcknowledgedStores
  <2>3. CASE stored' \in {stored, stored \union {n}} /\ accepted' = accepted /\ lost' = lost \union {n}
    <3>1. stored' \ lost' \subseteq stored \ lost
      BY <2>3
    <3>2. Cardinality(stored' \ lost') <= Cardinality(stored \ lost) /\ Cardinality(stored' \ lost') \in Nat
      BY <1>8, <3>1, SubsetFacts
    <3>3. Cardinality(stored) <= Cardinality(stored') /\ Cardinality(stored') \in Nat
      BY <1>8, <1>9, <2>3
    <3> QED  BY <1>4, <1>8, <2>3, <3>2, <3>3 DEF AcknowledgedStores
  <2> QED  BY <2>1, <2>2, <2>3
<1> QED  BY <1>3, <1>5, <1>6, <1>7, <1>10 DEF IndInv

LEMMA StoreReplyInv ==
    ASSUME IndInv, NEW n \in Nodes, NEW stores \in BOOLEAN, StoreReply(n, stores)
    PROVE  IndInv'
<1>1. table' \subseteq Peers
  BY DEF StoreReply, IndInv, TypeOK
<1> QED  BY <1>1, StoreInv DEF StoreReply, environment

LEMMA StoreFailsInv ==
    ASSUME IndInv, NEW n \in Nodes, NEW stores \in BOOLEAN, StoreFails(n, stores)
    PROVE  IndInv'
<1>1. table' \subseteq Peers
  BY DEF StoreFails, IndInv, TypeOK
<1> QED  BY <1>1, StoreInv DEF StoreFails, environment
-----------------------------------------------------------------------------
(* The theorems *)

LEMMA StutterInv ==
    ASSUME IndInv, UNCHANGED vars
    PROVE  IndInv'
<1>1. /\ UNCHANGED <<kind, names, holds, unreliable, start, table, phase, candidates, queried>>
      /\ UNCHANGED <<in_flight, rest, found, accepted, heard, lost, stored>>
  BY DEF vars, environment
<1>2. TypeOK' /\ AcknowledgedStores'
  BY <1>1 DEF IndInv, TypeOK, AcknowledgedStores
<1>3. targets' = targets /\ \A m : find_node(m)' = find_node(m)
  BY <1>1 DEF targets, find_node
<1>4. ClosesIn'
  BY <1>1, <1>3 DEF IndInv, ClosesIn
<1>5. AsksOnce' /\ ReadsOn'
  BY <1>1, <1>3 DEF IndInv, AsksOnce, ReadsOn
<1> QED  BY <1>2, <1>4, <1>5 DEF IndInv

LEMMA StepInv == IndInv /\ [Next]_vars => IndInv'
<1> SUFFICES ASSUME IndInv, [Next]_vars
             PROVE  IndInv'
  OBVIOUS
<1>1. ASSUME NEW n \in Nodes, NodeReply(n) \/ NodeFails(n) \/ ValueReply(n) \/ ValueFails(n)
      PROVE  IndInv'
  BY <1>1, NodeReplyInv, NodeFailsInv, ValueReplyInv, ValueFailsInv
<1>2. ASSUME NEW n \in Nodes, NEW stores \in BOOLEAN, StoreReply(n, stores) \/ StoreFails(n, stores)
      PROVE  IndInv'
  BY <1>2, StoreReplyInv, StoreFailsInv
<1>3. CASE Settle
  BY <1>3, SettleInv
<1>4. CASE Done \/ UNCHANGED vars
  BY <1>4, StutterInv DEF Done
<1> QED  BY <1>1, <1>2, <1>3, <1>4 DEF Next

LEMMA Inductive == Spec => []IndInv
BY InitInv, StepInv, PTL DEF Spec

\* lookup.rs never has more than K candidates or ALPHA calls in flight, and never takes itself
\* for a candidate.
THEOREM TypeCorrect == Spec => []TypeOK
<1>1. IndInv => TypeOK
  BY DEF IndInv
<1> QED  BY <1>1, Inductive, PTL

\* lookup_node settles on the K nearest of all the nodes it has heard of, and has asked them all:
\* truncating the candidates after every reply loses none of them.
THEOREM SettlesOnNearest == Spec => []SettledOnNearest
<1>1. IndInv => SettledOnNearest
  BY DEF IndInv, ClosesIn, SettledOnNearest
<1> QED  BY <1>1, Inductive, PTL

\* If no call fails and every peer leads on, that is, names a peer nearer than itself unless it is
\* the nearest, lookup_node finds the nearest of all from any one contact.
THEOREM FindsTheNearest == Spec => []FindsNearest
<1>1. IndInv => FindsNearest
  <2> SUFFICES ASSUME IndInv, phase # "closing", start # {}, lost = {}, LeadsOn,
                      NEW n \in Peers, \A m \in Peers : n <= m
               PROVE  n \in candidates
    BY DEF FindsNearest
  <2>1. TypeOK /\ candidates = nearest(heard, K) /\ candidates \subseteq queried /\ heard # {} /\ heard \subseteq Peers
    BY DEF IndInv, TypeOK, ClosesIn
  <2>2. heard \in SUBSET Nat /\ IsFiniteSet(heard) /\ K \in Nat \ {0} /\ Peers \subseteq Nat
    BY <2>1, NodeFacts, SizeAssumption, Zenon
  <2>3. PICK c \in candidates : \A y \in heard : c <= y
    BY <2>1, <2>2, NearestExists
  <2>4. c \in Peers /\ c \in queried
    BY <2>1, <2>3 DEF TypeOK
  <2>5. find_node(c) \ {me} \subseteq heard
    BY <2>4 DEF IndInv, ClosesIn
  <2>6. ASSUME NEW m \in Peers, m < c
        PROVE  FALSE
    <3>1. PICK p \in find_node(c) \ {me} : p < c
      BY <2>4, <2>6 DEF LeadsOn
    <3>2. p \in heard /\ c <= p
      BY <2>3, <2>5
    <3>3. p \in Nat /\ c \in Nat
      BY <2>2, <2>4, <3>2, Zenon
    <3> QED  BY <3>1, <3>2, <3>3
  <2>7. n \in Nat /\ c \in Nat /\ ~(n < c) /\ n <= c
    BY <2>2, <2>4, <2>6
  <2> QED  BY <2>3, <2>7
<1> QED  BY <1>1, Inductive, PTL

\* lookup_values hears every target that answers: get_latest misses no pointer among them, and
\* lookup_value fails only if no target that answers has a valid value.
THEOREM ReadsEveryReplica == Spec => []ReplicasRead
<1>1. IndInv => ReplicasRead
  BY DEF IndInv, ReadsOn, ReplicasRead
<1> QED  BY <1>1, Inductive, PTL

\* What store_value_with_proof returns is never more than the nodes that hold the value, and no
\* fewer than those that hold it and answered.
THEOREM StoresAreCounted == Spec => []AcknowledgedStores
<1>1. IndInv => AcknowledgedStores
  BY DEF IndInv
<1> QED  BY <1>1, Inductive, PTL
=============================================================================
