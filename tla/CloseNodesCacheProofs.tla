------------------------ MODULE CloseNodesCacheProofs ------------------------
(* What the cache of close_nodes promises, for any threads, targets, contacts *)
(* and capacity, with and without invalidation on writes.                     *)
EXTENDS CloseNodesCache, FiniteSetTheorems, TLAPS

LEMMA SubjectTypes == None \in Subjects /\ Targets \subseteq Subjects /\ (SUBSET Contacts) \subseteq Subjects
BY Zenon DEF Subjects

\* Types are kept; no entry and no query carries a generation still to come.
THEOREM TypeCorrect == Spec => []TypeOK
<1>1. Init => TypeOK
  <2> SUFFICES ASSUME Init PROVE TypeOK
    OBVIOUS
  <2>1. op \in [Threads -> Subjects]
    BY SubjectTypes DEF Init
  <2> QED
    BY <2>1 DEF Init, TypeOK, Answered
<1>2. TypeOK /\ [Next]_vars => TypeOK'
  <2> SUFFICES ASSUME TypeOK, [Next]_vars PROVE TypeOK'
    OBVIOUS
  <2>1. ASSUME NEW p \in Threads, NEW t \in Targets, Load(p, t) PROVE TypeOK'
    BY <2>1, SubjectTypes DEF Load, goto, TypeOK, Answered, Entry
  <2>2. ASSUME NEW p \in Threads, LookUp(p) PROVE TypeOK'
    <3>1. op[p] \in Targets
      BY <2>2 DEF LookUp, TypeOK, Answered
    <3>2. entries[op[p]] # None => entries[op[p]].contacts \subseteq Contacts
      BY <3>1 DEF TypeOK, Entry
    <3> QED
      BY <2>2, <3>1, <3>2 DEF LookUp, goto, TypeOK, Answered, Entry
  <2>3. ASSUME NEW p \in Threads, QueryInner(p) PROVE TypeOK'
    BY <2>3 DEF QueryInner, goto, TypeOK, Answered, Entry
  <2>4. ASSUME NEW p \in Threads, HasRoom(p) \/ Evict(p) PROVE TypeOK'
    <3>1. entries' \in [Targets -> Entry \union {None}]
      BY <2>4 DEF HasRoom, Evict, TypeOK
    <3> QED
      BY <2>4, <3>1 DEF HasRoom, Evict, goto, TypeOK, Answered, Entry
  <2>5. ASSUME NEW p \in Threads, Insert(p) PROVE TypeOK'
    <3>1. [contacts |-> found[p], generation |-> loaded[p], expired |-> FALSE] \in Entry
      BY DEF TypeOK, Entry
    <3> QED
      BY <2>5, <3>1 DEF Insert, goto, TypeOK, Answered, Entry
  <2>6. ASSUME NEW p \in Threads, Return(p) PROVE TypeOK'
    <3>1. op' \in [Threads -> Subjects]
      BY <2>6, SubjectTypes DEF Return, TypeOK
    <3>2. \A q \in Threads : q # p => op'[q] = op[q] /\ pc'[q] = pc[q]
      BY <2>6 DEF Return, goto, TypeOK
    <3>3. pc'[p] = "idle" /\ pc' \in [Threads -> {"idle", "written", "loaded", "miss"} \union Answered]
      BY <2>6 DEF Return, goto, TypeOK
    <3>4. /\ loaded' \in [Threads -> 0..generation'] /\ found' \in [Threads -> SUBSET Contacts]
          /\ UNCHANGED <<members, generation, entries, settled, Entry>>
      BY <2>6 DEF Return, TypeOK, Entry
    <3> QED
      BY <3>1, <3>2, <3>3, <3>4 DEF TypeOK, Answered
  <2>7. ASSUME NEW p \in Threads, Bump(p) PROVE TypeOK'
    <3>1. generation' = generation + 1 /\ generation \in Nat /\ 0..generation \subseteq 0..generation'
      BY <2>7 DEF Bump, TypeOK
    <3>2. Entry \subseteq Entry'
      BY <3>1 DEF Entry
    <3>3. entries' \in [Targets -> Entry' \union {None}]
      BY <2>7, <3>2 DEF Bump, TypeOK
    <3>4. settled' \in [Contacts -> 0..generation' \union {None}]
      BY <2>7, <3>1 DEF Bump, TypeOK
    <3>5. op' \in [Threads -> Subjects]
      BY <2>7, SubjectTypes DEF Bump, TypeOK
    <3>6. \A q \in Threads : q # p => op'[q] = op[q] /\ pc'[q] = pc[q]
      BY <2>7 DEF Bump, goto, TypeOK
    <3>7. pc'[p] = "idle" /\ pc' \in [Threads -> {"idle", "written", "loaded", "miss"} \union Answered]
      BY <2>7 DEF Bump, goto, TypeOK
    <3>8. loaded' \in [Threads -> 0..generation'] /\ UNCHANGED <<members, found>>
      BY <2>7, <3>1 DEF Bump, TypeOK
    <3> QED
      BY <3>1, <3>3, <3>4, <3>5, <3>6, <3>7, <3>8 DEF TypeOK, Answered
  <2>8. ASSUME NEW p \in Threads, NEW c \in Contacts, remove_contact(p, c) \/ maybe_add_contact(p, c)
        PROVE  TypeOK'
    <3>1. PICK changed \in SUBSET Contacts :
            \/ UNCHANGED <<pc, op>>
            \/ goto(p, "written") /\ op' = [op EXCEPT ![p] = changed]
      BY <2>8, Zenon DEF remove_contact, maybe_add_contact, TypeOK
    <3>2. op' \in [Threads -> Subjects]
      BY <3>1, SubjectTypes DEF TypeOK
    <3>3. \A q \in Threads :
            \/ op'[q] = op[q] /\ pc'[q] = pc[q]
            \/ op'[q] = changed /\ pc'[q] = "written"
      BY <3>1 DEF goto, TypeOK
    <3>4. pc' \in [Threads -> {"idle", "written", "loaded", "miss"} \union Answered]
      BY <3>1 DEF goto, TypeOK
    <3>5. members' \subseteq Contacts /\ settled' \in [Contacts -> 0..generation \union {None}]
      BY <2>8, Zenon DEF remove_contact, maybe_add_contact, Write, TypeOK
    <3>6. UNCHANGED <<generation, entries, loaded, found, Entry>>
      BY <2>8, Zenon DEF remove_contact, maybe_add_contact, Write, Entry
    <3> QED
      BY <3>2, <3>3, <3>4, <3>5, <3>6 DEF TypeOK, Answered
  <2>9. ASSUME NEW t \in Targets, Expire(t) PROVE TypeOK'
    <3>1. [entries[t] EXCEPT !.expired = TRUE] \in Entry
      BY <2>9, Zenon DEF Expire, TypeOK, Entry
    <3> QED
      BY <2>9, <3>1 DEF Expire, TypeOK, Entry
  <2>10. CASE clear
    BY <2>10 DEF clear, TypeOK, Entry
  <2>11. CASE UNCHANGED vars
    BY <2>11 DEF vars, TypeOK, Entry
  <2> QED
    BY <2>1, <2>2, <2>3, <2>4, <2>5, <2>6, <2>7, <2>8, <2>9, <2>10, <2>11 DEF Next
<1> QED
  BY <1>1, <1>2, PTL DEF Spec
-----------------------------------------------------------------------------
(* Staleness *)

\* Each step keeps answers right about the writes they must show.
LEMMA CurrentStep == TypeOK /\ AnswersCurrent /\ [Next]_vars => AnswersCurrent'
<1> SUFFICES ASSUME TypeOK, AnswersCurrent, [Next]_vars PROVE AnswersCurrent'
  OBVIOUS
<1>1. ASSUME NEW p \in Threads, NEW t \in Targets, Load(p, t) PROVE AnswersCurrent'
  BY <1>1 DEF Load, goto, TypeOK, Answered, AnswersCurrent
<1>2. ASSUME NEW p \in Threads, LookUp(p) PROVE AnswersCurrent'
  <2>1. op[p] \in Targets
    BY <1>2 DEF LookUp, TypeOK, Answered
  <2> QED
    BY <1>2, <2>1 DEF LookUp, is_fresh, goto, TypeOK, Answered, AnswersCurrent
<1>3. ASSUME NEW p \in Threads, QueryInner(p) PROVE AnswersCurrent'
  BY <1>3 DEF QueryInner, goto, TypeOK, Answered, AnswersCurrent
<1>4. ASSUME NEW p \in Threads, HasRoom(p) \/ Evict(p) PROVE AnswersCurrent'
  <2>1. \A t \in Targets : entries'[t] # None => entries'[t] = entries[t]
    BY <1>4 DEF HasRoom, Evict, TypeOK
  <2>2. \A q \in Threads : pc'[q] \in Answered => pc[q] \in Answered
    BY <1>4 DEF HasRoom, Evict, goto, TypeOK, Answered
  <2>3. UNCHANGED <<members, loaded, found, settled>>
    BY <1>4 DEF HasRoom, Evict
  <2> QED
    BY <2>1, <2>2, <2>3 DEF AnswersCurrent
<1>5. ASSUME NEW p \in Threads, Insert(p) PROVE AnswersCurrent'
  BY <1>5 DEF Insert, goto, TypeOK, Answered, AnswersCurrent
<1>6. ASSUME NEW p \in Threads, Return(p) PROVE AnswersCurrent'
  BY <1>6 DEF Return, goto, TypeOK, Answered, AnswersCurrent
<1>7. ASSUME NEW p \in Threads, Bump(p) PROVE AnswersCurrent'
  <2>1. \A t \in Targets : entries[t] # None => entries[t].generation \in 0..generation
    BY DEF TypeOK, Entry
  <2>2. \A q \in Threads : loaded[q] \in 0..generation
    BY DEF TypeOK
  <2>3. \A d \in Contacts : settled'[d] = settled[d] \/ settled'[d] = generation + 1
    BY <1>7 DEF Bump, TypeOK
  <2>4. \A q \in Threads : pc'[q] \in Answered => pc[q] = pc'[q]
    BY <1>7 DEF Bump, goto, TypeOK, Answered
  <2>5. generation \in Nat /\ UNCHANGED <<members, entries, loaded, found>>
    BY <1>7 DEF Bump, TypeOK
  <2>6. \A t \in Targets : entries[t] # None => ~(generation + 1 <= entries[t].generation)
    BY <2>1, <2>5
  <2>7. \A q \in Threads : ~(generation + 1 <= loaded[q])
    BY <2>2, <2>5
  <2> QED
    BY <2>3, <2>4, <2>5, <2>6, <2>7 DEF AnswersCurrent
<1>8. ASSUME NEW p \in Threads, NEW d \in Contacts, remove_contact(p, d) \/ maybe_add_contact(p, d)
      PROVE  AnswersCurrent'
  <2>1. /\ \A e \in Contacts : settled'[e] # None =>
             settled'[e] = settled[e] /\ (e \in members' <=> e \in members)
        /\ UNCHANGED <<entries, loaded, found>>
    BY <1>8, Zenon DEF remove_contact, maybe_add_contact, Write, TypeOK
  <2>2. \A q \in Threads : pc'[q] \in Answered => pc[q] = pc'[q]
    <3>1. pc' = pc \/ pc' = [pc EXCEPT ![p] = "written"]
      BY <1>8, Zenon DEF remove_contact, maybe_add_contact, goto
    <3>2. pc \in [Threads -> {"idle", "written", "loaded", "miss"} \union Answered] /\ "written" \notin Answered
      BY Zenon DEF TypeOK, Answered
    <3> QED
      BY <3>1, <3>2, Zenon
  <2> QED
    BY <2>1, <2>2 DEF AnswersCurrent
<1>9. ASSUME NEW t \in Targets, Expire(t) PROVE AnswersCurrent'
  <2>1. /\ \A u \in Targets : entries'[u] # None =>
             /\ entries[u] # None
             /\ entries'[u].contacts = entries[u].contacts
             /\ entries'[u].generation = entries[u].generation
        /\ UNCHANGED <<members, pc, loaded, found, settled>>
    BY <1>9 DEF Expire, TypeOK, Entry
  <2> QED
    BY <2>1 DEF AnswersCurrent
<1>10. CASE clear
  BY <1>10 DEF clear, AnswersCurrent
<1>11. CASE UNCHANGED vars
  BY <1>11 DEF vars, AnswersCurrent
<1> QED
  BY <1>1, <1>2, <1>3, <1>4, <1>5, <1>6, <1>7, <1>8, <1>9, <1>10, <1>11 DEF Next

\* A query never misses a write completed before it began, nor serves a contact removed
\* before it began.
THEOREM NoStaleAnswer == Spec => []WritesAreSeen
<1>1. Init => AnswersCurrent
  BY DEF Init, AnswersCurrent, Answered
<1>2. AnswersCurrent => WritesAreSeen
  BY DEF AnswersCurrent, WritesAreSeen, Answered
<1> QED
  BY <1>1, <1>2, CurrentStep, TypeCorrect, PTL DEF Spec
-----------------------------------------------------------------------------
(* Capacity *)

\* A step that adds no entry and sends no thread to insert keeps the bound.
LEMMA NoMoreEntries ==
    ASSUME TypeOK, TypeOK', OvershootBounded,
           \A t \in Targets : entries'[t] # None => entries[t] # None,
           \A p \in Threads : pc'[p] = "insert" => pc[p] = "insert"
    PROVE  OvershootBounded'
<1> DEFINE E == {t \in Targets : entries[t] # None}
           F == {p \in Threads : pc[p] # "insert"}
<1>1. E' \subseteq E /\ F \subseteq F'
  OBVIOUS
<1>2. IsFiniteSet(E) /\ IsFiniteSet(F')
  BY FiniteAssumption, FS_Subset
<1>3. Cardinality(E') <= Cardinality(E) /\ Cardinality(F) <= Cardinality(F')
  BY <1>1, <1>2, FS_Subset
<1>4. Cardinality(E) \in Nat /\ Cardinality(E') \in Nat /\ Cardinality(F) \in Nat /\ Cardinality(F') \in Nat
  BY <1>1, <1>2, FS_Subset, FS_CardinalityType
<1>5. Cardinality(E) <= Capacity - 1 + Cardinality(F)
  BY DEF OvershootBounded, len
<1>6. Cardinality(E') <= Capacity - 1 + Cardinality(F')
  BY <1>3, <1>4, <1>5, CapacityAssumption
<1> QED
  BY <1>6 DEF OvershootBounded, len

\* However many threads make room at once, each overshoots by one entry at most.
THEOREM CapacityOvershoot == Spec => []OvershootBounded
<1>1. Init => OvershootBounded
  <2> SUFFICES ASSUME Init PROVE OvershootBounded
    OBVIOUS
  <2>1. {t \in Targets : entries[t] # None} = {}
    BY DEF Init
  <2>2. Cardinality({p \in Threads : pc[p] # "insert"}) \in Nat
    BY FiniteAssumption, FS_Subset, FS_CardinalityType
  <2> QED
    BY <2>1, <2>2, FS_EmptySet, CapacityAssumption DEF OvershootBounded, len
<1>2. TypeOK /\ TypeOK' /\ OvershootBounded /\ [Next]_vars => OvershootBounded'
  <2> SUFFICES ASSUME TypeOK, TypeOK', OvershootBounded, [Next]_vars PROVE OvershootBounded'
    OBVIOUS
  <2>1. ASSUME NEW p \in Threads, HasRoom(p) \/ Evict(p) PROVE OvershootBounded'
    <3>1. CASE pc'[p] = "insert"
      <4>1. len' < Capacity
        <5>1. CASE HasRoom(p)
          BY <3>1, <5>1 DEF HasRoom, goto, len, TypeOK
        <5>2. CASE Evict(p)
          <6>1. {t \in Targets : entries'[t] # None} = {}
            BY <3>1, <5>2 DEF Evict, goto, TypeOK
          <6> QED
            BY <6>1, FS_EmptySet, CapacityAssumption DEF len
        <5> QED
          BY <2>1, <5>1, <5>2
      <4>2. len' \in Nat /\ Cardinality({q \in Threads : pc'[q] # "insert"}) \in Nat
        BY FiniteAssumption, FS_Subset, FS_CardinalityType DEF len
      <4>3. len' <= Capacity - 1 + Cardinality({q \in Threads : pc'[q] # "insert"})
        BY <4>1, <4>2, CapacityAssumption
      <4> QED
        BY <4>3 DEF OvershootBounded
    <3>2. CASE pc'[p] # "insert"
      <4>1. \A t \in Targets : entries'[t] # None => entries[t] # None
        BY <2>1 DEF HasRoom, Evict, TypeOK
      <4>2. \A q \in Threads : pc'[q] = "insert" => pc[q] = "insert"
        BY <2>1, <3>2 DEF HasRoom, Evict, goto, TypeOK
      <4> QED
        BY <4>1, <4>2, NoMoreEntries
    <3> QED
      BY <3>1, <3>2
  <2>2. ASSUME NEW p \in Threads, Insert(p) PROVE OvershootBounded'
    <3> DEFINE E == {t \in Targets : entries[t] # None}
               F == {q \in Threads : pc[q] # "insert"}
    <3>1. op[p] \in Targets /\ pc[p] = "insert"
      BY <2>2 DEF Insert, TypeOK, Answered
    <3>2. E' \subseteq E \union {op[p]} /\ F' = F \union {p} /\ p \notin F
      BY <2>2, <3>1 DEF Insert, goto, TypeOK
    <3>3. IsFiniteSet(E) /\ IsFiniteSet(F) /\ Cardinality(E) \in Nat /\ Cardinality(F) \in Nat
      BY FiniteAssumption, FS_Subset, FS_CardinalityType
    <3>4. Cardinality(F') = Cardinality(F) + 1
      BY <3>2, <3>3, FS_AddElement, Zenon
    <3>5. /\ IsFiniteSet(E \union {op[p]})
          /\ Cardinality(E \union {op[p]}) <= Cardinality(E) + 1
      <4>1. CASE op[p] \in E
        <5>1. E \union {op[p]} = E
          BY <4>1
        <5> QED
          BY <3>3, <5>1
      <4>2. CASE op[p] \notin E
        <5> HIDE DEF E
        <5> QED
          BY <3>3, <4>2, FS_AddElement
      <4> QED
        BY <4>1, <4>2
    <3>6. /\ Cardinality(E') <= Cardinality(E \union {op[p]})
          /\ Cardinality(E') \in Nat /\ Cardinality(E \union {op[p]}) \in Nat
      BY <3>2, <3>5, FS_Subset, FS_CardinalityType
    <3>7. Cardinality(E) <= Capacity - 1 + Cardinality(F)
      BY DEF OvershootBounded, len
    <3>8. Cardinality(E') <= Capacity - 1 + Cardinality(F')
      BY <3>3, <3>4, <3>5, <3>6, <3>7, CapacityAssumption
    <3> QED
      BY <3>8 DEF OvershootBounded, len
  <2>3. ASSUME NEW p \in Threads,
               \/ \E t \in Targets : Load(p, t)
               \/ LookUp(p) \/ QueryInner(p) \/ Return(p) \/ Bump(p)
               \/ \E c \in Contacts : remove_contact(p, c) \/ maybe_add_contact(p, c)
        PROVE  OvershootBounded'
    <3>1. UNCHANGED entries /\ \A q \in Threads : pc'[q] = "insert" => pc[q] = "insert"
      BY <2>3, Zenon DEF Load, LookUp, QueryInner, Return, Bump, remove_contact, maybe_add_contact,
                  Write, goto, TypeOK
    <3> QED
      BY <3>1, NoMoreEntries
  <2>4. CASE clear \/ UNCHANGED vars \/ \E t \in Targets : Expire(t)
    <3>1. UNCHANGED pc /\ \A t \in Targets : entries'[t] # None => entries[t] # None
      BY <2>4 DEF clear, vars, Expire, TypeOK
    <3> QED
      BY <3>1, NoMoreEntries
  <2> QED
    BY <2>1, <2>2, <2>3, <2>4 DEF Next
<1> QED
  BY <1>1, <1>2, TypeCorrect, PTL DEF Spec
=============================================================================
