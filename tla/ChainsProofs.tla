---------------------------- MODULE ChainsProofs ----------------------------
(***************************************************************************)
(* Version histories, the walk that checks one and the handler that stores *)
(* what was checked: for every set of records, every length limit, every   *)
(* set of requests and concurrent tasks, and however DNS changes.          *)
(***************************************************************************)
EXTENDS ChainWalk, StoreHandler, FiniteSetTheorems, TLAPS

(* Histories.  A history is a least closed set, so what holds of its head  *)
(* and passes from a record to its predecessor holds of all of it.         *)

\* A history contains the record it starts from.
LEMMA HeadInLineage ==
    ASSUME NEW C, NEW h \in Keys
    PROVE  h \in Lineage(C, h)
BY DEF Lineage

\* A history contains the predecessor of each of its records, unless that is the first one.
LEMMA PrevInLineage ==
    ASSUME NEW C \in [Keys -> Records], NEW h, NEW r \in Lineage(C, h), C[r].prev # End
    PROVE  C[r].prev \in Lineage(C, h)
<1>1. r \in Keys /\ C[r].prev \in Keys
  BY DEF Lineage, Records
<1>2. ASSUME NEW S \in SUBSET Keys, h \in S, Closed(C, S)
      PROVE  C[r].prev \in S
  BY <1>2 DEF Lineage, Closed
<1> QED
  BY <1>1, <1>2 DEF Lineage

\* A history is the least set of records that contains its head and is closed under prev.
LEMMA LineageLeast ==
    ASSUME NEW C, NEW h, NEW S \in SUBSET Keys, h \in S, Closed(C, S)
    PROVE  Lineage(C, h) \subseteq S
BY DEF Lineage

\* The history of a record is part of every history the record is in.
LEMMA LineageTransitive ==
    ASSUME NEW C \in [Keys -> Records], NEW h, NEW r \in Lineage(C, h)
    PROVE  Lineage(C, r) \subseteq Lineage(C, h)
<1>1. Lineage(C, h) \in SUBSET Keys
  BY DEF Lineage
<1>2. Closed(C, Lineage(C, h))
  BY PrevInLineage DEF Closed
<1> QED
  BY <1>1, <1>2, LineageLeast

\* In a genuine history every other record is older than the head.
LEMMA HeadIsNewest ==
    ASSUME NEW C \in [Keys -> Records], NEW p \in LatestPointers, NEW o, Genuine(C, p, o),
           NEW r \in Lineage(C, p.head), r # p.head
    PROVE  C[r].version < p.version
<1> DEFINE S == {k \in Lineage(C, p.head) : k = p.head \/ C[k].version < p.version}
<1>1. p.head \in Keys /\ C[p.head].version = p.version
  BY DEF Genuine
<1>2. p.head \in S
  BY <1>1, HeadInLineage
<1>3. S \in SUBSET Keys
  BY DEF Lineage
<1>4. Closed(C, S)
  <2> SUFFICES ASSUME NEW k \in S, C[k].prev # End PROVE C[k].prev \in S
    BY DEF Closed
  <2>1. C[k].prev \in Lineage(C, p.head)
    BY PrevInLineage
  <2>2. C[C[k].prev].version < C[k].version
    BY DEF Genuine
  <2>3. k \in Keys /\ C[k].prev \in Keys
    BY <2>1 DEF Lineage
  <2>4. C[k].version \in Nat /\ C[C[k].prev].version \in Nat /\ p.version \in Nat
    BY <2>3, VersionsAssumption, Zenon DEF Records, LatestPointers
  <2>5. k = p.head \/ C[k].version < p.version
    OBVIOUS
  <2> QED
    BY <1>1, <2>1, <2>2, <2>4, <2>5
<1> QED
  BY <1>2, <1>3, <1>4, LineageLeast

\* A genuine history is signed by one key, the pointer's.
LEMMA OneSigner ==
    ASSUME NEW C \in [Keys -> Records], NEW p \in LatestPointers, NEW o, Genuine(C, p, o),
           NEW r \in Lineage(C, p.head)
    PROVE  C[r].signer = p.signer
BY DEF Genuine, latest_is_valid

\* Of two genuine histories with the same records, the pointers are the same.
LEMMA SameHistorySamePointer ==
    ASSUME NEW C \in [Keys -> Records], NEW p \in LatestPointers, NEW q \in LatestPointers,
           NEW o, NEW u, Genuine(C, p, o), Genuine(C, q, u),
           Lineage(C, p.head) = Lineage(C, q.head)
    PROVE  p = q
<1>1. /\ p.head \in Keys /\ C[p.head].version = p.version
      /\ q.head \in Keys /\ C[q.head].version = q.version
      /\ p.version \in Nat /\ q.version \in Nat
  BY VersionsAssumption, Zenon DEF Genuine, LatestPointers
<1>2. p.head \in Lineage(C, q.head) /\ q.head \in Lineage(C, p.head)
  BY <1>1, HeadInLineage
<1>3. p.head = q.head
  <2> SUFFICES ASSUME p.head # q.head PROVE FALSE
    OBVIOUS
  <2>1. C[q.head].version < p.version
    BY <1>2, HeadIsNewest
  <2>2. C[p.head].version < q.version
    BY <1>2, HeadIsNewest
  <2> QED
    BY <1>1, <2>1, <2>2
<1>4. p.signer = q.signer
  BY <1>2, <1>3, OneSigner
<1> QED
  BY <1>1, <1>3, <1>4 DEF LatestPointers

\* continues_previous looks for one record; on genuine histories that is to accept
\* exactly what compare_chains calls the same history or an extension of it.
LEMMA ContinuesIffExtends ==
    ASSUME NEW C \in [Keys -> Records], NEW p \in LatestPointers, NEW q \in LatestPointers,
           NEW o, NEW u, Genuine(C, p, o), Genuine(C, q, u)
    PROVE  continues_previous(C, p, q, Lineage(C, q.head))
               <=> Lineage(C, p.head) \subseteq Lineage(C, q.head)
<1>1. /\ p.head \in Keys /\ C[p.head].version = p.version
      /\ q.head \in Keys /\ C[q.head].version = q.version
  BY DEF Genuine
<1>2. ASSUME continues_previous(C, p, q, Lineage(C, q.head))
      PROVE  Lineage(C, p.head) \subseteq Lineage(C, q.head)
  BY <1>2, LineageTransitive DEF continues_previous
<1>3. ASSUME Lineage(C, p.head) \subseteq Lineage(C, q.head)
      PROVE  continues_previous(C, p, q, Lineage(C, q.head))
  <2>1. p.head \in Lineage(C, q.head)
    BY <1>1, <1>3, HeadInLineage
  <2>2. CASE p.head = q.head
    BY <2>2, SameHistorySamePointer DEF continues_previous
  <2>3. CASE p.head # q.head
    <3>1. p.version < q.version
      BY <1>1, <2>1, <2>3, HeadIsNewest
    <3>2. p.version \in Nat /\ q.version \in Nat
      BY VersionsAssumption, Zenon DEF LatestPointers
    <3> QED
      BY <1>1, <2>1, <3>1, <3>2 DEF continues_previous
  <2> QED
    BY <2>2, <2>3
<1> QED
  BY <1>2, <1>3
-----------------------------------------------------------------------------
(* The walk over a history *)

\* A history is finite, as there are finitely many records.
LEMMA LineageFinite ==
    ASSUME NEW C, NEW h
    PROVE  IsFiniteSet(Lineage(C, h))
BY InputAssumption, FS_Subset, Zenon DEF Lineage

\* What appending a record to a chain does to the set of its records.
LEMMA RangeAppend ==
    ASSUME NEW s \in Seq(Keys), NEW k \in Keys
    PROVE  /\ Range(Append(s, k)) = Range(s) \union {k}
           /\ Range(s) \subseteq Keys
           /\ \A i \in 1..Len(s) : Append(s, k)[i] = s[i]
           /\ Append(s, k)[Len(s) + 1] = k
           /\ Len(Append(s, k)) = Len(s) + 1
           /\ Append(s, k) \in Seq(Keys) /\ Append(s, k) # <<>>
<1> DEFINE t == Append(s, k)
<1>1. /\ DOMAIN s = 1..Len(s) /\ Len(s) \in Nat
      /\ t \in Seq(Keys) /\ Len(t) = Len(s) + 1 /\ DOMAIN t = 1..Len(t)
      /\ \A i \in 1..Len(s) : t[i] = s[i]
      /\ t[Len(s) + 1] = k
  OBVIOUS
<1>2. ASSUME NEW x PROVE x \in Range(t) <=> x \in Range(s) \union {k}
  <2>1. x \in Range(t) <=> \E i \in 1..(Len(s) + 1) : x = t[i]
    BY <1>1, Zenon DEF Range
  <2>2. x \in Range(s) <=> \E i \in 1..Len(s) : x = s[i]
    BY <1>1, Zenon DEF Range
  <2> QED
    BY <1>1, <2>1, <2>2
<1>3. Range(s) \subseteq Keys
  BY <1>1 DEF Range
<1> QED
  BY <1>1, <1>2, <1>3
-----------------------------------------------------------------------------
(* Types *)

\* The variables of walk_chain keep their types; the walk never looks up END_OF_CHAIN.
THEOREM WalkTypeCorrect == WalkSpec => []WalkTypeOK
<1>1. WalkInit => WalkTypeOK
  <2>1. WalkInit => repeats \in BOOLEAN
    BY Zenon DEF WalkInit
  <2>2. WalkInit => chain \in Seq(Keys) /\ newer_version \in Nat
    BY DEF WalkInit
  <2>3. WalkInit => source \in {"proof", "network"} /\ proof \subseteq Keys
    BY Zenon DEF WalkInit
  <2> QED
    BY InputAssumption, <2>1, <2>2, <2>3, Zenon DEF WalkInit, WalkTypeOK
<1>2. WalkTypeOK /\ [WalkNext]_walk_vars => WalkTypeOK'
  <2> SUFFICES ASSUME WalkTypeOK, [WalkNext]_walk_vars PROVE WalkTypeOK'
    BY Zenon
  <2> USE VersionsAssumption
  <2>1. CASE Start
    BY <2>1, Zenon DEF WalkTypeOK, Start, fail, inputs, Errors, LatestPointers
  <2>2. CASE Visit
    <3>1. content[current] \in Records /\ current \in Keys
      BY <2>2, Zenon DEF WalkTypeOK, Visit
    <3>2. content[current].version \in Nat /\ content[current].prev \in Keys \union {End}
      BY <3>1, Zenon DEF Records
    <3>3. Append(chain, current) \in Seq(Keys)
      BY <3>1 DEF WalkTypeOK
    <3>4. finished(Append(chain, current)) \in {"ok", "UnexpectedRecords"}
      BY Zenon DEF finished
    <3> QED
      BY <2>2, <3>1, <3>2, <3>3, <3>4, Zenon DEF WalkTypeOK, Visit, fail, inputs, Errors
  <2>3. CASE UNCHANGED walk_vars
    BY <2>3, Zenon DEF WalkTypeOK, walk_vars
  <2> QED
    BY <2>1, <2>2, <2>3, Zenon DEF WalkNext
<1> QED
  BY <1>1, <1>2, PTL DEF WalkSpec
-----------------------------------------------------------------------------
(* The walk so far *)

\* The chain holds no record twice.
LEMMA ChainFinite ==
    ASSUME WalkTypeOK
    PROVE  IsFiniteSet(Range(chain)) /\ Range(chain) \subseteq Keys
<1>1. Range(chain) \subseteq Keys
  BY DEF WalkTypeOK, Range
<1> QED
  BY <1>1, FS_Subset, InputAssumption, Zenon

\* The iteration that accepts a record extends the newest part of the history by one.
LEMMA AcceptStep ==
    ASSUME WalkTypeOK, WalkInv, status = "walking",
           Len(chain) # MaxChainLength, current \notin Range(chain),
           source = "proof" => current \in proof,
           content[current].signer = owner,
           chain = <<>> => content[current].version = pointer.version,
           chain # <<>> => ~NotOlder(content[current].version),
           chain' = Append(chain, current),
           newer_version' = content[current].version,
           UNCHANGED inputs,
           \/ /\ content[current].prev = End
              /\ status' = finished(chain')
              /\ UNCHANGED current
           \/ /\ content[current].prev # End
              /\ current' = content[current].prev
              /\ UNCHANGED status
    PROVE  WalkInv'
<1> USE VersionsAssumption, LengthAssumption
<1> DEFINE n == Len(chain)
<1>0. /\ current \in Keys /\ content \in [Keys -> Records] /\ n \in Nat /\ chain \in Seq(Keys)
      /\ \A k \in Keys : content[k].version \in Nat
      /\ UNCHANGED <<content, pointer, owner, source, proof>>
  <2>1. current \in Keys /\ content \in [Keys -> Records] /\ n \in Nat /\ chain \in Seq(Keys)
    BY DEF WalkTypeOK
  <2>2. \A r \in Records : r.version \in Nat
    BY Zenon DEF Records
  <2>3. UNCHANGED <<content, pointer, owner, source, proof>>
    BY Zenon DEF inputs
  <2> QED
    BY <2>1, <2>2, <2>3, Zenon
<1>1. /\ Range(chain') = Range(chain) \union {current}
      /\ \A i \in 1..n : chain'[i] = chain[i]
      /\ chain'[n + 1] = current
      /\ Len(chain') = n + 1
      /\ chain' # <<>>
  BY <1>0, RangeAppend
<1>2. chain = <<>> <=> n = 0
  BY <1>0
<1> HIDE DEF n
<1>a. Len(chain') <= MaxChainLength /\ Cardinality(Range(chain')) = Len(chain')
  <2>1. n <= MaxChainLength /\ n # MaxChainLength /\ Cardinality(Range(chain)) = n
    BY Zenon DEF WalkInv, n
  <2>2. Cardinality(Range(chain) \union {current}) = Cardinality(Range(chain)) + 1
    BY ChainFinite, FS_AddElement, Zenon
  <2> QED
    BY <1>0, <1>1, <2>1, <2>2
<1>b. \A i \in 1..Len(chain') : content'[chain'[i]].signer = owner'
  BY <1>0, <1>1 DEF WalkInv, n
<1>c. \A i \in 1..Len(chain') : chain'[i] \in Lineage(content, pointer.head)'
  <2>1. UNCHANGED Lineage(content, pointer.head)
    BY <1>0, Zenon DEF Lineage, Closed
  <2>2. \A i \in 1..n : chain'[i] \in Lineage(content, pointer.head)
    BY <1>1, Zenon DEF WalkInv, n
  <2>3. current \in Lineage(content, pointer.head)
    BY Zenon DEF WalkInv
  <2> QED
    BY <1>0, <1>1, <2>1, <2>2, <2>3
<1>d. \A i, j \in 1..Len(chain') :
        i < j => content'[chain'[j]].version < content'[chain'[i]].version
  <2>1. ASSUME NEW i \in 1..n PROVE content[current].version < content[chain[i]].version
    <3>1. chain # <<>> /\ newer_version = content[chain[n]].version /\ n \in 1..n
      BY <1>0, <1>2, <2>1 DEF WalkInv, n
    <3>2. content[current].version < content[chain[n]].version
      BY <1>0, <3>1 DEF NotOlder, WalkTypeOK
    <3>3. i = n \/ content[chain[n]].version < content[chain[i]].version
      BY <1>0, <3>1 DEF WalkInv, n
    <3>4. chain[n] \in Keys /\ chain[i] \in Keys
      BY <1>0, <3>1 DEF n
    <3> QED
      BY <1>0, <3>2, <3>3, <3>4
  <2>2. \A i, j \in 1..n : i < j => content[chain[j]].version < content[chain[i]].version
    BY Zenon DEF WalkInv, n
  <2> QED
    <3> TAKE i, j \in 1..Len(chain')
    <3> HAVE i < j
    <3>1. CASE j = n + 1
      BY <1>0, <1>1, <2>1, <3>1
    <3>2. CASE j # n + 1
      <4>1. i \in 1..n /\ j \in 1..n
        BY <1>0, <1>1, <3>2
      <4> QED
        BY <1>0, <1>1, <2>2, <4>1, Zenon
    <3> QED
      BY <3>1, <3>2, Zenon
<1>e. \A i \in 1..(Len(chain') - 1) : content'[chain'[i]].prev = chain'[i + 1]
  <2>1. \A i \in 1..(n - 1) : content[chain[i]].prev = chain[i + 1]
    BY Zenon DEF WalkInv, n
  <2>2. n # 0 => content[chain[n]].prev = current
    BY <1>2, Zenon DEF WalkInv, n
  <2> QED
    BY <1>0, <1>1, <2>1, <2>2
<1>f. source' = "proof" => Range(chain') \subseteq proof'
  BY <1>0, <1>1, Zenon DEF WalkInv
<1>g. /\ chain'[1] = pointer'.head
      /\ content'[pointer'.head].version = pointer'.version
      /\ newer_version' = content'[chain'[Len(chain')]].version
  BY <1>0, <1>1, <1>2 DEF WalkInv, n
<1>h. latest_is_valid(pointer, owner)' /\ pointer'.head \in Keys
  BY <1>0, Zenon DEF WalkInv, latest_is_valid
<1>i. status' # "start"
  BY Zenon DEF finished
<1>j. status' = "walking" =>
        /\ current' \in Lineage(content, pointer.head)'
        /\ content'[chain'[Len(chain')]].prev = current'
  <2>1. UNCHANGED Lineage(content, pointer.head)
    BY <1>0, Zenon DEF Lineage, Closed
  <2>2. finished(chain') # "walking"
    BY Zenon DEF finished
  <2>3. content[current].prev # End => content[current].prev \in Lineage(content, pointer.head)
    BY <1>0, PrevInLineage, Zenon DEF WalkInv
  <2> QED
    BY <1>0, <1>1, <2>1, <2>2, <2>3, Zenon
<1>k. status' = "ok" =>
        /\ content'[chain'[Len(chain')]].prev = End
        /\ source' = "proof" => Len(chain') = Cardinality(proof')
  BY <1>0, <1>1, Zenon DEF finished
<1> QED
  BY <1>1, <1>a, <1>b, <1>c, <1>d, <1>e, <1>f, <1>g, <1>h, <1>i, <1>j, <1>k, Zenon DEF WalkInv

\* A failure, and the checks before the loop, leave the chain as it is.
LEMMA InvariantStep == WalkTypeOK /\ WalkInv /\ [WalkNext]_walk_vars => WalkInv'
<1> SUFFICES ASSUME WalkTypeOK, WalkInv, [WalkNext]_walk_vars PROVE WalkInv'
  BY Zenon
<1>1. ASSUME NEW error \in Errors, fail(error) PROVE WalkInv'
  <2>1. error \notin {"start", "walking", "ok"}
    BY <1>1, Zenon DEF Errors
  <2> QED
    BY <1>1, <2>1, Zenon DEF WalkInv, fail, inputs, Lineage, Closed, latest_is_valid
<1>2. CASE Start
  <2>1. CASE \E error \in Errors : fail(error)
    BY <1>1, <2>1, Zenon
  <2>2. CASE /\ latest_is_valid(pointer, owner) /\ pointer.head # End
             /\ current' = pointer.head
             /\ status' = "walking"
             /\ UNCHANGED <<inputs, newer_version, chain>>
    <3>1. pointer.head \in Keys /\ chain = <<>>
      BY <1>2, <2>2, Zenon DEF WalkTypeOK, LatestPointers, WalkInv, Start
    <3>2. pointer.head \in Lineage(content, pointer.head)
      BY <3>1, HeadInLineage, Zenon
    <3> QED
      BY <2>2, <3>1, <3>2 DEF WalkInv, inputs, Lineage, Closed, latest_is_valid
  <2> QED
    BY <1>2, <2>1, <2>2, Zenon DEF Start, Errors
<1>3. CASE Visit
  <2>1. CASE \E error \in Errors : fail(error)
    BY <1>1, <2>1, Zenon
  <2>2. CASE ~\E error \in Errors : fail(error)
    <3>1. PICK fetched \in IF source = "proof" THEN {current \in proof} ELSE BOOLEAN :
            Visit!2!(fetched)
      BY <1>3, Zenon DEF Visit
    <3>2. /\ status = "walking"
          /\ Len(chain) # MaxChainLength /\ current \notin Range(chain)
          /\ fetched
          /\ content[current].signer = owner
          /\ chain = <<>> => content[current].version = pointer.version
          /\ chain # <<>> => ~NotOlder(content[current].version)
          /\ chain' = Append(chain, current)
          /\ newer_version' = content[current].version
          /\ UNCHANGED inputs
          /\ \/ /\ content[current].prev = End
                /\ status' = finished(chain')
                /\ UNCHANGED current
             \/ /\ content[current].prev # End
                /\ current' = content[current].prev
                /\ UNCHANGED status
      BY <1>3, <2>2, <3>1, Zenon DEF Visit, Errors
    <3>3. source = "proof" => current \in proof
      BY <3>1, <3>2, Zenon
    <3> QED
      BY <3>2, <3>3, AcceptStep, Zenon
  <2> QED
    BY <2>1, <2>2, Zenon
<1>4. CASE UNCHANGED walk_vars
  BY <1>4, Zenon DEF WalkInv, walk_vars, Lineage, Closed, latest_is_valid
<1> QED
  BY <1>2, <1>3, <1>4, Zenon DEF WalkNext

\* The chain is at all times the newest part of the pointer's history, strictly
\* decreasing in version and without repetition.
THEOREM WalkInvariant == WalkSpec => []WalkInv
<1>1. WalkInit => WalkInv
  <2> SUFFICES ASSUME WalkInit
               PROVE  WalkInv
    OBVIOUS
  <2>1. chain = <<>> /\ status = "start"
    BY Zenon DEF WalkInit
  <2>2. Len(chain) = 0 /\ 1..Len(chain) = {} /\ 1..(Len(chain) - 1) = {} /\ DOMAIN chain = {}
    BY <2>1
  <2>3. Range(chain) = {}
    BY <2>2, Zenon DEF Range
  <2>4. Cardinality(Range(chain)) = Len(chain)
    BY <2>2, <2>3, FS_EmptySet, Zenon
  <2>5. Len(chain) <= MaxChainLength
    BY <2>2, LengthAssumption
  <2>6. status \notin {"walking", "ok"} /\ status # "walking" /\ status # "ok"
    BY <2>1
  <2> QED  BY <2>1, <2>2, <2>3, <2>4, <2>5, <2>6, Zenon DEF WalkInv
<1> QED
  BY <1>1, WalkTypeCorrect, InvariantStep, PTL DEF WalkSpec
-----------------------------------------------------------------------------
(* Soundness *)

\* Positions before the last one.
LEMMA NotTheLast ==
    ASSUME NEW n \in Nat, NEW i \in 1..n, i # n
    PROVE  i \in 1..(n - 1) /\ i + 1 \in 1..n /\ i < i + 1
OBVIOUS

\* Once the first version is reached, the chain is the whole history.
LEMMA WholeHistory ==
    WalkTypeOK /\ WalkInv /\ chain # <<>> /\ content[chain[Len(chain)]].prev = End
        => Range(chain) = Lineage(content, pointer.head)
<1> SUFFICES ASSUME WalkTypeOK, WalkInv, chain # <<>>, content[chain[Len(chain)]].prev = End
             PROVE  Range(chain) = Lineage(content, pointer.head)
  BY Zenon
<1>1. chain \in Seq(Keys) /\ Len(chain) \in Nat \ {0} /\ DOMAIN chain = 1..Len(chain)
  BY DEF WalkTypeOK
<1>2. Range(chain) \subseteq Lineage(content, pointer.head)
  BY <1>1, Zenon DEF WalkInv, Range
<1>3. pointer.head \in Range(chain)
  <2>1. 1 \in DOMAIN chain
    BY <1>1
  <2> QED
    BY <2>1, Zenon DEF WalkInv, Range
<1>4. Closed(content, Range(chain))
  <2> SUFFICES ASSUME NEW i \in 1..Len(chain)
               PROVE  content[chain[i]].prev \in Range(chain) \union {End}
    BY <1>1, Zenon DEF Closed, Range
  <2>1. CASE i = Len(chain)
    BY <2>1, Zenon
  <2>2. CASE i # Len(chain)
    <3>1. i \in 1..(Len(chain) - 1) /\ i + 1 \in 1..Len(chain)
      BY <1>1, <2>2, NotTheLast, Zenon
    <3>2. content[chain[i]].prev = chain[i + 1]
      BY <3>1, Zenon DEF WalkInv
    <3> QED
      BY <1>1, <3>1, <3>2, Zenon DEF Range
  <2> QED
    BY <2>1, <2>2, Zenon
<1>5. Range(chain) \subseteq Keys
  BY <1>1 DEF Range
<1> QED
  BY <1>2, <1>3, <1>4, <1>5, LineageLeast, Zenon

\* What a successful walk returns is the whole genuine history of the pointer, whatever
\* the records, the order of lookups failing and the length limit.
THEOREM AcceptedHistoriesAreGenuine == WalkSpec => []WalkIsSound
<1>1. WalkTypeOK /\ WalkInv => WalkIsSound
  <2> SUFFICES ASSUME WalkTypeOK, WalkInv, status = "ok"
               PROVE  /\ Genuine(content, pointer, owner)
                      /\ Range(chain) = Lineage(content, pointer.head)
                      /\ \A i \in 1..(Len(chain) - 1) : content[chain[i]].prev = chain[i + 1]
                      /\ source = "proof" => proof = Lineage(content, pointer.head)
    BY Zenon DEF WalkIsSound
  <2>1. chain \in Seq(Keys) /\ Len(chain) \in Nat /\ DOMAIN chain = 1..Len(chain)
    BY DEF WalkTypeOK
  <2>2. Range(chain) = Lineage(content, pointer.head)
    BY WholeHistory, Zenon DEF WalkInv
  <2>3. \A i \in 1..(Len(chain) - 1) : content[chain[i]].prev = chain[i + 1]
    BY Zenon DEF WalkInv
  <2>4. ASSUME NEW r \in Lineage(content, pointer.head)
        PROVE  /\ content[r].signer = owner
               /\ content[r].prev # End => content[content[r].prev].version < content[r].version
    <3>1. PICK i \in 1..Len(chain) : r = chain[i]
      BY <2>1, <2>2, Zenon DEF Range
    <3>2. content[r].signer = owner
      BY <3>1, Zenon DEF WalkInv
    <3>3. ASSUME content[r].prev # End
          PROVE  content[content[r].prev].version < content[r].version
      <4>1. i # Len(chain)
        BY <3>1, <3>3, Zenon DEF WalkInv
      <4>2. i \in 1..(Len(chain) - 1) /\ i + 1 \in 1..Len(chain) /\ i < i + 1
        BY <2>1, <4>1, NotTheLast, Zenon
      <4> QED
        BY <2>3, <3>1, <4>2, Zenon DEF WalkInv
    <3> QED
      BY <3>2, <3>3, Zenon
  <2>5. Cardinality(Lineage(content, pointer.head)) <= MaxChainLength
    BY <2>2, Zenon DEF WalkInv
  <2>6. Genuine(content, pointer, owner)
    BY <2>4, <2>5, Zenon DEF Genuine, WalkInv
  <2>7. ASSUME source = "proof" PROVE proof = Range(chain)
    <3>1. IsFiniteSet(proof)
      BY InputAssumption, FS_Subset, Zenon DEF WalkTypeOK
    <3>2. Range(chain) \subseteq proof /\ Cardinality(Range(chain)) = Cardinality(proof)
      BY <2>7, Zenon DEF WalkInv
    <3> QED
      BY <3>1, <3>2, FS_Subset, Zenon
  <2> QED
    BY <2>2, <2>3, <2>6, <2>7, Zenon
<1> QED
  BY <1>1, WalkTypeCorrect, WalkInvariant, PTL
-----------------------------------------------------------------------------
(* Completeness *)

\* In a genuine history the next record is older than everything walked so far.
LEMMA NextIsNew ==
    ASSUME WalkTypeOK, WalkInv, status = "walking", Genuine(content, pointer, owner)
    PROVE  current \notin Range(chain)
<1>1. /\ chain \in Seq(Keys) /\ Len(chain) \in Nat /\ DOMAIN chain = 1..Len(chain)
      /\ content \in [Keys -> Records] /\ current \in Keys
  BY DEF WalkTypeOK
<1>2. \A k \in Keys : content[k].version \in Nat
  BY <1>1, VersionsAssumption, Zenon DEF Records
<1> SUFFICES ASSUME NEW i \in 1..Len(chain), current = chain[i] PROVE FALSE
  BY <1>1, Zenon DEF Range
<1> DEFINE n == Len(chain)
<1>3. chain # <<>> /\ n \in 1..n
  BY <1>1
<1>4. /\ chain[n] \in Lineage(content, pointer.head) /\ content[chain[n]].prev = current
      /\ chain[n] \in Keys
  BY <1>1, <1>3 DEF WalkInv
<1>5. content[current].version < content[chain[n]].version
  BY <1>1, <1>4, EndAssumption, Zenon DEF Genuine
<1>6. i = n \/ content[chain[n]].version < content[chain[i]].version
  BY <1>1, <1>3 DEF WalkInv
<1>7. content[chain[i]].version \in Nat /\ content[chain[n]].version \in Nat
  BY <1>1, <1>2, <1>4, Zenon
<1>8. content[chain[i]].version < content[chain[n]].version
  BY <1>5, Zenon
<1>9. content[chain[n]].version < content[chain[n]].version \/ content[chain[n]].version < content[chain[i]].version
  BY <1>6, <1>8, Zenon
<1> QED
  BY <1>7, <1>8, <1>9

\* In a genuine history the limit is never met before the first version.
LEMMA LimitNotMet ==
    ASSUME WalkTypeOK, WalkInv, status = "walking", Genuine(content, pointer, owner)
    PROVE  Len(chain) # MaxChainLength
<1>1. IsFiniteSet(Range(chain)) /\ current \notin Range(chain)
  BY ChainFinite, NextIsNew, Zenon
<1>2. Range(chain) \union {current} \subseteq Lineage(content, pointer.head)
  BY DEF WalkInv, Range, WalkTypeOK
<1>3. Cardinality(Range(chain) \union {current}) = Len(chain) + 1
  BY <1>1, FS_AddElement, Zenon DEF WalkInv
<1>4. Cardinality(Range(chain) \union {current}) <= Cardinality(Lineage(content, pointer.head))
  BY <1>2, LineageFinite, FS_Subset, Zenon
<1>5. Cardinality(Lineage(content, pointer.head)) <= MaxChainLength
  BY Zenon DEF Genuine
<1>6. Cardinality(Lineage(content, pointer.head)) \in Nat /\ Len(chain) \in Nat
  BY LineageFinite, FS_CardinalityType DEF WalkTypeOK
<1> QED
  BY <1>3, <1>4, <1>5, <1>6, LengthAssumption

\* No check of the loop fails on a genuine history supplied in full.
LEMMA VisitAccepts ==
    ASSUME WalkTypeOK, WalkInv, WalkInv', WalkTypeOK', Visit, source = "proof",
           ValidProof(content, pointer, owner, proof)
    PROVE  status' \notin Errors
<1> USE VersionsAssumption
<1>1. /\ status = "walking" /\ current \in Keys /\ current \in Lineage(content, pointer.head)
      /\ Genuine(content, pointer, owner)
  BY Zenon DEF Visit, WalkTypeOK, WalkInv, ValidProof
<1>2. Len(chain) # MaxChainLength /\ current \notin Range(chain)
  BY <1>1, LimitNotMet, NextIsNew, Zenon
<1>3. current \in proof /\ content[current].signer = owner
  BY <1>1, Zenon DEF ValidProof, Genuine
<1>4. chain = <<>> => content[current].version = pointer.version
  BY <1>1, Zenon DEF WalkInv, Genuine
<1>5. ASSUME chain # <<>> PROVE ~NotOlder(content[current].version)
  <2>1. Len(chain) \in 1..Len(chain)
    BY <1>5 DEF WalkTypeOK
  <2>2. /\ content[chain[Len(chain)]].prev = current /\ current # End
        /\ newer_version = content[chain[Len(chain)]].version
        /\ chain[Len(chain)] \in Lineage(content, pointer.head)
    BY <1>1, <1>5, <2>1, EndAssumption, Zenon DEF WalkInv
  <2>3. content[current].version < newer_version
    BY <1>1, <2>2, Zenon DEF Genuine
  <2>4. content[current].version \in Nat /\ newer_version \in Nat
    BY <1>1, Zenon DEF WalkTypeOK, Records
  <2> QED
    BY <2>3, <2>4 DEF NotOlder
<1>6. /\ chain' = Append(chain, current) /\ UNCHANGED inputs
      /\ \/ content[current].prev = End /\ status' = finished(chain')
         \/ status' = "walking"
  <2>1. PICK fetched \in {TRUE} : Visit!2!(fetched)
    BY <1>3, Zenon DEF Visit
  <2> QED
    BY <1>1, <1>2, <1>3, <1>4, <1>5, <2>1, Zenon DEF Visit
<1>7. CASE status' = "walking"
  BY <1>7, Zenon DEF Errors
<1>8. CASE content[current].prev = End /\ status' = finished(chain')
  <2>1. /\ UNCHANGED <<content, pointer, source, proof>>
        /\ chain' # <<>> /\ chain'[Len(chain')] = current
    BY <1>1, <1>6, RangeAppend DEF inputs, WalkTypeOK
  <2>2. (Range(chain) = Lineage(content, pointer.head))'
    <3>1. (chain # <<>>)' /\ (content[chain[Len(chain)]].prev = End)'
      BY <1>8, <2>1, Zenon
    <3> QED
      BY <3>1, WholeHistory, PTL
  <2>3. Range(chain') = proof
    BY <2>1, <2>2, Zenon DEF ValidProof, Lineage, Closed
  <2>4. Len(chain') = Cardinality(proof)
    BY <2>3, Zenon DEF WalkInv
  <2> QED
    BY <1>8, <2>1, <2>4, Zenon DEF finished, Errors
<1> QED
  BY <1>6, <1>7, <1>8, Zenon
\* validate_chain_proof refuses no genuine history supplied in full and without
\* repetition, up to and including one of MAX_CHAIN_LENGTH records.
THEOREM GenuineProofsAreAccepted == WalkSpec => []WalkIsComplete
<1>1. WalkInit => WalkIsComplete
  BY Zenon DEF WalkInit, WalkIsComplete, Errors
<1>2. /\ WalkTypeOK /\ WalkTypeOK' /\ WalkInv /\ WalkInv'
      /\ WalkIsComplete
      /\ [WalkNext]_walk_vars
      => WalkIsComplete'
  <2> SUFFICES ASSUME WalkTypeOK, WalkTypeOK', WalkInv, WalkInv', WalkIsComplete, [WalkNext]_walk_vars,
                      source' = "proof", status' \in Errors, repeats' = FALSE,
                      ValidProof(content, pointer, owner, proof)'
               PROVE  FALSE
    BY Zenon DEF WalkIsComplete, WalkTypeOK
  <2>1. UNCHANGED inputs
    BY Zenon DEF WalkNext, Start, Visit, fail, walk_vars, inputs
  <2>2. source = "proof" /\ ~repeats /\ ValidProof(content, pointer, owner, proof)
    BY <2>1 DEF inputs, ValidProof, Genuine, Lineage, Closed, latest_is_valid
  <2>3. CASE Start
    <3>1. Cardinality(proof) <= MaxChainLength /\ Cardinality(proof) \in Nat
      <4>1. Cardinality(proof) \in Nat
        BY <2>2, LineageFinite, FS_CardinalityType, Zenon DEF ValidProof
      <4> QED
        BY <2>2, <4>1, Zenon DEF ValidProof, Genuine
    <3>2. ~TooManySupplied
      BY <2>2, <3>1, LengthAssumption DEF TooManySupplied
    <3>3. latest_is_valid(pointer, owner) /\ pointer.head # End
      BY <2>2, EndAssumption, Zenon DEF ValidProof, Genuine
    <3>4. status' = "walking"
      BY <2>2, <2>3, <3>2, <3>3, Zenon DEF Start
    <3> QED
      BY <3>4, Zenon DEF Errors
  <2>4. CASE Visit
    BY <2>2, <2>4, VisitAccepts, Zenon
  <2>5. CASE UNCHANGED walk_vars
    BY <2>2, <2>5, Zenon DEF WalkIsComplete, walk_vars
  <2> QED
    BY <2>3, <2>4, <2>5, Zenon DEF WalkNext
<1> QED
  BY <1>1, <1>2, WalkTypeCorrect, WalkInvariant, PTL DEF WalkSpec
-----------------------------------------------------------------------------
(* The STORE handler of a node *)

\* What a request of a task at a given place looks like.
LEMMA RequestTypes ==
    ASSUME TypeOK, NEW t \in Tasks
    PROVE  /\ pc[t] = "blob" =>
               /\ request[t].value \in BlobKeys /\ request[t].key = request[t].value
               /\ request[t].value \notin LatestPointers
           /\ pc[t] \in {"dns", "commit"} =>
               /\ request[t].value \in LatestPointers /\ request[t].key = LatestKey
               /\ request[t].value \notin BlobKeys
BY ValuesAssumption DEF TypeOK, value_key

\* Returning from the handler keeps the types.
LEMMA FinishTypes ==
    ASSUME TypeOK, NEW t \in Tasks, finish(t)
    PROVE  /\ pc' \in [Tasks -> {"idle", "blob", "dns", "commit"}]
           /\ request' \in [Tasks -> Requests \union {None}]
           /\ pc'[t] = "idle"
           /\ \A u \in Tasks : u # t => pc'[u] = pc[u] /\ request'[u] = request[u]
           /\ \A u \in Tasks : pc'[u] # "idle" =>
               u # t /\ request'[u] \in Requests /\ request'[u].key = value_key(request'[u].value)
           /\ \A u \in Tasks : pc'[u] = "blob" => request'[u].value \in BlobKeys
           /\ \A u \in Tasks : pc'[u] \in {"dns", "commit"} => request'[u].value \in LatestPointers
<1>1. /\ pc' \in [Tasks -> {"idle", "blob", "dns", "commit"}]
      /\ request' \in [Tasks -> Requests \union {None}]
      /\ pc'[t] = "idle"
      /\ \A u \in Tasks : u # t => pc'[u] = pc[u] /\ request'[u] = request[u]
  BY DEF TypeOK, finish
<1> QED
  BY <1>1 DEF TypeOK

\* Every value lies under its own key, and a task past the checks holds a checked request.
THEOREM TypeCorrect == Spec => []TypeOK
<1>1. Init => TypeOK
  <2> SUFFICES ASSUME Init PROVE TypeOK
    OBVIOUS
  <2>1. published \subseteq Owners
    BY DEF Init
  <2> QED
    BY <2>1 DEF Init, TypeOK
<1>2. TypeOK /\ [Next]_vars => TypeOK'
  <2> SUFFICES ASSUME TypeOK, [Next]_vars PROVE TypeOK'
    OBVIOUS
  <2>1. CASE ChangeDns
    BY <2>1 DEF ChangeDns, TypeOK
  <2>2. ASSUME NEW t \in Tasks, Receive(t) PROVE TypeOK'
    <3>1. PICK r \in Requests :
            /\ r.key = value_key(r.value)
            /\ request' = [request EXCEPT ![t] = r]
            /\ pc' = [pc EXCEPT ![t] = IF r.value \in BlobKeys THEN "blob" ELSE "dns"]
      BY <2>2, Zenon DEF Receive
    <3>2. r.value \in BlobKeys \union LatestPointers
      BY RequestsAssumption
    <3>3. /\ pc' \in [Tasks -> {"idle", "blob", "dns", "commit"}]
          /\ request' \in [Tasks -> Requests \union {None}]
          /\ request'[t] = r
          /\ pc'[t] = IF r.value \in BlobKeys THEN "blob" ELSE "dns"
          /\ \A u \in Tasks : u # t => pc'[u] = pc[u] /\ request'[u] = request[u]
      BY <3>1 DEF TypeOK
    <3>4. UNCHANGED <<values, dns, published, acked>>
      BY <2>2 DEF Receive
    <3> QED
      BY <3>1, <3>2, <3>3, <3>4 DEF TypeOK, value_key
  <2>3. ASSUME NEW t \in Tasks, refuse(t) PROVE TypeOK'
    BY <2>3, FinishTypes DEF refuse, TypeOK, value_key
  <2>4. ASSUME NEW t \in Tasks, stored(t), pc[t] # "idle" PROVE TypeOK'
    <3>1. /\ request[t].key \in BlobKeys /\ request[t].value \in BlobKeys \union LatestPointers
          /\ request[t].key = value_key(request[t].value)
      BY <2>4, RequestsAssumption DEF TypeOK
    <3>2. /\ values' \in [BlobKeys -> {None} \union BlobKeys \union LatestPointers]
          /\ \A k \in BlobKeys : values'[k] # None => value_key(values'[k]) = k
      BY <2>4, <3>1 DEF stored, TypeOK
    <3>3. acked' \subseteq BlobKeys \union LatestPointers
      BY <2>4, <3>1 DEF stored, TypeOK
    <3>4. finish(t) /\ UNCHANGED <<dns, published>>
      BY <2>4 DEF stored
    <3> QED
      BY <3>2, <3>3, <3>4, FinishTypes DEF TypeOK, value_key
  <2>5. ASSUME NEW t \in Tasks, ResolveDns(t) PROVE TypeOK'
    <3>1. CASE refuse(t)
      BY <2>3, <3>1
    <3>2. CASE pc' = [pc EXCEPT ![t] = "commit"] /\ UNCHANGED <<values, request, dns, published, acked>>
      BY <2>5, <3>2 DEF ResolveDns, TypeOK, value_key
    <3> QED
      BY <2>5, <3>1, <3>2 DEF ResolveDns
  <2>6. ASSUME NEW t \in Tasks, StoreBlob(t) \/ Commit(t) PROVE TypeOK'
    <3>1. pc[t] # "idle" /\ (refuse(t) \/ stored(t))
      BY <2>6 DEF StoreBlob, Commit
    <3> QED
      BY <2>3, <2>4, <3>1
  <2>7. CASE UNCHANGED vars
    BY <2>7 DEF vars, TypeOK, value_key
  <2> QED
    BY <2>1, <2>2, <2>5, <2>6, <2>7 DEF Next
<1> QED
  BY <1>1, <1>2, PTL DEF Spec
-----------------------------------------------------------------------------
(* What is stored *)

\* The three facts a step relies on and keeps.
Inv == StoredIsGenuine /\ VerifiedAtCommit /\ AcknowledgedIsKept

\* A step that stores nothing keeps them, if it lets no unchecked request through.
LEMMA NothingStored ==
    ASSUME TypeOK, Inv, UNCHANGED <<values, acked>>, published \subseteq published',
           \A t \in Tasks : pc'[t] = "commit" =>
               \E o \in published' : ValidProof(Content, request'[t].value, o, request'[t].proof)
    PROVE  Inv'
<1>1. UNCHANGED latest
  BY DEF latest
<1>2. StoredIsGenuine'
  BY <1>1 DEF Inv, StoredIsGenuine
<1>3. VerifiedAtCommit'
  BY DEF VerifiedAtCommit
<1>4. AcknowledgedIsKept'
  BY <1>1 DEF Inv, AcknowledgedIsKept
<1> QED
  BY <1>2, <1>3, <1>4 DEF Inv

\* Tasks other than the one that returns still hold checked requests.
LEMMA FinishVerified ==
    ASSUME TypeOK, Inv, NEW t \in Tasks, finish(t), UNCHANGED published
    PROVE  \A u \in Tasks : pc'[u] = "commit" =>
               \E o \in published' : ValidProof(Content, request'[u].value, o, request'[u].proof)
<1> SUFFICES ASSUME NEW u \in Tasks, pc'[u] = "commit"
             PROVE  \E o \in published' : ValidProof(Content, request'[u].value, o, request'[u].proof)
  OBVIOUS
<1>1. u # t /\ pc[u] = "commit" /\ request'[u] = request[u]
  BY FinishTypes
<1> QED
  BY <1>1 DEF Inv, VerifiedAtCommit

\* A pointer that passes the check at the lock has the stored history behind it.
LEMMA CommitExtends ==
    ASSUME TypeOK, Inv, NEW t \in Tasks, pc[t] = "commit", latest \in LatestPointers,
           continues_previous(Content, latest, request[t].value, request[t].proof)
    PROVE  /\ latest.head \in Keys
           /\ latest.head \in Lineage(Content, request[t].value.head)
           /\ Lineage(Content, latest.head) \subseteq Lineage(Content, request[t].value.head)
<1> DEFINE new == request[t].value
<1>1. PICK o \in published : ValidProof(Content, new, o, request[t].proof)
  BY DEF Inv, VerifiedAtCommit
<1>2. PICK u \in published : Genuine(Content, latest, u)
  BY DEF Inv, StoredIsGenuine
<1>3. new \in LatestPointers
  BY RequestTypes
<1>4. Genuine(Content, new, o) /\ request[t].proof = Lineage(Content, new.head)
  BY <1>1 DEF ValidProof
<1>5. Lineage(Content, latest.head) \subseteq Lineage(Content, new.head)
  BY <1>2, <1>3, <1>4, ContentAssumption, ContinuesIffExtends, Zenon
<1>6. latest.head \in Keys
  BY <1>2 DEF Genuine
<1> QED
  BY <1>5, <1>6, HeadInLineage

\* Storing a checked pointer over nothing, a blob or a history it extends.
LEMMA CommitStep ==
    ASSUME TypeOK, Inv, NEW t \in Tasks, Commit(t)
    PROVE  Inv'
<1> DEFINE new == request[t].value
<1>1. pc[t] = "commit" /\ new \in LatestPointers /\ request[t].key = LatestKey /\ new \notin BlobKeys
  BY RequestTypes DEF Commit
<1>2. CASE refuse(t)
  BY <1>2, NothingStored, FinishVerified DEF refuse
<1>3. CASE ~refuse(t)
  <2>1. /\ stored(t)
        /\ latest \in LatestPointers =>
             continues_previous(Content, latest, new, request[t].proof)
    BY <1>1, <1>3 DEF Commit, latest
  <2>2. /\ values' = [values EXCEPT ![LatestKey] = new]
        /\ acked' = acked \union {new} /\ finish(t) /\ UNCHANGED published
    BY <1>1, <2>1 DEF stored
  <2>3. latest' = new /\ \A k \in BlobKeys : k # LatestKey => values'[k] = values[k]
    BY <2>2, LatestKeyAssumption DEF latest, TypeOK
  <2>4. PICK o \in published : ValidProof(Content, new, o, request[t].proof)
    BY <1>1 DEF Inv, VerifiedAtCommit
  <2>5. Genuine(Content, new, o) /\ new.head \in Keys
    BY <2>4, Zenon DEF ValidProof, Genuine
  <2>6. StoredIsGenuine'
    BY <2>2, <2>3, <2>5 DEF StoredIsGenuine
  <2>7. VerifiedAtCommit'
    BY <2>2, FinishVerified DEF VerifiedAtCommit
  <2>8. AcknowledgedIsKept'
    <3> SUFFICES ASSUME NEW v \in acked'
                 PROVE  IF v \in BlobKeys
                        THEN values'[v] = v \/ (v = LatestKey /\ latest' \in LatestPointers)
                        ELSE latest' \in LatestPointers /\ v.head \in Lineage(Content, latest'.head)
      BY DEF AcknowledgedIsKept
    <3>1. CASE v = new
      BY <1>1, <2>3, <2>5, <3>1, HeadInLineage
    <3>2. CASE v # new
      <4>1. v \in acked
        BY <2>2, <3>2
      <4>2. CASE v \in BlobKeys
        BY <1>1, <2>3, <4>1, <4>2 DEF Inv, AcknowledgedIsKept
      <4>3. CASE v \notin BlobKeys
        <5>1. latest \in LatestPointers /\ v.head \in Lineage(Content, latest.head)
          BY <4>1, <4>3 DEF Inv, AcknowledgedIsKept
        <5>2. Lineage(Content, latest.head) \subseteq Lineage(Content, new.head)
          BY <1>1, <2>1, <5>1, CommitExtends
        <5> QED
          BY <1>1, <2>3, <4>3, <5>1, <5>2
      <4> QED
        BY <4>2, <4>3
    <3> QED
      BY <3>1, <3>2
  <2> QED
    BY <2>6, <2>7, <2>8 DEF Inv
<1> QED
  BY <1>2, <1>3

\* Storing a blob where there is no pointer.
LEMMA StoreBlobStep ==
    ASSUME TypeOK, Inv, NEW t \in Tasks, StoreBlob(t)
    PROVE  Inv'
<1> DEFINE blob == request[t].value
<1>1. /\ pc[t] = "blob" /\ blob \in BlobKeys /\ request[t].key = blob
      /\ blob \notin LatestPointers
  BY RequestTypes DEF StoreBlob
<1>2. CASE refuse(t)
  BY <1>2, NothingStored, FinishVerified DEF refuse
<1>3. CASE ~refuse(t)
  <2>1. stored(t) /\ values[blob] \notin LatestPointers
    BY <1>1, <1>3 DEF StoreBlob
  <2>2. /\ values' = [values EXCEPT ![blob] = blob]
        /\ acked' = acked \union {blob} /\ finish(t) /\ UNCHANGED published
    BY <1>1, <2>1 DEF stored
  <2>3. /\ values'[blob] = blob
        /\ \A k \in BlobKeys : k # blob => values'[k] = values[k]
        /\ latest' \in LatestPointers <=> latest \in LatestPointers
        /\ latest \in LatestPointers => latest' = latest
    BY <1>1, <2>1, <2>2, LatestKeyAssumption DEF TypeOK, latest
  <2>4. StoredIsGenuine'
    BY <2>2, <2>3 DEF Inv, StoredIsGenuine
  <2>5. VerifiedAtCommit'
    BY <2>2, FinishVerified DEF VerifiedAtCommit
  <2>6. AcknowledgedIsKept'
    BY <1>1, <2>2, <2>3 DEF Inv, AcknowledgedIsKept
  <2> QED
    BY <2>4, <2>5, <2>6 DEF Inv
<1> QED
  BY <1>2, <1>3
\* The steps that store nothing: receiving, resolving, and changes in DNS.
LEMMA OtherSteps ==
    ASSUME TypeOK, Inv,
           ChangeDns \/ UNCHANGED vars \/ \E t \in Tasks : Receive(t) \/ ResolveDns(t)
    PROVE  Inv'
<1>1. CASE ChangeDns
  <2>1. UNCHANGED <<values, acked, pc, request>> /\ published \subseteq published'
    BY <1>1 DEF ChangeDns
  <2>2. \A t \in Tasks : pc'[t] = "commit" =>
          \E o \in published' : ValidProof(Content, request'[t].value, o, request'[t].proof)
    BY <2>1 DEF Inv, VerifiedAtCommit
  <2> QED
    BY <2>1, <2>2, NothingStored, Zenon
<1>2. CASE UNCHANGED vars
  <2>1. UNCHANGED <<values, acked, pc, request, published>>
    BY <1>2 DEF vars
  <2> QED
    BY <2>1, NothingStored, Zenon DEF Inv, VerifiedAtCommit
<1>3. ASSUME NEW t \in Tasks, Receive(t) PROVE Inv'
  <2>1. UNCHANGED <<values, acked, published>>
    BY <1>3 DEF Receive
  <2>2. /\ pc'[t] # "commit"
        /\ \A u \in Tasks : u # t => pc'[u] = pc[u] /\ request'[u] = request[u]
    BY <1>3 DEF Receive, TypeOK
  <2> QED
    BY <2>1, <2>2, NothingStored, Zenon DEF Inv, VerifiedAtCommit
<1>4. ASSUME NEW t \in Tasks, ResolveDns(t) PROVE Inv'
  <2>1. CASE refuse(t)
    BY <2>1, NothingStored, FinishVerified, Zenon DEF refuse
  <2>2. CASE ~refuse(t)
    <3>1. /\ verified(request[t].value, request[t].proof)
          /\ pc' = [pc EXCEPT ![t] = "commit"]
          /\ UNCHANGED <<values, request, dns, published, acked>>
      BY <1>4, <2>2 DEF ResolveDns
    <3>2. dns \in published
      BY <3>1, Zenon DEF verified, TypeOK
    <3> QED
      BY <3>1, <3>2, NothingStored, Zenon DEF Inv, VerifiedAtCommit, verified, TypeOK
  <2> QED
    BY <2>1, <2>2
<1> QED
  BY <1>1, <1>2, <1>3, <1>4
\* The facts above hold in every reachable state.
THEOREM Invariance == Spec => []Inv
<1>1. Init => Inv
  <2>1. ASSUME Init PROVE latest = None /\ acked = {} /\ \A t \in Tasks : pc[t] = "idle"
    BY <2>1, LatestKeyAssumption DEF Init, latest
  <2> QED
    BY <2>1, ValuesAssumption DEF Inv, StoredIsGenuine, VerifiedAtCommit, AcknowledgedIsKept
<1>2. TypeOK /\ Inv /\ [Next]_vars => Inv'
  BY CommitStep, StoreBlobStep, OtherSteps DEF Next
<1> QED
  BY <1>1, <1>2, TypeCorrect, PTL DEF Spec

\* A node keeps what it answered STORED for, however STOREs of forks interleave.
THEOREM AcknowledgementsAreKept == Spec => []AcknowledgedIsKept
BY Invariance, PTL DEF Inv

\* A node holds only pointers to whole genuine histories.
THEOREM OnlyGenuineIsStored == Spec => []StoredIsGenuine
BY Invariance, PTL DEF Inv

\* The containment test of continues_previous agrees with the comparison of whole chains.
THEOREM ExtensionsExactly == Spec => []AcceptsExactlyExtensions
<1>1. TypeOK /\ Inv => AcceptsExactlyExtensions
  <2> SUFFICES ASSUME TypeOK, Inv, NEW t \in Tasks, pc[t] = "commit", latest \in LatestPointers
               PROVE  continues_previous(Content, latest, request[t].value, request[t].proof)
                        <=> compare_chains(Content, latest, request[t].value) \in {"Same", "Extends"}
    BY DEF AcceptsExactlyExtensions
  <2> DEFINE new == request[t].value
  <2>1. PICK o \in published : ValidProof(Content, new, o, request[t].proof)
    BY DEF Inv, VerifiedAtCommit
  <2>2. PICK u \in published : Genuine(Content, latest, u)
    BY DEF Inv, StoredIsGenuine
  <2>3. Genuine(Content, new, o) /\ request[t].proof = Lineage(Content, new.head)
    BY <2>1 DEF ValidProof
  <2>4. new \in LatestPointers
    BY RequestTypes
  <2>5. continues_previous(Content, latest, new, request[t].proof)
          <=> Lineage(Content, latest.head) \subseteq Lineage(Content, new.head)
    BY <2>2, <2>3, <2>4, ContentAssumption, ContinuesIffExtends, Zenon
  <2>6. compare_chains(Content, latest, new) \in {"Same", "Extends"}
          <=> Lineage(Content, latest.head) \subseteq Lineage(Content, new.head)
    BY DEF compare_chains
  <2> QED
    BY <2>5, <2>6
<1> QED
  BY <1>1, TypeCorrect, Invariance, PTL
-----------------------------------------------------------------------------
(* What a step may do to the pointer *)

\* The pointer changes only at the lock, to one that continues it.
LEMMA PointerStep ==
    ASSUME TypeOK, Inv, [Next]_vars, latest \in LatestPointers, latest' # latest
    PROVE  \E t \in Tasks :
               /\ pc[t] = "commit" /\ latest' = request[t].value
               /\ continues_previous(Content, latest, request[t].value, request[t].proof)
<1>1. ASSUME UNCHANGED values PROVE FALSE
  BY <1>1 DEF latest
<1>2. ASSUME NEW t \in Tasks, StoreBlob(t) PROVE FALSE
  <2>1. CASE refuse(t)
    BY <1>1, <2>1 DEF refuse
  <2>2. CASE ~refuse(t)
    <3>1. stored(t) /\ values[request[t].key] \notin LatestPointers
      BY <1>2, <2>2 DEF StoreBlob
    <3>2. request[t].key # LatestKey
      BY <3>1 DEF latest
    <3> QED
      BY <3>1, <3>2, LatestKeyAssumption DEF stored, latest, TypeOK
  <2> QED
    BY <2>1, <2>2
<1>3. ASSUME NEW t \in Tasks, Commit(t)
      PROVE  /\ pc[t] = "commit" /\ latest' = request[t].value
             /\ continues_previous(Content, latest, request[t].value, request[t].proof)
  <2>1. pc[t] = "commit" /\ request[t].key = LatestKey
    BY <1>3, RequestTypes DEF Commit
  <2>2. ~refuse(t)
    BY <1>1 DEF refuse
  <2>3. stored(t) /\ continues_previous(Content, latest, request[t].value, request[t].proof)
    BY <1>3, <2>1, <2>2, Zenon DEF Commit, latest
  <2>4. latest' = request[t].value
    BY <2>1, <2>3, LatestKeyAssumption, Zenon DEF stored, latest, TypeOK
  <2> QED
    BY <2>1, <2>3, <2>4
<1>4. ASSUME NEW t \in Tasks, Receive(t) \/ ResolveDns(t) PROVE FALSE
  BY <1>1, <1>4 DEF Receive, ResolveDns, refuse
<1>5. ~ChangeDns /\ ~UNCHANGED vars
  BY <1>1 DEF ChangeDns, vars
<1> QED
  BY <1>2, <1>3, <1>4, <1>5 DEF Next

\* A pointer is only ever replaced by a newer one whose history strictly extends its own.
THEOREM NoRollbackNoFork == Spec => NeverRollsBack
<1>1. TypeOK /\ Inv /\ [Next]_vars =>
        [(latest \in LatestPointers /\ latest' # latest) =>
            /\ latest' \in LatestPointers /\ latest'.version > latest.version
            /\ compare_chains(Content, latest, latest') = "Extends"]_vars
  <2> SUFFICES ASSUME TypeOK, Inv, [Next]_vars, latest \in LatestPointers, latest' # latest
               PROVE  /\ latest' \in LatestPointers /\ latest'.version > latest.version
                      /\ compare_chains(Content, latest, latest') = "Extends"
    OBVIOUS
  <2>1. PICK t \in Tasks :
          /\ pc[t] = "commit" /\ latest' = request[t].value
          /\ continues_previous(Content, latest, request[t].value, request[t].proof)
    BY PointerStep
  <2>2. latest' \in LatestPointers
    BY <2>1, RequestTypes
  <2>3. latest'.version > latest.version
    BY <2>1 DEF continues_previous
  <2>4. Lineage(Content, latest.head) \subseteq Lineage(Content, latest'.head)
    BY <2>1, CommitExtends
  <2>5. PICK o \in published : ValidProof(Content, latest', o, request[t].proof)
    BY <2>1 DEF Inv, VerifiedAtCommit
  <2>6. PICK u \in published : Genuine(Content, latest, u)
    BY DEF Inv, StoredIsGenuine
  <2>7. Lineage(Content, latest.head) # Lineage(Content, latest'.head)
    BY <2>2, <2>5, <2>6, ContentAssumption, SameHistorySamePointer DEF ValidProof
  <2> QED
    BY <2>2, <2>3, <2>4, <2>7 DEF compare_chains
<1> QED
  BY <1>1, TypeCorrect, Invariance, PTL DEF Spec, NeverRollsBack

\* A change of the domain's key freezes the package on the nodes that hold it.
THEOREM KeyChangeFreezes == Spec => SignerNeverChanges
<1>1. TypeOK /\ Inv /\ [Next]_vars =>
        [(latest \in LatestPointers) => latest'.signer = latest.signer]_vars
  <2> SUFFICES ASSUME TypeOK, Inv, [Next]_vars, latest \in LatestPointers, latest' # latest
               PROVE  latest'.signer = latest.signer
    OBVIOUS
  <2>1. PICK t \in Tasks :
          /\ pc[t] = "commit" /\ latest' = request[t].value
          /\ continues_previous(Content, latest, request[t].value, request[t].proof)
    BY PointerStep
  <2>2. latest' \in LatestPointers
    BY <2>1, RequestTypes
  <2>3. latest.head \in Keys /\ latest.head \in Lineage(Content, latest'.head)
    BY <2>1, CommitExtends
  <2>4. PICK o \in published : Genuine(Content, latest', o)
    BY <2>1 DEF Inv, VerifiedAtCommit, ValidProof
  <2>5. PICK u \in published : Genuine(Content, latest, u)
    BY DEF Inv, StoredIsGenuine
  <2>6. Content[latest.head].signer = latest'.signer
    BY <2>2, <2>3, <2>4, ContentAssumption, OneSigner
  <2>7. Content[latest.head].signer = latest.signer
    BY <2>3, <2>5, ContentAssumption, OneSigner, HeadInLineage
  <2> QED
    BY <2>6, <2>7
<1> QED
  BY <1>1, TypeCorrect, Invariance, PTL DEF Spec, SignerNeverChanges
=============================================================================
