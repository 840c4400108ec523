--------------------------- MODULE RegistryProofs ---------------------------
(***************************************************************************)
(* Registry for any number of shells and nodes, any commands, histories    *)
(* and DNS records, and any number of failures.                            *)
(***************************************************************************)
EXTENDS Registry, TLAPS

USE ZenonT(60)

-----------------------------------------------------------------------------
(* Histories *)

Entries == [version : Versions, blob : Blobs, signer : Signers]

LEMMA HistoryFacts ==
    ASSUME NEW h \in Histories
    PROVE  /\ h \in Seq(Entries) /\ Len(h) \in Nat
           /\ \A i \in 1..Len(h) : h[i] \in Entries /\ h[i].version \in Nat /\ h[i].blob \in Blobs
                /\ h[i].signer \in Signers /\ h[i].version \in Versions
           /\ h # <<>> => Len(h) >= 1 /\ Last(h) = h[Len(h)] /\ Last(h) \in Entries /\ version(h) \in Nat
           /\ Len(h) >= 1 => h # <<>>
<1>1. h \in Seq(Entries)
  BY DEF Histories, Entries
<1>2. Len(h) \in Nat /\ (h # <<>> => Len(h) >= 1) /\ (Len(h) >= 1 => h # <<>>)
  BY <1>1, SMTT(60)
<1>3. \A i \in 1..Len(h) : h[i] \in Entries
  BY <1>1, SMTT(60)
<1>4. \A e \in Entries : e.version \in Nat /\ e.blob \in Blobs /\ e.signer \in Signers /\ e.version \in Versions
  BY VersionsAssumption DEF Entries
<1>5. h # <<>> => Len(h) \in 1..Len(h)
  BY <1>2, SMTT(60)
<1> QED
  BY <1>1, <1>2, <1>3, <1>4, <1>5 DEF Last, version

\* A prefix, said entry by entry.
LEMMA PrefixDef ==
    ASSUME NEW g \in Histories, NEW h \in Histories
    PROVE  IsPrefix(g, h) <=> Len(g) <= Len(h) /\ \A i \in 1..Len(g) : g[i] = h[i]
<1>1. g \in Seq(Entries) /\ h \in Seq(Entries) /\ Len(g) \in Nat /\ Len(h) \in Nat
  BY HistoryFacts
<1>2. ASSUME Len(g) <= Len(h)
      PROVE  /\ SubSeq(h, 1, Len(g)) \in Seq(Entries) /\ Len(SubSeq(h, 1, Len(g))) = Len(g)
             /\ \A i \in 1..Len(g) : SubSeq(h, 1, Len(g))[i] = h[i]
  BY <1>1, <1>2, SMTT(60)
<1>3. ASSUME Len(g) <= Len(h)
      PROVE  (g = SubSeq(h, 1, Len(g))) <=> \A i \in 1..Len(g) : g[i] = h[i]
  BY <1>1, <1>2, <1>3, SMTT(60)
<1> QED
  BY <1>3 DEF IsPrefix

\* What a publication adds to a history.
LEMMA AppendFacts ==
    ASSUME NEW h \in Histories, NEW e \in Entries
    PROVE  /\ Append(h, e) \in Histories /\ Append(h, e) # <<>> /\ Len(Append(h, e)) = Len(h) + 1
           /\ Last(Append(h, e)) = e /\ Front(Append(h, e)) = h /\ IsPrefix(h, Append(h, e))
           /\ Ordered(h) /\ (h # <<>> => version(h) < e.version) => Ordered(Append(h, e))
<1> DEFINE g == Append(h, e)
<1>1. h \in Seq(Entries) /\ Len(h) \in Nat
  BY HistoryFacts
<1>2. /\ g \in Seq(Entries) /\ g # <<>> /\ Len(g) = Len(h) + 1 /\ g[Len(h) + 1] = e
      /\ \A i \in 1..Len(h) : g[i] = h[i]
  BY <1>1, SMTT(60)
<1>3. g \in Histories
  BY <1>2 DEF Histories, Entries
<1>4. Last(g) = e
  BY <1>2 DEF Last
<1>5. IsPrefix(h, g)
  <2> HIDE DEF g
  <2> QED
    BY <1>1, <1>2, <1>3, PrefixDef, SMTT(60)
<1>6. Front(g) = h
  <2>1. Front(g) = SubSeq(g, 1, Len(h))
    BY <1>1, <1>2, SMTT(60) DEF Front
  <2>2. SubSeq(h, 1, Len(h)) = h
    BY <1>1, SMTT(60)
  <2> QED
    BY <1>5, <2>1, <2>2 DEF IsPrefix
<1>7. Ordered(h) /\ (h # <<>> => version(h) < e.version) => Ordered(g)
  <2> SUFFICES ASSUME Ordered(h), h # <<>> => version(h) < e.version, NEW i \in 1..Len(g), NEW j \in 1..Len(g), i < j
               PROVE  g[i].version < g[j].version
    BY DEF Ordered
  <2>1. /\ i \in 1..Len(h) /\ g[i] = h[i] /\ h # <<>> /\ h[i].version \in Nat /\ version(h) = h[Len(h)].version
        /\ version(h) \in Nat /\ e.version \in Nat
    <3>1. i \in 1..Len(h) /\ g[i] = h[i] /\ h # <<>>
      BY <1>1, <1>2, HistoryFacts, SMTT(60)
    <3> QED
      BY <3>1, HistoryFacts, VersionsAssumption DEF version, Entries
  <2>2. CASE j = Len(h) + 1
    <3>1. h[i].version <= version(h)
      BY <1>1, <2>1, SMTT(60) DEF Ordered
    <3> QED
      BY <1>2, <2>1, <2>2, <3>1, SMTT(60)
  <2>3. CASE j <= Len(h)
    BY <1>1, <1>2, <2>1, <2>3, SMTT(60) DEF Ordered
  <2> QED
    BY <1>1, <1>2, <2>2, <2>3, SMTT(60)
<1> QED
  BY <1>2, <1>3, <1>4, <1>5, <1>6, <1>7

\* The older part of a history.
LEMMA SubSeqFacts ==
    ASSUME NEW h \in Histories, NEW i \in 0..Len(h)
    PROVE  /\ SubSeq(h, 1, i) \in Histories /\ Len(SubSeq(h, 1, i)) = i
           /\ \A j \in 1..i : SubSeq(h, 1, i)[j] = h[j]
           /\ i = Len(h) => SubSeq(h, 1, i) = h
           /\ i # 0 => SubSeq(h, 1, i) # <<>>
           /\ IsPrefix(SubSeq(h, 1, i), h)
<1> DEFINE g == SubSeq(h, 1, i)
<1>1. h \in Seq(Entries) /\ Len(h) \in Nat
  BY HistoryFacts
<1>2. g \in Seq(Entries) /\ Len(g) = i /\ \A j \in 1..i : g[j] = h[j]
  BY <1>1, SMTT(60)
<1>3. g \in Histories
  BY <1>2 DEF Histories, Entries
<1>4. i = Len(h) => g = h
  BY <1>1, SMTT(60)
<1>5. i # 0 => g # <<>>
  BY <1>2
<1>6. IsPrefix(g, h)
  <2> HIDE DEF g
  <2> QED
    BY <1>1, <1>2, <1>3, PrefixDef, SMTT(60)
<1> QED
  BY <1>2, <1>3, <1>4, <1>5, <1>6

-----------------------------------------------------------------------------
(* Commands *)

LEMMA Constant ==
    ASSUME [Next]_vars
    PROVE  command' = command /\ records' = records /\ republishing' = republishing
<1>1. ASSUME NEW c, Refuse(c) \/ Abandon(c) \/ CommandStep(c) PROVE UNCHANGED setting
  BY <1>1 DEF Refuse, Abandon, CommandStep, Show, Exit, Begin, NoKey, Fetch, FetchFails,
     Create, Write, WriteFails, Flush, FlushFails, AskLatest, AskMisses
<1>2. ASSUME NEW t, TaskStep(t) PROVE UNCHANGED setting
  BY <1>2 DEF TaskStep, Walk, WalkFails, Walked, Turn, StoreReply, StoreMisses, Called
<1>3. ASSUME NEW n, Republish(n) \/ Finish(n) \/ Restart(n) \/ Deliver(n) PROVE UNCHANGED setting
  BY <1>3 DEF Republish, Finish, Restart, Deliver
<1>4. ASSUME Quiet \/ UNCHANGED vars PROVE UNCHANGED setting
  BY <1>4 DEF Quiet, vars
<1>5. UNCHANGED setting
  BY <1>1, <1>2, <1>3, <1>4 DEF Next
<1> QED
  BY <1>5 DEF setting
-----------------------------------------------------------------------------
(* Types *)

\* The steps of a shell's command, and those that a node's republishing takes as well.
CommandAction(c) ==
    \/ Show(c) \/ Exit(c) \/ Refuse(c) \/ Abandon(c) \/ Begin(c)
    \/ NoKey(c) \/ (\E n \in Nodes : AskLatest(c, n)) \/ (\E M \in SUBSET Nodes : AskMisses(c, M))
    \/ Fetch(c) \/ FetchFails(c) \/ Create(c) \/ Write(c) \/ WriteFails(c)

TaskAction(t) ==
    \/ Walk(t) \/ WalkFails(t) \/ Walked(t) \/ Turn(t)
    \/ \E n \in Nodes : StoreReply(t, n) \/ StoreMisses(t, n)

Flushes(c) == Flush(c) \/ FlushFails(c)

OthersKeep(t) ==
    \A u \in Tasks \ {t} :
        /\ pc'[u] = pc[u] /\ best'[u] = best[u] /\ left'[u] = left[u] /\ job'[u] = job[u]
        /\ cur'[u] = cur[u] /\ todo'[u] = todo[u] /\ acks'[u] = acks[u]

TypesKept(t) == SharedTypes' /\ LocalTypes' /\ OthersKeep(t) /\ TaskOK(t)'

LEMMA TaskFacts ==
    ASSUME TypeInv
    PROVE  /\ \A c \in DOMAIN command : c \in Tasks /\ c \in Clients /\ c \notin Nodes /\ CommandOK(c)
           /\ \A n \in Nodes : n \in Tasks /\ n \notin DOMAIN command /\ n \notin Clients
           /\ <<>> \in Histories
<1>1. <<>> \in Histories
  BY SMTT(60) DEF Histories
<1> QED
  BY <1>1, TasksAssumption DEF TypeInv, Tasks

\* What prepare_publication adds to, and what it makes of it.
LEMMA PreparedFacts ==
    ASSUME TypeInv, NEW c \in DOMAIN command, publisher(c), NEW existing \in Histories,
           NEW h \in prepare_publication(c, existing)
    PROVE  \E i \in 0..Len(existing), e \in Entries :
             /\ h = Append(SubSeq(existing, 1, i), e) /\ e.version = command[c].version /\ e.signer = command[c].signer
             /\ \/ command[c].force \/ existing = <<>>
                \/ e.version > version(existing) /\ i = Len(existing)
<1> DEFINE x == command[c]
           at == IF x.previous # None THEN {i \in 1..Len(existing) : existing[i].version = x.previous}
                 ELSE {Len(existing)}
           e == [version |-> x.version, blob |-> x.blob, signer |-> x.signer]
<1>1. e \in Entries /\ e.version = x.version /\ e.signer = x.signer
  BY TaskFacts DEF CommandOK, publisher, kind, Entries
<1>2. at \subseteq 0..Len(existing)
  BY HistoryFacts, SMTT(60)
<1>3. PICK i \in at :
        /\ h = Append(SubSeq(existing, 1, i), e)
        /\ \/ x.force \/ existing = <<>>
           \/ x.version > version(existing) /\ i = Len(existing)
  BY DEF prepare_publication
<1> HIDE DEF e, x, at
<1>4. i \in 0..Len(existing)
  BY <1>2, <1>3
<1> QED
  BY <1>1, <1>3, <1>4 DEF x

LEMMA PreparedType ==
    ASSUME TypeInv, NEW c \in DOMAIN command, publisher(c), NEW existing \in Histories,
           NEW h \in prepare_publication(c, existing)
    PROVE  h \in Histories /\ h # <<>> /\ Parts(h) \subseteq Values /\ version(h) = command[c].version
<1>1. PICK i \in 0..Len(existing), e \in Entries :
        h = Append(SubSeq(existing, 1, i), e) /\ e.version = command[c].version
  BY PreparedFacts
<1>2. SubSeq(existing, 1, i) \in Histories
  BY SubSeqFacts
<1>3. h \in Histories /\ h # <<>> /\ Last(h) = e
  BY <1>1, <1>2, AppendFacts
<1>4. Parts(h) \subseteq Values
  BY <1>3, HistoryFacts, SMTT(60) DEF Parts, blob, record, latest, Values, Stored
<1> QED
  BY <1>1, <1>3, <1>4 DEF version

\* The outcomes of hearing a node, or of not hearing some.
StillAsking(c, R, h) ==
    /\ R # {} /\ best' = [best EXCEPT ![c] = h] /\ left' = [left EXCEPT ![c] = <<>>]
    /\ UNCHANGED job /\ pc' = [pc EXCEPT ![c] = "latest"]

FoundLatest(c, R, h) ==
    /\ R = {} /\ h # <<>> /\ best' = [best EXCEPT ![c] = h] /\ left' = [left EXCEPT ![c] = h]
    /\ UNCHANGED job /\ pc' = [pc EXCEPT ![c] = "walk"]

FoundNothing(c, R, h) ==
    R = {} /\ h = <<>> /\ UNCHANGED <<best, left, job>> /\ pc' = [pc EXCEPT ![c] = "failed"]

Prepared(c, existing, g) ==
    /\ publisher(c) /\ g \in prepare_publication(c, existing) /\ g # <<>> /\ Parts(g) \subseteq Values
    /\ best' = [best EXCEPT ![c] = g] /\ job' = [job EXCEPT ![c] = Parts(g)]
    /\ pc' = [pc EXCEPT ![c] = "turn"]

FirstVersion(c, R, h) ==
    R = {} /\ h = <<>> /\ UNCHANGED left /\ \E g \in Histories : Prepared(c, <<>>, g)

\* Preparing a publication, or ending there.
LEMMA PrepareTypes ==
    ASSUME TypeInv, NEW c \in DOMAIN command, publisher(c), NEW existing \in Histories, Prepare(c, existing)
    PROVE  \/ pc' = [pc EXCEPT ![c] = "failed"] /\ UNCHANGED <<best, job>>
           \/ \E g \in Histories : Prepared(c, existing, g)
<1>1. CASE prepare_publication(c, existing) = {}
  BY <1>1 DEF Prepare, goto
<1>2. CASE prepare_publication(c, existing) # {}
  <2>1. PICK h \in prepare_publication(c, existing) :
          /\ best' = [best EXCEPT ![c] = h]
          /\ job' = [job EXCEPT ![c] = {blob(Last(h).blob), record(h), latest(h)}]
          /\ goto(c, "turn")
    BY <1>2 DEF Prepare
  <2>2. h \in Histories /\ h # <<>> /\ Parts(h) \subseteq Values
    BY PreparedType
  <2> QED
    BY <2>1, <2>2 DEF Parts, goto, Prepared
<1> QED
  BY <1>1, <1>2

LEMMA HeardCases ==
    ASSUME TypeInv, NEW c \in DOMAIN command, NEW R \in SUBSET Nodes, NEW h \in Histories, Heard(c, R, h)
    PROVE  /\ todo' = [todo EXCEPT ![c] = R]
           /\ StillAsking(c, R, h) \/ FoundLatest(c, R, h) \/ FoundNothing(c, R, h) \/ FirstVersion(c, R, h)
<1>1. CASE R # {}
  BY <1>1 DEF Heard, goto, StillAsking
<1>2. CASE R = {} /\ h # <<>>
  BY <1>2 DEF Heard, goto, FoundLatest
<1>3. CASE R = {} /\ h = <<>> /\ ~publisher(c)
  BY <1>3 DEF Heard, goto, FoundNothing
<1>4. CASE R = {} /\ h = <<>> /\ publisher(c)
  <2>1. Prepare(c, <<>>) /\ UNCHANGED left /\ todo' = [todo EXCEPT ![c] = R] /\ <<>> \in Histories
    BY <1>4, TaskFacts DEF Heard
  <2>2. \/ pc' = [pc EXCEPT ![c] = "failed"] /\ UNCHANGED <<best, job>>
        \/ \E g \in Histories : Prepared(c, <<>>, g)
    BY <1>4, <2>1, PrepareTypes
  <2> QED
    BY <1>4, <2>1, <2>2 DEF FoundNothing, FirstVersion
<1> QED
  BY <1>1, <1>2, <1>3, <1>4

Asked(c, R, h) ==
    /\ pc[c] = "latest" /\ Heard(c, R, h)
    /\ UNCHANGED <<setting, nodes, files, cur, acks, before, kept, restarted>>

newer(c, n) ==
    IF latest_is_valid(pointer[n]) /\ (best[c] = <<>> \/ version(pointer[n]) >= version(best[c]))
    THEN pointer[n] ELSE best[c]

LEMMA AskCases ==
    ASSUME TypeInv, NEW c \in DOMAIN command
    PROVE  /\ \A n \in Nodes : AskLatest(c, n) =>
                /\ n \in todo[c] /\ get_dns_vk # None /\ UNCHANGED <<budget, missed, orderly>>
                /\ Asked(c, todo[c] \ {n}, newer(c, n)) /\ newer(c, n) \in Histories \intersect {pointer[n], best[c]}
           /\ NoKey(c) => Asked(c, {}, <<>>) /\ get_dns_vk = None /\ UNCHANGED <<budget, missed, orderly>>
           /\ \A M \in SUBSET Nodes : AskMisses(c, M) =>
                /\ Asked(c, todo[c] \ M, best[c]) /\ fault
                /\ missed' = [missed EXCEPT ![c] = @ \union M]
                /\ orderly' = (orderly /\ ~publisher(c))
<1>1. ASSUME NEW n \in Nodes, AskLatest(c, n)
      PROVE  /\ n \in todo[c] /\ get_dns_vk # None /\ UNCHANGED <<budget, missed, orderly>>
             /\ Asked(c, todo[c] \ {n}, newer(c, n)) /\ newer(c, n) \in Histories \intersect {pointer[n], best[c]}
  <2>1. newer(c, n) \in {pointer[n], best[c]} /\ pointer[n] \in Histories /\ best[c] \in Histories
    BY TaskFacts DEF TypeInv, SharedTypes, LocalTypes, newer
  <2>2. n \in todo[c] /\ get_dns_vk # None /\ UNCHANGED <<budget, missed, orderly>> /\ Asked(c, todo[c] \ {n}, newer(c, n))
    BY <1>1 DEF AskLatest, Asked, history, newer
  <2> QED
    BY <2>1, <2>2
<1>2. NoKey(c) => Asked(c, {}, <<>>) /\ get_dns_vk = None /\ UNCHANGED <<budget, missed, orderly>>
  BY DEF NoKey, Asked, history
<1>3. ASSUME NEW M \in SUBSET Nodes, AskMisses(c, M)
      PROVE  /\ Asked(c, todo[c] \ M, best[c]) /\ fault
             /\ missed' = [missed EXCEPT ![c] = @ \union M]
             /\ orderly' = (orderly /\ ~publisher(c))
  BY <1>3 DEF AskMisses, Asked
<1> QED
  BY <1>1, <1>2, <1>3

\* What a task does with a history that it has walked to its end.
StartsStore(t) ==
    /\ pc' = [pc EXCEPT ![t] = "store"]
    /\ todo' = [todo EXCEPT ![t] = Nodes] /\ acks' = [acks EXCEPT ![t] = 0]

Chosen(t, b) == cur' = [cur EXCEPT ![t] = blob(b)] /\ pc' = [pc EXCEPT ![t] = "fetch"]

WalkedTo(t) ==
    \/ t \in Nodes /\ StartsStore(t) /\ UNCHANGED <<best, job, cur>>
    \/ /\ t \in DOMAIN command /\ UNCHANGED <<todo, acks, cur>>
       /\ kind(t) = "publish" /\ \E g \in Histories : Prepared(t, best[t], g)
    \/ /\ t \in DOMAIN command /\ UNCHANGED <<todo, acks, best, job, cur>>
       /\ \/ pc' = [pc EXCEPT ![t] = "failed"]
          \/ kind(t) = "show" /\ pc' = [pc EXCEPT ![t] = "ok"]
    \/ /\ t \in DOMAIN command /\ UNCHANGED <<todo, acks, best, job>>
       /\ kind(t) = "install" /\ \E b \in Blobs : Chosen(t, b)

LEMMA WalkedCases ==
    ASSUME TypeInv, NEW t \in Nodes \union DOMAIN command, Walked(t)
    PROVE  /\ pc[t] = "walk" /\ left' = [left EXCEPT ![t] = <<>>] /\ WalkedTo(t)
           /\ UNCHANGED <<setting, budget, nodes, files, history>>
<1>1. pc[t] = "walk" /\ left' = [left EXCEPT ![t] = <<>>] /\ UNCHANGED <<setting, budget, nodes, files, history>>
  BY DEF Walked
<1>2. CASE t \in Nodes
  BY <1>2 DEF Walked, WalkedTo, StartsStore, goto
<1>3. CASE t \notin Nodes
  <2>1. /\ t \in DOMAIN command /\ UNCHANGED <<todo, acks>> /\ best[t] \in Histories /\ best[t] # <<>>
    BY <1>1, <1>3, TaskFacts DEF Walked, TypeInv, LocalTypes, TaskOK
  <2>2. CASE kind(t) = "publish" /\ Prepare(t, best[t]) /\ UNCHANGED cur
    <3>1. publisher(t)
      BY <2>1, <2>2 DEF publisher
    <3>2. \/ pc' = [pc EXCEPT ![t] = "failed"] /\ UNCHANGED <<best, job>>
          \/ \E g \in Histories : Prepared(t, best[t], g)
      BY <2>1, <2>2, <3>1, PrepareTypes
    <3> QED
      BY <1>1, <2>1, <2>2, <3>2 DEF WalkedTo
  <2>3. CASE kind(t) = "show" /\ List(t) /\ UNCHANGED <<best, job, cur>>
    BY <1>1, <2>1, <2>3 DEF WalkedTo, List, goto
  <2>4. CASE kind(t) = "install" /\ Choose(t) /\ UNCHANGED <<best, job>>
    <3> DEFINE wanted == IF command[t].version = None THEN {Last(best[t])}
                         ELSE {e \in Range(best[t]) : e.version = command[t].version}
    <3>1. \A e \in wanted : e.blob \in Blobs
      BY <2>1, HistoryFacts, SMTT(60) DEF Range, Entries
    <3>2. \/ goto(t, "failed") /\ UNCHANGED cur
          \/ \E e \in wanted : cur' = [cur EXCEPT ![t] = blob(e.blob)] /\ goto(t, "fetch")
      BY <2>4 DEF Choose
    <3> HIDE DEF wanted
    <3> QED
      BY <1>1, <2>1, <2>4, <3>1, <3>2 DEF WalkedTo, Chosen, goto
  <2> QED
    BY <1>3, <2>2, <2>3, <2>4 DEF Walked
<1> QED
  BY <1>1, <1>2, <1>3

\* Storing a value keeps the types of what a node holds.
LEMMA StoreTypes ==
    ASSUME TypeInv, NEW n \in Nodes, NEW v \in Values, STORE(n, v)
    PROVE  values' \in [Nodes -> SUBSET Stored] /\ pointer' \in [Nodes -> Histories]
<1>1. /\ v.type = "latest" => v.of \in Histories
      /\ v.type # "latest" => v \in Stored
  BY DEF Values, Stored
<1>2. values' \in [Nodes -> SUBSET Stored]
  BY <1>1 DEF STORE, TypeInv, SharedTypes
<1>3. pointer' \in [Nodes -> Histories]
  <2>1. pointer' = [pointer EXCEPT ![n] = IF v.type = "latest" /\ accepts(n, v) THEN v.of ELSE pointer[n]]
    BY DEF STORE
  <2> QED
    BY <1>1, <2>1 DEF TypeInv, SharedTypes
<1> QED
  BY <1>2, <1>3

LEMMA ActionTypes ==
    ASSUME TypeInv
    PROVE  /\ \A c \in DOMAIN command : CommandAction(c) => TypesKept(c)
           /\ \A t \in Nodes \union DOMAIN command : TaskAction(t) => TypesKept(t)
           /\ \A n \in Nodes : Republish(n) \/ Finish(n) \/ Restart(n) => TypesKept(n)
\* A step that only sends a task elsewhere.
<1>GotoTypes.
    ASSUME TypeInv, NEW t \in Tasks, NEW label \in Labels, goto(t, label),
           UNCHANGED <<setting, nodes, best, left, job, cur, todo, acks, before, missed, kept, restarted>>,
           budget' \in Nat, DOMAIN files' = Files, orderly' \in BOOLEAN
    PROVE  /\ SharedTypes' /\ LocalTypes' /\ OthersKeep(t) /\ pc'[t] = label /\ command' = command
           /\ best'[t] = best[t] /\ cur'[t] = cur[t] /\ todo'[t] = todo[t] /\ acks'[t] = acks[t]
  <2> USE <1>GotoTypes
  <2>1. command' = command /\ UNCHANGED <<values, pointer, late>>
    BY DEF setting, nodes
  <2>2. SharedTypes'
    BY <2>1 DEF TypeInv, SharedTypes
  <2>3. LocalTypes'
    BY DEF TypeInv, LocalTypes, goto
  <2>4. OthersKeep(t) /\ pc'[t] = label
    BY DEF TypeInv, LocalTypes, goto, OthersKeep
  <2> QED
    BY <2>1, <2>2, <2>3, <2>4
<1>StartTypes.
    ASSUME TypeInv, NEW c \in DOMAIN command, Show(c) \/ Exit(c) \/ Refuse(c) \/ Abandon(c)
    PROVE  TypesKept(c)
  <2> USE <1>StartTypes
  <2>1. PICK label \in {"ok", "off", "failed"} :
          /\ goto(c, label) /\ (label = "ok" => kind(c) # "install")
          /\ UNCHANGED <<setting, nodes, files, best, left, job, cur, todo, acks, before, missed, kept, restarted>>
          /\ (UNCHANGED <<budget, orderly>> \/ (fault /\ orderly' = (orderly /\ ~publisher(c))))
    BY DEF Show, Exit, Refuse, Abandon, history
  <2>2. budget' \in Nat /\ orderly' \in BOOLEAN /\ DOMAIN files' = Files
    <3>1. budget' \in Nat /\ DOMAIN files' = Files
      BY <2>1, SMTT(60) DEF fault, TypeInv, SharedTypes
    <3>2. orderly' \in BOOLEAN
      BY <2>1 DEF TypeInv, SharedTypes
    <3> QED
      BY <3>1, <3>2
  <2>3. SharedTypes' /\ LocalTypes' /\ OthersKeep(c) /\ pc'[c] = label /\ command' = command
    <3>1. label \in Labels
      BY <2>1 DEF Labels
    <3> QED
      BY <2>1, <2>2, <3>1, <1>GotoTypes, TaskFacts
  <2>4. TaskOK(c)'
    BY <2>1, <2>3, TaskFacts DEF TaskOK, kind
  <2> QED
    BY <2>3, <2>4 DEF TypesKept
<1>BeginTypes.
    ASSUME TypeInv, NEW c \in DOMAIN command, Begin(c)
    PROVE  TypesKept(c)
  <2> USE <1>BeginTypes
  <2> DEFINE label == CASE kind(c) \in {"publish", "install", "show"} -> "latest"
                        [] kind(c) = "put" -> "turn"
                        [] kind(c) = "get" -> "fetch"
  <2>1. c \in Tasks /\ c \notin Nodes /\ CommandOK(c) /\ command' = command
        /\ UNCHANGED <<values, pointer, late, budget, files, best, left, acks, missed, kept, restarted>>
    BY TaskFacts DEF Begin, setting, nodes
  <2>2. /\ kind(c) \in {"publish", "install", "show", "put", "get"}
        /\ label \in Labels
        /\ kind(c) \in {"publish", "install", "show"} => label = "latest"
        /\ kind(c) = "put" => label = "turn"
        /\ kind(c) = "get" => label = "fetch"
    BY DEF Begin, Labels
  <2> HIDE DEF label
  <2>3. pc' = [pc EXCEPT ![c] = label]
    BY DEF Begin, goto, label
  <2>4. job'[c] \subseteq Values /\ job' = [job EXCEPT ![c] = job'[c]]
    <3>1. kind(c) = "put" => blob(command[c].blob) \in Values
      BY <2>1 DEF CommandOK, blob, Values, Stored
    <3> QED
      BY <2>1, <3>1 DEF Begin, TypeInv, LocalTypes
  <2>5. SharedTypes'
    <3>1. before' \in [Clients -> SUBSET DOMAIN command]
      BY DEF Begin, TypeInv, SharedTypes
    <3>2. orderly' \in BOOLEAN
      BY DEF Begin
    <3> QED
      BY <2>1, <3>1, <3>2 DEF TypeInv, SharedTypes
  <2>6. LocalTypes'
    BY <2>1, <2>2, <2>3, <2>4 DEF Begin, TypeInv, LocalTypes
  <2>7. OthersKeep(c)
    BY <2>1, <2>3 DEF Begin, TypeInv, LocalTypes, OthersKeep
  <2>8. TaskOK(c)'
    <3>1. pc'[c] = label
      BY <2>1, <2>3 DEF TypeInv, LocalTypes
    <3>2. kind(c) = "put" => \A v \in job'[c] : v.type = "blob"
      BY <2>1, SMTT(60) DEF Begin, blob, TypeInv, LocalTypes
    <3> QED
      BY <2>1, <2>2, <3>1, <3>2 DEF TaskOK, kind
  <2> QED
    BY <2>5, <2>6, <2>7, <2>8 DEF TypesKept
<1>AskedTypes.
    ASSUME TypeInv, NEW c \in DOMAIN command, NEW R \in SUBSET Nodes, NEW h \in Histories, Asked(c, R, h),
           budget' \in Nat, missed' \in [Clients -> SUBSET Nodes], orderly' \in BOOLEAN
    PROVE  TypesKept(c)
  <2> USE <1>AskedTypes
  <2>1. /\ c \in Tasks /\ c \notin Nodes /\ command' = command /\ Heard(c, R, h)
        /\ kind(c) \in {"publish", "install", "show"}
        /\ UNCHANGED <<values, pointer, late, files, cur, acks, before, kept, restarted>>
    BY TaskFacts DEF Asked, setting, nodes, TypeInv, TaskOK
  <2>2. SharedTypes'
    BY <2>1 DEF TypeInv, SharedTypes
  <2>3. todo' = [todo EXCEPT ![c] = R]
    BY <2>1, HeardCases
  <2>4. LocalTypes' /\ OthersKeep(c) /\ TaskOK(c)'
    <3>1. CASE StillAsking(c, R, h)
      <4>1. LocalTypes' /\ OthersKeep(c) /\ pc'[c] = "latest"
        BY <2>1, <3>1, <2>3, TaskFacts DEF TypeInv, LocalTypes, Labels, OthersKeep, StillAsking
      <4> QED
        BY <2>1, <4>1 DEF TaskOK, kind
    <3>2. CASE FoundLatest(c, R, h)
      <4>1. LocalTypes' /\ OthersKeep(c) /\ pc'[c] = "walk" /\ best'[c] # <<>>
        BY <2>1, <3>2, <2>3 DEF TypeInv, LocalTypes, Labels, OthersKeep, FoundLatest
      <4> QED
        BY <2>1, <4>1 DEF TaskOK, kind
    <3>3. CASE FoundNothing(c, R, h)
      <4>1. LocalTypes' /\ OthersKeep(c) /\ pc'[c] = "failed"
        BY <2>1, <3>3, <2>3 DEF TypeInv, LocalTypes, Labels, OthersKeep, FoundNothing
      <4> QED
        BY <2>1, <4>1 DEF TaskOK, kind
    <3>4. CASE FirstVersion(c, R, h)
      <4>1. PICK g \in Histories : Prepared(c, <<>>, g)
        BY <3>4 DEF FirstVersion
      <4>2. LocalTypes' /\ OthersKeep(c) /\ pc'[c] = "turn"
        BY <2>1, <3>4, <4>1, <2>3 DEF TypeInv, LocalTypes, Labels, OthersKeep, FirstVersion, Prepared
      <4> QED
        BY <2>1, <4>1, <4>2 DEF TaskOK, kind, publisher, Prepared
    <3> QED
      BY <2>1, <3>1, <3>2, <3>3, <3>4, HeardCases
  <2> QED
    BY <2>2, <2>4 DEF TypesKept
<1>AskTypes.
    ASSUME TypeInv, NEW c \in DOMAIN command,
           \/ NoKey(c) \/ \E n \in Nodes : AskLatest(c, n)
           \/ \E M \in SUBSET Nodes : AskMisses(c, M)
    PROVE  TypesKept(c)
  <2> USE <1>AskTypes
  <2>1. /\ c \in Tasks /\ todo[c] \subseteq Nodes /\ best[c] \in Histories /\ <<>> \in Histories
        /\ budget \in Nat /\ orderly \in BOOLEAN /\ missed \in [Clients -> SUBSET Nodes]
    BY TaskFacts DEF TypeInv, LocalTypes, SharedTypes
  <2>2. CASE NoKey(c)
    BY <2>1, <2>2, AskCases, <1>AskedTypes
  <2>3. ASSUME NEW n \in Nodes, AskLatest(c, n) PROVE TypesKept(c)
    <3>1. PICK h \in Histories : Asked(c, todo[c] \ {n}, h)
      BY <2>3, AskCases
    <3>2. UNCHANGED <<budget, missed, orderly>>
      BY <2>3, AskCases
    <3> QED
      BY <2>1, <3>1, <3>2, <1>AskedTypes
  <2>4. ASSUME NEW M \in SUBSET Nodes, AskMisses(c, M) PROVE TypesKept(c)
    <3>1. /\ Asked(c, todo[c] \ M, best[c]) /\ fault
          /\ missed' = [missed EXCEPT ![c] = @ \union M]
          /\ orderly' = (orderly /\ ~publisher(c))
      BY <2>4, AskCases
    <3>2. budget' \in Nat
      BY <2>1, <3>1, SMTT(60) DEF fault
    <3>3. missed' \in [Clients -> SUBSET Nodes]
      BY <2>1, <3>1
    <3>4. orderly' \in BOOLEAN
      BY <2>1, <3>1
    <3>5. todo[c] \ M \in SUBSET Nodes
      BY <2>1
    <3> QED
      BY <2>1, <3>1, <3>2, <3>3, <3>4, <3>5, <1>AskedTypes
  <2> QED
    BY <2>2, <2>3, <2>4
<1>FileTypes.
    ASSUME TypeInv, NEW c \in DOMAIN command,
           Fetch(c) \/ FetchFails(c) \/ Create(c) \/ Write(c) \/ WriteFails(c)
    PROVE  TypesKept(c)
  <2> USE <1>FileTypes
  <2>1. PICK label \in {"create", "ok", "write", "failed"} :
          /\ goto(c, label)
          /\ UNCHANGED <<setting, nodes, best, left, job, cur, todo, acks, history>>
          /\ UNCHANGED budget \/ fault
          /\ UNCHANGED files \/ \E v : files' = [files EXCEPT ![filename(c)] = v]
          /\ pc[c] \in {"fetch", "create", "write"}
          /\ label = "create" => kind(c) = "install"
          /\ label = "write" => pc[c] = "create" \/ (kind(c) # "install" /\ command[c].file # None)
    <3>1. CASE Fetch(c)
      BY <3>1 DEF Fetch
    <3>2. CASE FetchFails(c)
      BY <3>2 DEF FetchFails
    <3>3. CASE Create(c)
      BY <3>3 DEF Create
    <3>4. CASE Write(c)
      BY <3>4 DEF Write
    <3>5. CASE WriteFails(c)
      BY <3>5 DEF WriteFails
    <3> QED
      BY <3>1, <3>2, <3>3, <3>4, <3>5
  <2>2. budget' \in Nat /\ orderly' \in BOOLEAN /\ DOMAIN files' = Files
    BY <2>1, SMTT(60) DEF fault, TypeInv, SharedTypes, history
  <2>3. /\ SharedTypes' /\ LocalTypes' /\ OthersKeep(c) /\ pc'[c] = label /\ command' = command
        /\ best'[c] = best[c] /\ cur'[c] = cur[c]
    <3>1. label \in Labels
      BY <2>1 DEF Labels
    <3>2. UNCHANGED <<before, missed, kept, restarted>>
      BY <2>1 DEF history
    <3> QED
      BY <2>1, <2>2, <3>1, <3>2, <1>GotoTypes, TaskFacts
  <2>4. TaskOK(c)'
    <3>1. c \in Tasks /\ c \notin Nodes /\ TaskOK(c)
      BY TaskFacts DEF TypeInv
    <3> QED
      BY <2>1, <2>3, <3>1 DEF TaskOK, kind
  <2> QED
    BY <2>3, <2>4 DEF TypesKept
<1>WalkFailsTypes.
    ASSUME TypeInv, NEW t \in Nodes \union DOMAIN command, WalkFails(t)
    PROVE  TypesKept(t)
  <2> USE <1>WalkFailsTypes
  <2>1. PICK label \in {"turn", "failed"} :
          /\ goto(t, label) /\ label = (IF t \in Nodes THEN "turn" ELSE "failed") /\ pc[t] = "walk"
          /\ UNCHANGED <<setting, nodes, files, best, left, job, cur, todo, acks, history>>
          /\ UNCHANGED budget \/ fault
    BY DEF WalkFails
  <2>2. budget' \in Nat /\ orderly' \in BOOLEAN /\ DOMAIN files' = Files
    BY <2>1, SMTT(60) DEF fault, TypeInv, SharedTypes, history
  <2>3. /\ SharedTypes' /\ LocalTypes' /\ OthersKeep(t) /\ pc'[t] = label /\ command' = command
        /\ best'[t] = best[t] /\ cur'[t] = cur[t]
    <3>1. label \in Labels
      BY <2>1 DEF Labels
    <3>2. UNCHANGED <<before, missed, kept, restarted>>
      BY <2>1 DEF history
    <3>3. t \in Tasks
      BY TaskFacts
    <3> QED
      BY <2>1, <2>2, <3>1, <3>2, <3>3, <1>GotoTypes
  <2>4. TaskOK(t)'
    <3>1. t \in Tasks /\ TaskOK(t) /\ (t \in DOMAIN command => t \notin Nodes)
      BY TaskFacts DEF TypeInv
    <3> QED
      BY <2>1, <2>3, <3>1 DEF TaskOK, kind
  <2> QED
    BY <2>3, <2>4 DEF TypesKept
<1>WalkTypes.
    ASSUME TypeInv, NEW t \in Nodes \union DOMAIN command, Walk(t)
    PROVE  TypesKept(t)
  <2> USE <1>WalkTypes
  <2>1. /\ t \in Tasks /\ TaskOK(t) /\ command' = command /\ left[t] \in Histories /\ Len(left[t]) > 1
        /\ left' = [left EXCEPT ![t] = Front(left[t])]
        /\ UNCHANGED <<values, pointer, late, budget, files, pc, best, job, cur, todo, acks>>
        /\ UNCHANGED <<before, missed, kept, orderly, restarted>>
    BY TaskFacts DEF Walk, TypeInv, LocalTypes, setting, nodes, history
  <2>2. Front(left[t]) \in Histories
    <3>1. Len(left[t]) - 1 \in 0..Len(left[t])
      BY <2>1, HistoryFacts, SMTT(60)
    <3> QED
      BY <2>1, <3>1, SubSeqFacts DEF Front
  <2>3. SharedTypes'
    BY <2>1 DEF TypeInv, SharedTypes
  <2>4. LocalTypes' /\ OthersKeep(t)
    BY <2>1, <2>2 DEF TypeInv, LocalTypes, OthersKeep
  <2>5. TaskOK(t)'
    BY <2>1 DEF TaskOK, kind
  <2> QED
    BY <2>3, <2>4, <2>5 DEF TypesKept
<1>WalkedTypes.
    ASSUME TypeInv, NEW t \in Nodes \union DOMAIN command, Walked(t)
    PROVE  TypesKept(t)
  <2> USE <1>WalkedTypes
  <2>1. /\ t \in Tasks /\ TaskOK(t) /\ command' = command /\ pc[t] = "walk" /\ WalkedTo(t)
        /\ left' = [left EXCEPT ![t] = <<>>] /\ (t \in DOMAIN command => t \notin Nodes /\ best[t] # <<>>)
        /\ UNCHANGED <<values, pointer, late, budget, files, before, missed, kept, orderly, restarted>>
    BY WalkedCases, TaskFacts DEF TypeInv, setting, nodes, history, TaskOK
  <2>2. SharedTypes'
    BY <2>1 DEF TypeInv, SharedTypes
  <2>3. CASE t \in Nodes /\ StartsStore(t) /\ UNCHANGED <<best, job, cur>>
    <3>1. LocalTypes' /\ OthersKeep(t) /\ pc'[t] = "store" /\ todo'[t] = Nodes /\ acks'[t] = 0
      BY <2>1, <2>3, TaskFacts, SMTT(60) DEF TypeInv, LocalTypes, Labels, OthersKeep, StartsStore
    <3>2. TaskOK(t)'
      BY <2>1, <2>3, <3>1, TaskFacts, SMTT(60) DEF TaskOK, kind
    <3> QED
      BY <2>2, <3>1, <3>2 DEF TypesKept
  <2>4. CASE /\ t \in DOMAIN command /\ UNCHANGED <<todo, acks, cur>>
             /\ kind(t) = "publish" /\ \E g \in Histories : Prepared(t, best[t], g)
    <3>1. PICK g \in Histories : Prepared(t, best[t], g)
      BY <2>4
    <3>2. LocalTypes' /\ OthersKeep(t) /\ pc'[t] = "turn"
      BY <2>1, <2>4, <3>1, TaskFacts DEF TypeInv, LocalTypes, Labels, OthersKeep, Prepared
    <3>3. TaskOK(t)'
      BY <2>1, <2>4, <3>2 DEF TaskOK, kind
    <3> QED
      BY <2>2, <3>2, <3>3 DEF TypesKept
  <2>5. CASE /\ t \in DOMAIN command /\ UNCHANGED <<todo, acks, best, job, cur>>
             /\ \/ pc' = [pc EXCEPT ![t] = "failed"]
                \/ kind(t) = "show" /\ pc' = [pc EXCEPT ![t] = "ok"]
    <3>1. LocalTypes' /\ OthersKeep(t) /\ (pc'[t] = "failed" \/ (kind(t) = "show" /\ pc'[t] = "ok"))
      BY <2>1, <2>5, TaskFacts DEF TypeInv, LocalTypes, Labels, OthersKeep
    <3>2. TaskOK(t)'
      BY <2>1, <2>5, <3>1 DEF TaskOK, kind
    <3> QED
      BY <2>2, <3>1, <3>2 DEF TypesKept
  <2>6. CASE /\ t \in DOMAIN command /\ UNCHANGED <<todo, acks, best, job>>
             /\ kind(t) = "install" /\ \E b \in Blobs : Chosen(t, b)
    <3>1. PICK b \in Blobs : Chosen(t, b)
      BY <2>6
    <3>2. LocalTypes' /\ OthersKeep(t) /\ pc'[t] = "fetch" /\ cur'[t] = blob(b) /\ best'[t] = best[t]
      BY <2>1, <2>6, <3>1, TaskFacts DEF TypeInv, LocalTypes, Labels, OthersKeep, Chosen
    <3>3. cur'[t] \in [type : {"blob"}, of : Blobs]
      BY <3>2, SMTT(60) DEF blob
    <3>4. TaskOK(t)'
      BY <2>1, <2>6, <3>2, <3>3 DEF TaskOK, kind
    <3> QED
      BY <2>2, <3>2, <3>4 DEF TypesKept
  <2> QED
    BY <2>1, <2>3, <2>4, <2>5, <2>6 DEF WalkedTo
<1>RepublishTypes.
    ASSUME TypeInv, NEW n \in Nodes, Republish(n) \/ Finish(n)
    PROVE  TypesKept(n)
  <2> USE <1>RepublishTypes
  <2>1. /\ n \in Tasks /\ n \notin DOMAIN command /\ TaskOK(n) /\ command' = command
        /\ UNCHANGED <<values, pointer, late, budget, files, best, todo, acks>>
        /\ UNCHANGED <<before, missed, kept, orderly, restarted>>
    BY TaskFacts DEF Republish, Finish, TypeInv, setting, nodes, history
  <2>2. SharedTypes'
    BY <2>1 DEF TypeInv, SharedTypes
  <2>3. CASE Republish(n)
    <3> DEFINE new == values[n] \union {latest(h) : h \in {pointer[n]} \ {<<>>}}
    <3>1. new \subseteq Values
      BY SMTT(60) DEF TypeInv, SharedTypes, Values, latest
    <3>2. job' = [job EXCEPT ![n] = new] /\ pc' = [pc EXCEPT ![n] = "turn"] /\ UNCHANGED <<left, cur>>
      BY <2>3 DEF Republish, goto
    <3> HIDE DEF new
    <3>3. LocalTypes' /\ OthersKeep(n) /\ pc'[n] = "turn"
      BY <2>1, <3>1, <3>2 DEF TypeInv, LocalTypes, Labels, OthersKeep
    <3>4. TaskOK(n)'
      BY <2>1, <3>2, <3>3 DEF TaskOK
    <3> QED
      BY <2>2, <3>3, <3>4 DEF TypesKept
  <2>4. CASE Finish(n)
    <3>1. /\ pc' = [pc EXCEPT ![n] = "idle"] /\ UNCHANGED job
          /\ cur' = [cur EXCEPT ![n] = None] /\ left' = [left EXCEPT ![n] = <<>>]
      BY <2>4 DEF Finish, goto
    <3>2. LocalTypes' /\ OthersKeep(n) /\ pc'[n] = "idle" /\ cur'[n] = None
      BY <2>1, <3>1, TaskFacts DEF TypeInv, LocalTypes, Labels, OthersKeep
    <3>3. TaskOK(n)'
      BY <2>1, <3>2 DEF TaskOK
    <3> QED
      BY <2>2, <3>2, <3>3 DEF TypesKept
  <2> QED
    BY <2>3, <2>4
<1>TurnTypes.
    ASSUME TypeInv, NEW t \in Nodes \union DOMAIN command, Turn(t)
    PROVE  TypesKept(t)
  <2> USE <1>TurnTypes
  <2>1. /\ t \in Tasks /\ TaskOK(t) /\ command' = command /\ pc[t] = "turn"
        /\ (t \in DOMAIN command => t \notin Nodes) /\ UNCHANGED best
        /\ UNCHANGED <<values, pointer, late, budget, files, before, missed, kept, orderly, restarted>>
    BY TaskFacts DEF Turn, TypeInv, setting, nodes, history
  <2>2. SharedTypes'
    BY <2>1 DEF TypeInv, SharedTypes
  <2>3. PICK v \in job[t] :
          /\ job' = [job EXCEPT ![t] = job[t] \ {v}] /\ cur' = [cur EXCEPT ![t] = v]
          /\ IF t \in Nodes /\ v.type = "latest"
             THEN goto(t, "walk") /\ left' = [left EXCEPT ![t] = v.of] /\ UNCHANGED <<todo, acks>>
             ELSE /\ goto(t, "store") /\ UNCHANGED left
                  /\ todo' = [todo EXCEPT ![t] = Nodes] /\ acks' = [acks EXCEPT ![t] = 0]
    BY DEF Turn
  <2>4. v \in Values /\ (v.type = "latest" => v.of \in Histories)
    <3>1. v \in Values
      BY <2>1, <2>3 DEF TypeInv, LocalTypes
    <3> QED
      BY <3>1 DEF Values, Stored
  <2>5. CASE t \in Nodes /\ v.type = "latest"
    <3>1. LocalTypes' /\ OthersKeep(t) /\ pc'[t] = "walk" /\ cur'[t] = v
      BY <2>1, <2>3, <2>4, <2>5 DEF TypeInv, LocalTypes, Labels, OthersKeep, goto
    <3>2. TaskOK(t)'
      BY <2>1, <2>4, <2>5, <3>1 DEF TaskOK
    <3> QED
      BY <2>2, <3>1, <3>2 DEF TypesKept
  <2>6. CASE ~(t \in Nodes /\ v.type = "latest")
    <3>1. StartsStore(t) /\ UNCHANGED left
      BY <2>3, <2>6 DEF StartsStore, goto
    <3>2. LocalTypes'
      BY <2>1, <2>3, <2>4, <3>1, TaskFacts, SMTT(60) DEF TypeInv, LocalTypes, Labels, StartsStore
    <3>3. OthersKeep(t) /\ pc'[t] = "store" /\ cur'[t] = v /\ todo'[t] = Nodes /\ acks'[t] = 0
      BY <2>1, <2>3, <3>1 DEF TypeInv, LocalTypes, OthersKeep, StartsStore
    <3>4. job'[t] = job[t] \ {v}
      BY <2>1, <2>3 DEF TypeInv, LocalTypes
    <3>5. TaskOK(t)'
      BY <2>1, <2>3, <2>4, <2>6, <3>3, <3>4, TaskFacts, SMTT(60) DEF TaskOK, kind
    <3> QED
      BY <2>2, <3>2, <3>3, <3>5 DEF TypesKept
  <2> QED
    BY <2>5, <2>6
\* What a call does to the task that made it.
<1>CalledTypes.
    ASSUME TypeInv, NEW t \in Nodes \union DOMAIN command, NEW n \in Nodes,
           NEW acknowledged \in BOOLEAN, Called(t, n, acknowledged)
    PROVE  /\ LocalTypes' /\ OthersKeep(t) /\ TaskOK(t)'
           /\ cur[t] \in Values /\ command' = command
           /\ kept' \in [Clients -> SUBSET Nodes] /\ orderly' \in BOOLEAN
           /\ UNCHANGED <<files, before, missed, restarted>>
  <2> USE <1>CalledTypes
  <2> DEFINE a == IF acknowledged /\ t \in Clients THEN acks[t] + 1 ELSE acks[t]
             label == IF todo[t] = {n} THEN after_store(t, a) ELSE "store"
  <2>1. /\ t \in Tasks /\ TaskOK(t) /\ pc[t] = "store" /\ n \in todo[t] /\ todo[t] \subseteq Nodes
        /\ (t \in DOMAIN command => t \notin Nodes /\ t \in Clients) /\ acks[t] \in Nat
    BY TaskFacts, SMTT(60) DEF Called, TypeInv, LocalTypes
  <2>2. /\ command' = command /\ UNCHANGED <<files, best, left, job, cur, before, missed, restarted>>
        /\ todo' = [todo EXCEPT ![t] = todo[t] \ {n}]
        /\ acks' = [acks EXCEPT ![t] = a] /\ pc' = [pc EXCEPT ![t] = label]
    BY DEF Called, setting, goto
  <2>3. cur[t] \in Values
    BY <2>1 DEF TaskOK
  <2>5. a \in Nat
    BY <2>1, SMTT(60)
  <2>6. label \in {"store", "failed", "turn", "ok"} /\ (t \in Nodes => label \in {"store", "turn"})
    BY <2>1 DEF after_store, publisher
  <2> HIDE DEF a, label
  <2>7. LocalTypes'
    BY <2>1, <2>2, <2>5, <2>6 DEF TypeInv, LocalTypes, Labels
  <2>8. OthersKeep(t) /\ pc'[t] = label /\ acks'[t] = a /\ todo'[t] = todo[t] \ {n}
    BY <2>1, <2>2 DEF TypeInv, LocalTypes, OthersKeep
  <2>9. TaskOK(t)'
    BY <2>1, <2>2, <2>3, <2>5, <2>6, <2>8 DEF TaskOK, kind
  <2>10. kept' \in [Clients -> SUBSET Nodes]
    <3>1. kept' = kept \/ (publisher(t) /\ kept' = [kept EXCEPT ![t] = kept[t] \union {n}])
      BY DEF Called
    <3>2. publisher(t) => t \in Clients
      BY TaskFacts DEF publisher
    <3> QED
      BY <3>1, <3>2, SMTT(60) DEF TypeInv, SharedTypes
  <2>11. orderly' \in BOOLEAN
    BY DEF Called, TypeInv, SharedTypes
  <2> QED
    BY <2>2, <2>3, <2>7, <2>8, <2>9, <2>10, <2>11
<1>CallTypes.
    ASSUME TypeInv, NEW t \in Nodes \union DOMAIN command, NEW n \in Nodes,
           StoreReply(t, n) \/ StoreMisses(t, n)
    PROVE  TypesKept(t)
  <2> USE <1>CallTypes
  <2>1. CASE StoreReply(t, n)
    <3>1. PICK ack \in BOOLEAN : Called(t, n, ack)
      BY <2>1 DEF StoreReply, accepts
    <3>2. /\ LocalTypes' /\ OthersKeep(t) /\ TaskOK(t)' /\ cur[t] \in Values /\ command' = command
          /\ kept' \in [Clients -> SUBSET Nodes] /\ orderly' \in BOOLEAN
          /\ UNCHANGED <<files, before, missed, restarted>>
      BY <3>1, <1>CalledTypes
    <3>3. STORE(n, cur[t]) /\ UNCHANGED <<budget, late>>
      BY <2>1 DEF StoreReply
    <3>4. values' \in [Nodes -> SUBSET Stored] /\ pointer' \in [Nodes -> Histories]
      BY <3>2, <3>3, StoreTypes
    <3>5. SharedTypes'
      BY <3>2, <3>3, <3>4 DEF TypeInv, SharedTypes
    <3> QED
      BY <3>2, <3>5 DEF TypesKept
  <2>2. CASE StoreMisses(t, n)
    <3>1. Called(t, n, FALSE) /\ fault /\ UNCHANGED <<values, pointer>>
          /\ late' = late \union {[node |-> n, value |-> cur[t]]}
      BY <2>2 DEF StoreMisses
    <3>2. /\ LocalTypes' /\ OthersKeep(t) /\ TaskOK(t)' /\ cur[t] \in Values /\ command' = command
          /\ kept' \in [Clients -> SUBSET Nodes] /\ orderly' \in BOOLEAN
          /\ UNCHANGED <<files, before, missed, restarted>>
      BY <3>1, <1>CalledTypes
    <3>3. budget' \in Nat
      BY <3>1, SMTT(60) DEF fault, TypeInv, SharedTypes
    <3>4. SharedTypes'
      BY <3>1, <3>2, <3>3, SMTT(60) DEF TypeInv, SharedTypes
    <3> QED
      BY <3>2, <3>4 DEF TypesKept
  <2> QED
    BY <2>1, <2>2
<1>RestartTypes.
    ASSUME TypeInv, NEW n \in Nodes, Restart(n)
    PROVE  TypesKept(n)
  <2> USE <1>RestartTypes
  <2>1. /\ n \in Tasks /\ n \notin DOMAIN command /\ command' = command /\ fault
        /\ UNCHANGED <<late, files, best, before, missed, orderly>>
        /\ values' = [values EXCEPT ![n] = {}] /\ pointer' = [pointer EXCEPT ![n] = <<>>]
        /\ pc' = [pc EXCEPT ![n] = "idle"] /\ job' = [job EXCEPT ![n] = {}] /\ cur' = [cur EXCEPT ![n] = None]
        /\ left' = [left EXCEPT ![n] = <<>>] /\ todo' = [todo EXCEPT ![n] = {}] /\ acks' = [acks EXCEPT ![n] = 0]
        /\ kept' = [c \in Clients |-> kept[c] \ {n}] /\ restarted' = TRUE
    BY TaskFacts DEF Restart, setting, goto
  <2>2. SharedTypes'
    <3>1. budget' \in Nat
      BY <2>1, SMTT(60) DEF fault, TypeInv, SharedTypes
    <3>2. values' \in [Nodes -> SUBSET Stored] /\ pointer' \in [Nodes -> Histories]
      BY <2>1, TaskFacts DEF TypeInv, SharedTypes
    <3>3. kept' \in [Clients -> SUBSET Nodes]
      BY <2>1 DEF TypeInv, SharedTypes
    <3> QED
      BY <2>1, <3>1, <3>2, <3>3 DEF TypeInv, SharedTypes
  <2>3. LocalTypes'
    BY <2>1, TaskFacts, SMTT(60) DEF TypeInv, LocalTypes, Labels
  <2>4. OthersKeep(n) /\ pc'[n] = "idle" /\ cur'[n] = None
    BY <2>1 DEF TypeInv, LocalTypes, OthersKeep
  <2>5. TaskOK(n)'
    BY <2>1, <2>4 DEF TaskOK
  <2> QED
    BY <2>2, <2>3, <2>4, <2>5 DEF TypesKept
<1>1. \A c \in DOMAIN command : CommandAction(c) => TypesKept(c)
  BY <1>StartTypes, <1>BeginTypes, <1>AskTypes, <1>FileTypes DEF CommandAction
<1>2. \A t \in Nodes \union DOMAIN command : TaskAction(t) => TypesKept(t)
  BY <1>WalkTypes, <1>WalkFailsTypes, <1>WalkedTypes, <1>TurnTypes, <1>CallTypes DEF TaskAction
<1> QED
  BY <1>1, <1>2, <1>RepublishTypes, <1>RestartTypes

\* Whose step it is: of a shell's command, of a task, of a node, or of a message.
LEMMA NextCases ==
    ASSUME TypeInv, Next, ~UNCHANGED vars
    PROVE  \/ \E c \in DOMAIN command : CommandAction(c)
           \/ \E t \in Nodes \union DOMAIN command : TaskAction(t)
           \/ \E n \in Nodes : Republish(n) \/ Finish(n) \/ Restart(n)
           \/ \E m \in late : Deliver(m)
           \/ \E c \in DOMAIN command : Flushes(c)
<1>1. ASSUME NEW c \in DOMAIN command, CommandStep(c) PROVE CommandAction(c) \/ Flushes(c)
  <2>1. \A n \in Nodes : {n} \in SUBSET Nodes
    OBVIOUS
  <2> QED
    BY <1>1, <2>1 DEF CommandStep, CommandAction, Flushes
<1>2. Quiet => UNCHANGED vars
  BY DEF Quiet
<1> QED
  BY <1>1, <1>2 DEF Next, TaskStep, CommandAction, TaskAction

LEMMA FlushFrame ==
    ASSUME TypeInv, NEW c, Flushes(c)
    PROVE  /\ UNCHANGED <<values, pointer, late, pc, best, left, job, cur, todo, acks>>
           /\ UNCHANGED <<before, missed, kept, orderly, restarted>>
           /\ budget' \in Nat /\ \E v : files' = [files EXCEPT ![filename(c)] = v]
<1>1. budget \in Nat /\ (UNCHANGED budget \/ fault) /\ UNCHANGED <<nodes, local, history>>
  BY DEF Flushes, Flush, FlushFails, TypeInv, SharedTypes
<1>2. budget' \in Nat
  BY <1>1, SMTT(60) DEF fault
<1>3. \E v : files' = [files EXCEPT ![filename(c)] = v]
  BY DEF Flushes, Flush, FlushFails
<1> QED
  BY <1>1, <1>2, <1>3 DEF nodes, local, history

LEMMA TypeStep ==
    ASSUME TypeInv, [Next]_vars
    PROVE  TypeInv'
<1>TypesFromTask.
    ASSUME TypeInv, command' = command, NEW t \in Tasks, TypesKept(t)
    PROVE  TypeInv'
  <2> USE <1>TypesFromTask
  <2>1. \A u \in Tasks \ {t} : TaskOK(u)'
    BY SMTT(60) DEF TypeInv, TypesKept, OthersKeep, TaskOK, kind
  <2>2. \A c \in DOMAIN command' : CommandOK(c)'
    BY DEF TypeInv, CommandOK, kind
  <2> QED
    BY <2>1, <2>2 DEF TypeInv, TypesKept
<1>DeliverTypes.
    ASSUME TypeInv, NEW m \in late, Deliver(m)
    PROVE  TypeInv'
  <2> USE <1>DeliverTypes
  <2>1. /\ m.node \in Nodes /\ m.value \in Values /\ STORE(m.node, m.value) /\ late' = late \ {m}
        /\ command' = command /\ UNCHANGED <<budget, files, pc, best, left, job, cur, todo, acks>>
        /\ UNCHANGED <<before, missed, kept, orderly, restarted>>
    BY DEF Deliver, TypeInv, SharedTypes, setting, local, history
  <2>2. values' \in [Nodes -> SUBSET Stored] /\ pointer' \in [Nodes -> Histories]
    BY <2>1, StoreTypes
  <2>3. SharedTypes'
    BY <2>1, <2>2 DEF TypeInv, SharedTypes
  <2>4. LocalTypes'
    BY <2>1 DEF TypeInv, LocalTypes
  <2>5. \A t \in Tasks : TaskOK(t)'
    BY <2>1 DEF TypeInv, TaskOK, kind
  <2>6. \A c \in DOMAIN command' : CommandOK(c)'
    BY <2>1 DEF TypeInv, CommandOK, kind
  <2> QED
    BY <2>1, <2>3, <2>4, <2>5, <2>6 DEF TypeInv
<1>FlushTypes.
    ASSUME TypeInv, NEW c, Flushes(c), command' = command
    PROVE  TypeInv'
  <2> USE <1>FlushTypes
  <2>1. DOMAIN files' = Files
    BY FlushFrame DEF TypeInv, SharedTypes
  <2>2. SharedTypes'
    BY <2>1, FlushFrame DEF TypeInv, SharedTypes
  <2>3. LocalTypes'
    BY FlushFrame DEF TypeInv, LocalTypes
  <2>4. \A t \in Tasks : TaskOK(t)'
    BY FlushFrame DEF TypeInv, TaskOK, kind
  <2>5. \A d \in DOMAIN command' : CommandOK(d)'
    BY DEF TypeInv, CommandOK, kind
  <2> QED
    BY <2>2, <2>3, <2>4, <2>5 DEF TypeInv
<1>1. command' = command
  BY Constant
<1>2. CASE UNCHANGED vars
  <2>1. UNCHANGED <<budget, values, pointer, late, files, pc, best, left, job, cur, todo, acks>>
        /\ UNCHANGED <<before, missed, kept, orderly, restarted>>
    BY <1>2 DEF vars, nodes, local, history
  <2>2. SharedTypes'
    BY <1>1, <2>1 DEF TypeInv, SharedTypes
  <2>3. LocalTypes'
    BY <1>1, <2>1 DEF TypeInv, LocalTypes
  <2>4. \A t \in Tasks : TaskOK(t)'
    BY <1>1, <2>1 DEF TypeInv, TaskOK, kind
  <2>5. \A c \in DOMAIN command' : CommandOK(c)'
    BY <1>1 DEF TypeInv, CommandOK, kind
  <2> QED
    BY <1>1, <2>2, <2>3, <2>4, <2>5 DEF TypeInv
<1>3. CASE Next /\ ~UNCHANGED vars
  <2>1. \A t \in Nodes \union DOMAIN command : t \in Tasks
    BY TaskFacts
  <2>2. \A t \in Tasks : TypesKept(t) => TypeInv'
    BY <1>1, <1>TypesFromTask
  <2> QED
    BY <1>1, <1>3, <2>1, <2>2, ActionTypes, <1>DeliverTypes, <1>FlushTypes, NextCases
<1> QED
  BY <1>2, <1>3

LEMMA InitTypes ==
    ASSUME Init
    PROVE  TypeInv
\* What the parser of an install or publish argument finds.
<1>InstallNames.
    ASSUME NEW word, NEW n \in parse_install_name(word)
    PROVE  n.version \in Versions \union {None}
  <2> USE <1>InstallNames
  <2>1. PICK m \in parse_package_name(Front(word)) :
          n = [domain |-> m.domain, package |-> m.package,
               version |-> IF Last(word) = "latest" THEN None ELSE Version[Last(word)]]
    BY DEF parse_install_name
  <2>2. Last(word) \in DOMAIN Version \union {"latest"}
    BY DEF parse_install_name
  <2>3. n.version = IF Last(word) = "latest" THEN None ELSE Version[Last(word)]
    BY <2>1
  <2> QED
    BY <2>2, <2>3 DEF Versions
\* A line that says publish gives a version, one that says install gives one or none.
<1>ParsedLines.
    ASSUME NEW line, NEW x \in parse(line)
    PROVE  /\ x.kind = "publish" => x.version \in Versions
           /\ x.kind = "install" => x.version \in Versions \union {None}
  <2> USE <1>ParsedLines
  <2> DEFINE args == Tail(line)
             words == parse_publish_args(args)
  <2>1. ASSUME x \in ping_arm(args) PROVE x.kind = "ping"
    <3>1. PICK a : x = [nothing EXCEPT !.kind = "ping", !.key = a]
      BY <2>1 DEF ping_arm
    <3> QED
      BY <3>1 DEF nothing
  <2>2. ASSUME x \in put_arm(args) PROVE x.kind = "put"
    <3>1. x = [nothing EXCEPT !.kind = "put", !.file = args[1]]
      BY <2>2 DEF put_arm
    <3> QED
      BY <3>1 DEF nothing
  <2>3. ASSUME x \in get_arm(args) PROVE x.kind = "get"
    <3>1. PICK k, f : x = [nothing EXCEPT !.kind = "get", !.key = k, !.file = f]
      BY <2>3 DEF get_arm
    <3> QED
      BY <3>1 DEF nothing
  <2>4. ASSUME x \in show_arm(args) PROVE x.kind \in {"rt", "ds", "dns", "show"}
    <3>1. \/ args \in {<< <<"rt">> >>, << <<"ds">> >>} /\ x = [nothing EXCEPT !.kind = args[1][1]]
          \/ \E d : x = [nothing EXCEPT !.kind = "dns", !.domain = d]
          \/ \E d, p : x = [nothing EXCEPT !.kind = "show", !.domain = d, !.package = p]
      BY <2>4 DEF show_arm
    <3>2. args \in {<< <<"rt">> >>, << <<"ds">> >>} => args[1][1] \in {"rt", "ds"}
      <4>1. << <<"rt">> >>[1] = <<"rt">> /\ << <<"ds">> >>[1] = <<"ds">>
        OBVIOUS
      <4>2. <<"rt">>[1] = "rt" /\ <<"ds">>[1] = "ds"
        OBVIOUS
      <4> QED
        BY <4>1, <4>2
    <3>3. ASSUME NEW k, x = [nothing EXCEPT !.kind = k] PROVE x.kind = k
      BY <3>3 DEF nothing
    <3>4. ASSUME NEW d, x = [nothing EXCEPT !.kind = "dns", !.domain = d] PROVE x.kind = "dns"
      BY <3>4 DEF nothing
    <3>5. ASSUME NEW d, NEW p, x = [nothing EXCEPT !.kind = "show", !.domain = d, !.package = p]
          PROVE  x.kind = "show"
      BY <3>5 DEF nothing
    <3> QED
      BY <3>1, <3>2, <3>3, <3>4, <3>5
  <2>5. ASSUME x \in install_arm(args) PROVE x.kind = "install" /\ x.version \in Versions \union {None}
    <3>1. PICK n, f :
            /\ n \in parse_install_name(args[1])
            /\ x = [nothing EXCEPT !.kind = "install", !.domain = n.domain, !.package = n.package,
                                   !.version = n.version, !.file = f]
      BY <2>5 DEF install_arm
    <3>2. n.version \in Versions \union {None}
      BY <3>1, <1>InstallNames
    <3> QED
      BY <3>1, <3>2 DEF nothing
  <2>6. ASSUME x \in words PROVE x.kind = "publish" /\ x.version \in Versions
    <3> DEFINE after[i \in 0..Len(args)] == IF i = 0 THEN no_options ELSE option(after[i - 1], args[i])
               options == after[Len(args)]
    <3>1. PICK n : /\ n \in parse_install_name(options.positional[1]) /\ n.version # None
                   /\ x = [nothing EXCEPT !.kind = "publish", !.domain = n.domain, !.package = n.package,
                                !.version = n.version, !.file = options.positional[2],
                                !.previous = options.previous, !.force = options.force]
      BY <2>6 DEF parse_publish_args
    <3>2. n.version \in Versions
      BY <3>1, <1>InstallNames
    <3> HIDE DEF options
    <3> QED
      BY <3>1, <3>2 DEF nothing
  <2>7. \/ x \in ping_arm(args) \/ x \in put_arm(args) \/ x \in get_arm(args) \/ x \in show_arm(args)
        \/ x \in install_arm(args) \/ x \in words
        \/ \E word \in {"help", "exit"} : x = [nothing EXCEPT !.kind = word]
    BY DEF parse
  <2>8. ASSUME NEW word \in {"help", "exit"}, x = [nothing EXCEPT !.kind = word]
        PROVE  x.kind \in {"help", "exit"}
    BY <2>8 DEF nothing
  <2> QED
    BY <2>1, <2>2, <2>3, <2>4, <2>5, <2>6, <2>7, <2>8
\* The commands of the shells, and that nothing changes them.
<1>InitCommands.
    ASSUME Init
    PROVE  /\ DOMAIN command \subseteq Clients
           /\ \A c \in DOMAIN command : CommandOK(c)
  <2> USE <1>InitCommands
  <2>1. PICK s \in Scenarios :
          /\ command \in [DOMAIN s.typed -> UNION {understood(s.typed[c]) : c \in DOMAIN s.typed}]
          /\ \A c \in DOMAIN s.typed : command[c] \in understood(s.typed[c])
    BY DEF Init
  <2>2. DOMAIN command = DOMAIN s.typed
    BY <2>1
  <2>3. DOMAIN s.typed \subseteq Clients
    BY DEF Clients
  <2>4. ASSUME NEW c \in DOMAIN command
        PROVE  CommandOK(c)
    <3> DEFINE t == s.typed[c]
               y == command[c]
    <3>1. y \in understood(t)
      BY <2>1, <2>2
    <3>2. /\ y.kind \in {"publish", "put"} => y.blob \in Blobs
          /\ y.kind = "publish" => y.signer \in Signers
          /\ y.kind \in {"install", "get"} /\ y.file # None => y.file \in Files
          /\ y.kind = "install" =>
               \A v \in Versions : default_install_filename(y.domain, y.package, v) \in Files
      BY <2>1, <2>2, <3>1, ScenariosAssumption
    <3>3. PICK x \in IF parse(t.line) = {} THEN {nothing} ELSE parse(t.line) :
            y = [kind |-> x.kind, domain |-> x.domain, package |-> x.package, version |-> x.version,
                 file |-> x.file, previous |-> x.previous, force |-> x.force, signer |-> t.signer,
                 blob |-> IF x.kind = "get" THEN x.key ELSE t.blob]
      BY <3>1 DEF understood
    <3>4. y.kind = x.kind /\ y.version = x.version
      BY <3>3, SMTT(60)
    <3>5. x = nothing \/ x \in parse(t.line)
      BY <3>3
    <3>6. nothing.kind = "nothing"
      BY DEF nothing
    <3>7. /\ y.kind = "publish" => y.version \in Versions
          /\ y.kind = "install" => y.version \in Versions \union {None}
      BY <3>4, <3>5, <3>6, <1>ParsedLines
    <3> QED
      BY <3>2, <3>7 DEF CommandOK, kind
  <2> QED
    BY <2>2, <2>3, <2>4
<1>1. DOMAIN command \subseteq Clients /\ \A c \in DOMAIN command : CommandOK(c)
  BY <1>InitCommands
<1>2. PICK s \in Scenarios :
        /\ budget = s.faults /\ pointer = s.start
        /\ files = [f \in Files |-> IF f \in s.present THEN "theirs" ELSE "absent"]
  BY DEF Init
<1>3. budget \in Nat /\ pointer \in [Nodes -> Histories] /\ DOMAIN files = Files
  BY <1>2, ScenariosAssumption
<1>4. values \in [Nodes -> SUBSET Stored]
  <2>1. ASSUME NEW n \in Nodes, NEW i \in 1..Len(pointer[n])
        PROVE  record(SubSeq(pointer[n], 1, i)) \in Stored
    <3>1. pointer[n] \in Histories /\ i \in 0..Len(pointer[n]) /\ i # 0
      BY <1>3, <2>1, HistoryFacts, SMTT(60)
    <3>2. SubSeq(pointer[n], 1, i) \in Histories \ {<<>>}
      BY <3>1, SubSeqFacts
    <3> QED
      BY <3>2 DEF record, Stored
  <2>2. ASSUME NEW n \in Nodes, NEW e \in Range(pointer[n])
        PROVE  blob(e.blob) \in Stored
    <3>1. pointer[n] \in Histories /\ pointer[n] \in Seq(Entries)
      BY <1>3, HistoryFacts
    <3>2. PICK i \in DOMAIN pointer[n] : e = pointer[n][i]
      BY DEF Range
    <3>3. i \in 1..Len(pointer[n])
      BY <3>1, <3>2, SMTT(60)
    <3>4. e.blob \in Blobs
      BY <3>1, <3>2, <3>3, HistoryFacts
    <3> QED
      BY <3>4 DEF blob, Stored
  <2>3. values = [n \in Nodes |-> {record(SubSeq(pointer[n], 1, i)) : i \in 1..Len(pointer[n])}
                                  \union {blob(e.blob) : e \in Range(pointer[n])}]
    BY DEF Init
  <2> QED
    BY <2>1, <2>2, <2>3
<1>5. SharedTypes
  BY <1>3, <1>4 DEF Init, SharedTypes
<1>6. <<>> \in Histories
  BY SMTT(60) DEF Histories
<1>7. LocalTypes
  BY <1>6, SMTT(60) DEF Init, LocalTypes, Labels
<1>8. \A t \in Tasks : TaskOK(t)
  BY <1>1, TasksAssumption DEF Init, TaskOK, Tasks
<1> QED
  BY <1>1, <1>5, <1>7, <1>8 DEF TypeInv

LEMMA TypesHold == Spec => []TypeInv
<1>1. Init => TypeInv
  BY InitTypes
<1>2. TypeInv /\ [Next]_vars => TypeInv'
  BY TypeStep
<1> QED
  BY <1>1, <1>2, PTL DEF Spec

\* A shell's command only moves by its own steps, but for what a restarting node forgets.
HistoryKept(t) ==
    /\ restarted' = restarted
    /\ \A c \in Clients \ {t} : kept'[c] = kept[c] /\ before'[c] = before[c] /\ missed'[c] = missed[c]

LEMMA HistoryFrame ==
    ASSUME TypeInv
    PROVE  /\ \A c \in DOMAIN command : CommandAction(c) => HistoryKept(c) /\ UNCHANGED kept
           /\ \A t \in Nodes \union DOMAIN command : TaskAction(t) => HistoryKept(t) /\ UNCHANGED <<before, missed>>
           /\ \A n \in Nodes : Republish(n) \/ Finish(n) => HistoryKept(n) /\ UNCHANGED <<before, missed, kept>>
           /\ \A m \in late : Deliver(m) => UNCHANGED <<before, missed, kept, restarted>>
<1>1. ASSUME NEW c \in DOMAIN command, CommandAction(c) PROVE HistoryKept(c) /\ UNCHANGED kept
  <2>1. CASE Show(c) \/ Exit(c) \/ Refuse(c) \/ Abandon(c)
    BY <2>1 DEF Show, Exit, Refuse, Abandon, history, HistoryKept
  <2>2. CASE Begin(c)
    BY <2>2 DEF Begin, HistoryKept, TypeInv, SharedTypes
  <2>3. CASE NoKey(c) \/ \E n \in Nodes : AskLatest(c, n)
    BY <2>3 DEF NoKey, AskLatest, history, HistoryKept
  <2>4. ASSUME NEW M \in SUBSET Nodes, AskMisses(c, M) PROVE HistoryKept(c) /\ UNCHANGED kept
    <3>1. UNCHANGED <<before, kept, restarted>> /\ missed' = [missed EXCEPT ![c] = missed[c] \union M]
      BY <2>4 DEF AskMisses
    <3> QED
      BY <3>1 DEF HistoryKept, TypeInv, SharedTypes
  <2>5. CASE Fetch(c) \/ FetchFails(c) \/ Create(c) \/ Write(c) \/ WriteFails(c)
    BY <2>5 DEF Fetch, FetchFails, Create, Write, WriteFails, history, HistoryKept
  <2> QED
    BY <1>1, <2>1, <2>2, <2>3, <2>4, <2>5 DEF CommandAction
<1>2. ASSUME NEW t \in Nodes \union DOMAIN command, TaskAction(t)
      PROVE  HistoryKept(t) /\ UNCHANGED <<before, missed>>
  <2>1. CASE Walk(t) \/ WalkFails(t) \/ Walked(t) \/ Turn(t)
    BY <2>1 DEF Walk, WalkFails, Walked, Turn, history, HistoryKept
  <2>2. ASSUME NEW n \in Nodes, NEW ack, Called(t, n, ack) PROVE HistoryKept(t) /\ UNCHANGED <<before, missed>>
    <3>1. UNCHANGED <<before, missed, restarted>> /\ (kept' = kept \/ kept' = [kept EXCEPT ![t] = kept[t] \union {n}])
      BY <2>2 DEF Called
    <3> QED
      BY <3>1 DEF HistoryKept, TypeInv, SharedTypes
  <2> QED
    BY <1>2, <2>1, <2>2 DEF TaskAction, StoreReply, StoreMisses
<1>3. ASSUME NEW n \in Nodes, Republish(n) \/ Finish(n) PROVE HistoryKept(n) /\ UNCHANGED <<before, missed, kept>>
  BY <1>3 DEF Republish, Finish, history, HistoryKept
<1>4. ASSUME NEW m \in late, Deliver(m) PROVE UNCHANGED <<before, missed, kept, restarted>>
  BY <1>4 DEF Deliver, history
<1> QED
  BY <1>1, <1>2, <1>3, <1>4

Untouched(c) ==
    /\ pc'[c] = pc[c] /\ best'[c] = best[c] /\ left'[c] = left[c] /\ job'[c] = job[c] /\ cur'[c] = cur[c]
    /\ todo'[c] = todo[c] /\ acks'[c] = acks[c] /\ before'[c] = before[c] /\ missed'[c] = missed[c]
    /\ kept'[c] = kept[c] \/ restarted'
    /\ kept'[c] \subseteq kept[c] /\ (restarted => restarted')

LEMMA ClientCases ==
    ASSUME TypeInv, [Next]_vars, NEW c \in DOMAIN command
    PROVE  Untouched(c) \/ CommandAction(c) \/ TaskAction(c)
<1>1. c \in Tasks /\ c \in Clients /\ c \notin Nodes
  BY TaskFacts
<1>2. ASSUME NEW t, t # c, OthersKeep(t), HistoryKept(t) PROVE Untouched(c)
  BY <1>1, <1>2 DEF OthersKeep, HistoryKept, Untouched
<1>3. CASE UNCHANGED vars
  BY <1>3 DEF vars, local, history, Untouched
<1>4. ASSUME NEW n \in Nodes, Restart(n) PROVE Untouched(c)
  <2>1. OthersKeep(n) /\ n # c
    BY <1>1, <1>4, ActionTypes DEF TypesKept
  <2>2. UNCHANGED <<before, missed>> /\ kept'[c] = kept[c] \ {n} /\ restarted'
    BY <1>1, <1>4 DEF Restart
  <2> QED
    BY <1>1, <2>1, <2>2 DEF OthersKeep, Untouched
<1>5. ASSUME NEW m \in late, Deliver(m) PROVE Untouched(c)
  BY <1>5 DEF Deliver, local, history, Untouched
<1>6. ASSUME NEW n \in Nodes, Republish(n) \/ Finish(n) PROVE Untouched(c)
  BY <1>1, <1>2, <1>6, ActionTypes, HistoryFrame DEF TypesKept
<1>7. ASSUME NEW d \in DOMAIN command, CommandAction(d) PROVE Untouched(c) \/ CommandAction(c)
  BY <1>1, <1>2, <1>7, ActionTypes, HistoryFrame DEF TypesKept
<1>8. ASSUME NEW d \in Nodes \union DOMAIN command, TaskAction(d) PROVE Untouched(c) \/ TaskAction(c)
  BY <1>1, <1>2, <1>8, ActionTypes, HistoryFrame DEF TypesKept
<1>9. ASSUME NEW d \in DOMAIN command, Flushes(d) PROVE Untouched(c)
  BY <1>9, FlushFrame DEF Untouched
<1>10. CASE Next /\ ~UNCHANGED vars
  BY <1>4, <1>5, <1>6, <1>7, <1>8, <1>9, <1>10, NextCases
<1> QED
  BY <1>3, <1>10
-----------------------------------------------------------------------------
(* Publishers *)

\* DNS does not change under a command, nor does what is genuine.
LEMMA DnsConstant ==
    ASSUME records' = records
    PROVE  get_dns_vk' = get_dns_vk /\ \A h : Genuine(h)' <=> Genuine(h)
<1>1. get_dns_vk' = get_dns_vk
  BY DEF get_dns_vk
<1> QED
  BY <1>1 DEF Genuine

LEMMA PartsFacts ==
    ASSUME NEW h
    PROVE  /\ latest(h) \in Parts(h) /\ record(h) \in Parts(h) /\ blob(Last(h).blob) \in Parts(h)
           /\ latest(h).type = "latest" /\ latest(h).of = h
           /\ \A v \in Parts(h) : v.type = "latest" => v = latest(h)
           /\ \A v \in Parts(h) : v.type # "latest" => v = record(h) \/ v = blob(Last(h).blob)
BY SMTT(60) DEF Parts, latest, record, blob

LEMMA PublisherFacts ==
    ASSUME TypeInv, NEW c \in Publishers
    PROVE  /\ c \in DOMAIN command /\ c \in Tasks /\ c \in Clients /\ c \notin Nodes /\ publisher(c)
           /\ kind(c) = "publish" /\ CommandOK(c) /\ TaskOK(c) /\ best[c] \in Histories
           /\ acks[c] \in Nat /\ job[c] \subseteq Values /\ todo[c] \subseteq Nodes
BY TaskFacts, SMTT(60) DEF Publishers, publisher, TypeInv, LocalTypes

\* Of the steps of commands and tasks, a publisher takes these.
LEMMA PublisherActions ==
    ASSUME TypeInv, NEW c \in Publishers, CommandAction(c) \/ TaskAction(c)
    PROVE  \/ Refuse(c) \/ Abandon(c) \/ Begin(c)
           \/ NoKey(c) \/ (\E n \in Nodes : AskLatest(c, n)) \/ (\E M \in SUBSET Nodes : AskMisses(c, M))
           \/ TaskAction(c)
<1>1. ~(Show(c) \/ Exit(c))
  BY PublisherFacts DEF Show, Exit
<1>2. ~(Fetch(c) \/ FetchFails(c) \/ Create(c) \/ Write(c) \/ WriteFails(c))
  <2>1. pc[c] \notin {"fetch", "create", "write"}
    BY PublisherFacts DEF TaskOK
  <2> QED
    BY <2>1 DEF Fetch, FetchFails, Create, Write, WriteFails
<1> QED
  BY <1>1, <1>2 DEF CommandAction

LEMMA PublishersHold == Spec => []PublishersOK
\* Steps that leave a publisher where it is.
<1>PublisherKeeps.
    ASSUME TypeInv, command' = command, records' = records, NEW c \in Publishers, PublisherOK(c),
           pc'[c] = pc[c], best'[c] = best[c], job'[c] = job[c], cur'[c] = cur[c], acks'[c] = acks[c],
           kept'[c] \subseteq kept[c], kept'[c] = kept[c] \/ restarted', restarted => restarted'
    PROVE  PublisherOK(c)'
  <2> USE <1>PublisherKeeps
  <2>1. get_dns_vk' = get_dns_vk
    BY DnsConstant
  <2>2. Genuine(best[c])' <=> Genuine(best[c])
    BY <2>1 DEF Genuine
  <2>3. Parts(best[c])' = Parts(best[c]) /\ latest(best[c])' = latest(best[c])
    BY DEF Parts, latest, record, blob
  <2> QED
    BY <2>2, <2>3 DEF PublisherOK
\* The places of a publisher where PublisherOK asks for nothing.
<1>PublisherElsewhere.
    ASSUME NEW c \in Publishers, PublisherOK(c), command' = command, records' = records,
           kept'[c] = kept[c],
           \/ pc'[c] = "failed" /\ best'[c] = best[c]
           \/ pc'[c] \in {"latest", "walk"} /\ pc[c] \in {"idle", "latest", "walk"}
    PROVE  PublisherOK(c)'
  <2> USE <1>PublisherElsewhere
  <2>1. get_dns_vk' = get_dns_vk
    BY DnsConstant
  <2>2. best'[c] = best[c] => (Genuine(best[c])' <=> Genuine(best[c]))
    BY <2>1 DEF Genuine
  <2> QED
    BY <2>2 DEF PublisherOK
<1>PreparedOK.
    ASSUME TypeInv, NEW c \in Publishers, PublisherOK(c), pc[c] \in {"latest", "walk"},
           NEW existing, NEW g \in Histories, Prepared(c, existing, g), kept'[c] = kept[c]
    PROVE  PublisherOK(c)'
  <2> USE <1>PreparedOK
  <2>1. c \in Tasks
    BY PublisherFacts
  <2>2. best'[c] = g /\ g # <<>> /\ job'[c] = Parts(g) /\ pc'[c] = "turn" /\ kept'[c] = {}
    BY <2>1 DEF Prepared, TypeInv, LocalTypes, PublisherOK
  <2>3. latest(g) \in Parts(g)
    BY PartsFacts
  <2>4. Parts(best[c])' = Parts(g) /\ latest(best[c])' = latest(g)
    BY <2>2 DEF Parts, latest, record, blob
  <2> QED
    BY <2>2, <2>3, <2>4 DEF PublisherOK
<1>PublisherAsks.
    ASSUME TypeInv, NEW c \in Publishers, PublisherOK(c), command' = command, records' = records,
           NEW R \in SUBSET Nodes, NEW h \in Histories, Asked(c, R, h)
    PROVE  PublisherOK(c)'
  <2> USE <1>PublisherAsks
  <2>1. c \in DOMAIN command /\ c \in Tasks /\ pc[c] = "latest" /\ kept'[c] = kept[c] /\ Heard(c, R, h)
    BY PublisherFacts DEF Asked
  <2>2. CASE StillAsking(c, R, h)
    <3>1. pc'[c] = "latest"
      BY <2>1, <2>2 DEF StillAsking, TypeInv, LocalTypes
    <3> QED
      BY <2>1, <3>1, <1>PublisherElsewhere
  <2>3. CASE FoundLatest(c, R, h)
    <3>1. pc'[c] = "walk"
      BY <2>1, <2>3 DEF FoundLatest, TypeInv, LocalTypes
    <3> QED
      BY <2>1, <3>1, <1>PublisherElsewhere
  <2>4. CASE FoundNothing(c, R, h)
    <3>1. pc'[c] = "failed" /\ best'[c] = best[c]
      BY <2>1, <2>4 DEF FoundNothing, TypeInv, LocalTypes
    <3> QED
      BY <2>1, <3>1, <1>PublisherElsewhere
  <2>5. CASE FirstVersion(c, R, h)
    <3>1. PICK g \in Histories : Prepared(c, <<>>, g)
      BY <2>5 DEF FirstVersion
    <3> QED
      BY <2>1, <3>1, <1>PreparedOK
  <2> QED
    BY <2>1, <2>2, <2>3, <2>4, <2>5, HeardCases
<1>PublisherTurn.
    ASSUME TypeInv, NEW c \in Publishers, PublisherOK(c), Turn(c)
    PROVE  PublisherOK(c)'
  <2> USE <1>PublisherTurn
  <2>1. /\ c \in Tasks /\ c \notin Nodes /\ pc[c] = "turn" /\ best'[c] = best[c] /\ kept'[c] = kept[c]
        /\ best[c] # <<>> /\ job[c] \subseteq Parts(best[c]) /\ latest(best[c]) \in job[c] /\ kept[c] = {}
    BY PublisherFacts DEF Turn, history, PublisherOK
  <2>2. PICK v \in job[c] :
          /\ \A w \in job[c] : rank(c, v) <= rank(c, w)
          /\ job' = [job EXCEPT ![c] = job[c] \ {v}] /\ cur' = [cur EXCEPT ![c] = v]
          /\ StartsStore(c)
    BY <2>1 DEF Turn, StartsStore, goto
  <2>3. job'[c] = job[c] \ {v} /\ cur'[c] = v /\ pc'[c] = "store" /\ acks'[c] = 0
    BY <2>1, <2>2 DEF StartsStore, TypeInv, LocalTypes
  <2>4. v \in Parts(best[c])
    BY <2>1, <2>2
  <2>5. v.type = "latest" => job[c] \ {v} = {}
    <3> SUFFICES ASSUME v.type = "latest", NEW w \in job[c] PROVE w = v
      OBVIOUS
    <3>1. rank(c, v) = 2 /\ rank(c, v) <= rank(c, w)
      BY <2>2 DEF rank
    <3>2. w.type = "latest"
      BY <2>1, <3>1, SMTT(60) DEF rank
    <3> QED
      BY <2>1, <2>4, <3>2, PartsFacts
  <2>6. v.type # "latest" => latest(best[c]) \in job[c] \ {v}
    BY <2>1, PartsFacts
  <2>7. Parts(best[c])' = Parts(best[c]) /\ latest(best[c])' = latest(best[c])
    BY <2>1 DEF Parts, latest, record, blob
  <2> QED
    BY <2>1, <2>3, <2>4, <2>5, <2>6, <2>7, SMTT(60) DEF PublisherOK
<1>PublisherCalled.
    ASSUME TypeInv, NEW c \in Publishers, PublisherOK(c), records' = records, NEW n \in Nodes,
           NEW ack \in BOOLEAN, Called(c, n, ack), ack /\ cur[c].type = "latest" => Genuine(cur[c].of)
    PROVE  PublisherOK(c)'
  <2> USE <1>PublisherCalled
  <2> DEFINE a == IF ack /\ c \in Clients THEN acks[c] + 1 ELSE acks[c]
             label == IF todo[c] = {n} THEN after_store(c, a) ELSE "store"
  <2>1. /\ c \in Tasks /\ c \in Clients /\ c \notin Nodes /\ publisher(c) /\ pc[c] = "store" /\ acks[c] \in Nat
        /\ UNCHANGED <<best, job, cur, restarted>>
    BY PublisherFacts DEF Called
  <2>2. acks' = [acks EXCEPT ![c] = a] /\ pc' = [pc EXCEPT ![c] = label]
    BY DEF Called, goto
  <2>3. /\ a \in Nat /\ (a > 0 => ack \/ acks[c] > 0)
        /\ label \in {"store", "failed", "turn", "ok"}
        /\ label = "turn" => job[c] # {}
        /\ label = "ok" => job[c] = {} /\ a # 0
    BY <2>1, SMTT(60) DEF after_store
  <2> HIDE DEF a, label
  <2>4. acks'[c] = a /\ pc'[c] = label
    BY <2>1, <2>2 DEF TypeInv, LocalTypes
  <2>5. kept'[c] = IF ack /\ cur[c].type = "latest" THEN kept[c] \union {n} ELSE kept[c]
    BY <2>1 DEF Called, TypeInv, SharedTypes
  <2>6. cur[c] \in Parts(best[c]) /\ (cur[c].type = "latest" => cur[c].of = best[c])
    <3>1. cur[c] \in Parts(best[c])
      BY <2>1 DEF PublisherOK
    <3> QED
      BY <3>1, PartsFacts
  <2>7. ack /\ cur[c].type = "latest" => Genuine(best[c])
    BY <2>6
  <2>8. Genuine(best[c])' <=> Genuine(best[c])
    <3>1. get_dns_vk' = get_dns_vk
      BY DnsConstant
    <3> QED
      BY <2>1, <3>1 DEF Genuine
  <2>9. Parts(best[c])' = Parts(best[c]) /\ latest(best[c])' = latest(best[c])
    BY <2>1 DEF Parts, latest, record, blob
  <2>10. cur[c].type = "latest" /\ a > 0 => Genuine(best[c]) /\ (kept'[c] # {} \/ restarted)
    BY <2>1, <2>3, <2>5, <2>7 DEF PublisherOK
  <2>11. kept'[c] # {} => Genuine(best[c]) /\ cur[c].type = "latest"
    BY <2>1, <2>5, <2>7 DEF PublisherOK
  <2>12. label = "ok" => cur[c].type = "latest" /\ a > 0
    BY <2>1, <2>3, SMTT(60) DEF PublisherOK
  <2>13. label = "turn" => cur[c].type # "latest" /\ latest(best[c]) \in job[c]
    BY <2>1, <2>3 DEF PublisherOK
  <2> QED
    BY <2>1, <2>3, <2>4, <2>6, <2>8, <2>9, <2>10, <2>11, <2>12, <2>13 DEF PublisherOK
<1>PublisherStep.
    ASSUME TypeInv, PublishersOK, [Next]_vars, NEW c \in Publishers
    PROVE  PublisherOK(c)'
  <2> USE <1>PublisherStep
  <2>1. /\ command' = command /\ records' = records /\ PublisherOK(c)
        /\ c \in DOMAIN command /\ c \in Tasks /\ c \notin Nodes /\ kind(c) = "publish"
    BY Constant, PublisherFacts DEF PublishersOK
  <2>2. CASE Untouched(c)
    BY <2>1, <2>2, <1>PublisherKeeps DEF Untouched
  <2>3. CASE Refuse(c) \/ Abandon(c)
    <3>1. pc'[c] = "failed" /\ best'[c] = best[c] /\ kept'[c] = kept[c]
      BY <2>1, <2>3 DEF Refuse, Abandon, history, goto, TypeInv, LocalTypes
    <3> QED
      BY <2>1, <3>1, <1>PublisherElsewhere
  <2>4. CASE Begin(c)
    <3>1. pc'[c] = "latest" /\ pc[c] = "idle" /\ kept'[c] = kept[c]
      BY <2>1, <2>4 DEF Begin, goto, TypeInv, LocalTypes
    <3> QED
      BY <2>1, <3>1, <1>PublisherElsewhere
  <2>5. CASE NoKey(c) \/ (\E n \in Nodes : AskLatest(c, n)) \/ (\E M \in SUBSET Nodes : AskMisses(c, M))
    <3>1. PICK R \in SUBSET Nodes, h \in Histories : Asked(c, R, h)
      <4>1. todo[c] \in SUBSET Nodes /\ best[c] \in Histories /\ <<>> \in Histories /\ {} \in SUBSET Nodes
        BY PublisherFacts, TaskFacts
      <4>2. \A M : todo[c] \ M \in SUBSET Nodes
        BY <4>1
      <4> QED
        BY <2>1, <2>5, <4>1, <4>2, AskCases
    <3> QED
      BY <2>1, <3>1, <1>PublisherAsks
  <2>6. CASE WalkFails(c)
    <3>1. pc'[c] = "failed" /\ best'[c] = best[c] /\ kept'[c] = kept[c]
      BY <2>1, <2>6 DEF WalkFails, history, goto, TypeInv, LocalTypes
    <3> QED
      BY <2>1, <3>1, <1>PublisherElsewhere
  <2>7. CASE Walk(c)
    <3>1. UNCHANGED <<pc, best, job, cur, acks, kept, restarted>>
      BY <2>7 DEF Walk, history
    <3> QED
      BY <2>1, <3>1, <1>PublisherKeeps
  <2>8. CASE Walked(c)
    <3>1. pc[c] = "walk" /\ WalkedTo(c) /\ kept'[c] = kept[c]
      BY <2>1, <2>8, WalkedCases DEF history
    <3>2. CASE \E g \in Histories : Prepared(c, best[c], g)
      BY <3>1, <3>2, <2>1, <1>PreparedOK
    <3>3. CASE pc' = [pc EXCEPT ![c] = "failed"] /\ UNCHANGED best
      <4>1. pc'[c] = "failed" /\ best'[c] = best[c]
        BY <2>1, <3>3 DEF TypeInv, LocalTypes
      <4> QED
        BY <2>1, <3>1, <4>1, <1>PublisherElsewhere
    <3> QED
      BY <2>1, <3>1, <3>2, <3>3 DEF WalkedTo
  <2>9. CASE Turn(c)
    BY <2>1, <2>9, <1>PublisherTurn
  <2>10. ASSUME NEW n \in Nodes, StoreReply(c, n) \/ StoreMisses(c, n) PROVE PublisherOK(c)'
    <3>1. CASE StoreReply(c, n)
      <4>1. Called(c, n, accepts(n, cur[c])) /\ accepts(n, cur[c]) \in BOOLEAN
        BY <3>1 DEF StoreReply, accepts
      <4>2. accepts(n, cur[c]) /\ cur[c].type = "latest" => Genuine(cur[c].of)
        BY DEF accepts
      <4> HIDE DEF accepts
      <4> QED
        BY <2>1, <4>1, <4>2, <1>PublisherCalled
    <3>2. CASE StoreMisses(c, n)
      BY <2>1, <3>2, <1>PublisherCalled DEF StoreMisses
    <3> QED
      BY <2>10, <3>1, <3>2
  <2> QED
    BY <2>1, <2>2, <2>3, <2>4, <2>5, <2>6, <2>7, <2>8, <2>9, <2>10, ClientCases, PublisherActions DEF TaskAction
<1>1. Init => PublishersOK
  <2> SUFFICES ASSUME Init, NEW c \in Publishers PROVE PublisherOK(c)
    BY DEF PublishersOK
  <2>1. c \in Tasks /\ c \in Clients
    BY InitTypes, PublisherFacts
  <2>2. pc[c] = "idle" /\ kept[c] = {}
    BY <2>1 DEF Init, Publishers
  <2> QED
    BY <2>2 DEF PublisherOK
<1>2. TypeInv /\ PublishersOK /\ [Next]_vars => PublishersOK'
  <2> SUFFICES ASSUME TypeInv, PublishersOK, [Next]_vars PROVE PublishersOK'
    OBVIOUS
  <2>1. Publishers' = Publishers
    BY Constant DEF Publishers, publisher, kind
  <2> QED
    BY <2>1, <1>PublisherStep DEF PublishersOK
<1> QED
  BY <1>1, <1>2, TypesHold, PTL DEF Spec

\* A publication that publish_package reports as done is genuine and not too long, also by
\* --force: for any histories on the nodes, any concurrent commands and failures.
THEOREM PublishedAreGenuine == Spec => []PublishedIsGenuine
<1>1. PublishersOK => PublishedIsGenuine
  BY DEF PublishersOK, PublisherOK, Publishers, PublishedIsGenuine
<1> QED
  BY <1>1, PublishersHold, PTL
-----------------------------------------------------------------------------
(* Files *)

NoPackage == {"absent", "theirs", "partial", "buffered", "cut"}

\* What the file of an install holds, between its creation and whoever opens it next.
Contents(c) == IF pc[c] = "write" THEN {"partial"} ELSE {cur[c].of, "buffered", "cut"}

LEMMA FilesHold == Spec => []FilesOK
<1>FileNames.
    ASSUME TypeInv, NEW c \in DOMAIN command
    PROVE  /\ kind(c) = "install" /\ pc[c] \in {"create", "write", "ok"} =>
                filename(c) \in Files /\ cur[c].of \in Blobs /\ cur[c].of \notin NoPackage
           /\ pc[c] = "write" /\ kind(c) # "install" => Shared(filename(c))
  <2> USE <1>FileNames
  <2>1. c \in Tasks /\ CommandOK(c) /\ TaskOK(c) /\ best[c] \in Histories
    BY TaskFacts DEF TypeInv, LocalTypes
  <2>2. ASSUME kind(c) = "install", pc[c] \in {"create", "write", "ok"}
        PROVE  filename(c) \in Files /\ cur[c].of \in Blobs /\ cur[c].of \notin NoPackage
    <3>1. best[c] # <<>> /\ cur[c].of \in Blobs
      BY <2>1, <2>2 DEF TaskOK
    <3>2. version(best[c]) \in Versions
      BY <2>1, <3>1, HistoryFacts DEF version, Entries
    <3>3. filename(c) \in Files
      BY <2>1, <2>2, <3>2 DEF filename, CommandOK
    <3> QED
      BY <3>1, <3>3, BlobsAssumption DEF NoPackage
  <2>3. ASSUME pc[c] = "write", kind(c) # "install" PROVE Shared(filename(c))
    <3>1. kind(c) = "get" /\ command[c].file # None
      BY <2>1, <2>3 DEF TaskOK
    <3> QED
      BY <3>1 DEF Shared, filename
  <2> QED
    BY <2>2, <2>3
\* An install comes to write by creating its file, and to its end by writing it.
<1>InstallCases.
    ASSUME TypeInv, [Next]_vars, NEW c \in DOMAIN command, kind(c) = "install", pc'[c] \in {"write", "ok"}
    PROVE  Untouched(c) \/ Create(c) \/ Write(c)
  <2> USE <1>InstallCases
  <2>1. c \in Tasks /\ c \notin Nodes /\ TaskOK(c) /\ pc \in [Tasks -> Labels] /\ ~publisher(c)
    BY TaskFacts DEF TypeInv, LocalTypes, publisher
  <2>2. ~Show(c)
    BY DEF Show
  <2>3. ASSUME \E label \in {"off", "failed", "latest", "walk", "turn", "fetch", "create", "store"} :
                 pc' = [pc EXCEPT ![c] = label]
        PROVE  FALSE
    BY <2>1, <2>3
  <2>4. ~(Exit(c) \/ Refuse(c) \/ Abandon(c) \/ FetchFails(c) \/ WriteFails(c) \/ WalkFails(c))
    BY <2>1, <2>3 DEF Exit, Refuse, Abandon, FetchFails, WriteFails, WalkFails, goto
  <2>5. ~Begin(c)
    <3>1. Begin(c) => pc' = [pc EXCEPT ![c] = "latest"]
      BY DEF Begin, goto
    <3> QED
      BY <2>3, <3>1
  <2>6. ~(NoKey(c) \/ (\E n \in Nodes : AskLatest(c, n)) \/ (\E M \in SUBSET Nodes : AskMisses(c, M)))
    <3>1. ASSUME NEW R, NEW h, Heard(c, R, h) PROVE FALSE
      BY <2>1, <2>3, <3>1 DEF Heard, goto
    <3> QED
      BY <3>1 DEF NoKey, AskLatest, AskMisses
  <2>7. ~Fetch(c)
    BY <2>3 DEF Fetch, goto
  <2>8. ~Walk(c)
    BY <2>1 DEF Walk
  <2>9. ~Walked(c)
    <3>1. Walked(c) => WalkedTo(c)
      BY WalkedCases
    <3>2. \A g : ~Prepared(c, best[c], g)
      BY <2>1 DEF Prepared
    <3>3. ~WalkedTo(c)
      BY <2>1, <2>3, <3>2 DEF WalkedTo, Chosen
    <3> QED
      BY <3>1, <3>3
  <2>10. ~(Turn(c) \/ \E n \in Nodes : StoreReply(c, n) \/ StoreMisses(c, n))
    <3>1. pc[c] \notin {"turn", "store"}
      BY <2>1 DEF TaskOK
    <3> QED
      BY <3>1 DEF Turn, StoreReply, StoreMisses, Called
  <2> QED
    BY <2>2, <2>4, <2>5, <2>6, <2>7, <2>8, <2>9, <2>10, ClientCases DEF CommandAction, TaskAction
<1>FilesFrame.
    ASSUME TypeInv, [Next]_vars
    PROVE  UNCHANGED files \/ \E d \in DOMAIN command : Create(d) \/ Write(d) \/ WriteFails(d) \/ Flushes(d)
  <2> USE <1>FilesFrame
  <2>1. UNCHANGED vars => UNCHANGED files
    BY DEF vars
  <2>2. ASSUME NEW c \in DOMAIN command, CommandAction(c), ~(Create(c) \/ Write(c) \/ WriteFails(c))
        PROVE  UNCHANGED files
    BY <2>2 DEF CommandAction, Show, Exit, Refuse, Abandon, Begin, NoKey, AskLatest, AskMisses, Fetch, FetchFails
  <2>3. ASSUME NEW t \in Nodes \union DOMAIN command, TaskAction(t) PROVE UNCHANGED files
    BY <2>3 DEF TaskAction, Walk, WalkFails, Walked, Turn, StoreReply, StoreMisses, Called
  <2>4. ASSUME NEW n, Republish(n) \/ Finish(n) \/ Restart(n) \/ Deliver(n) PROVE UNCHANGED files
    BY <2>4 DEF Republish, Finish, Restart, Deliver
  <2> QED
    BY <2>1, <2>2, <2>3, <2>4, NextCases
<1>FilesStep.
    ASSUME TypeInv, FilesOK, [Next]_vars
    PROVE  FilesOK'
  <2> USE <1>FilesStep
  <2>1. command' = command /\ (\A f : Shared(f)' <=> Shared(f)) /\ \A c : kind(c)' = kind(c)
    BY Constant DEF Shared, kind
  <2>2. \A c \in DOMAIN command : best'[c] = best[c] => filename(c)' = filename(c)
    BY <2>1 DEF filename, version
  <2>3. ASSUME NEW c \in DOMAIN command, Create(c) \/ Write(c) \/ WriteFails(c) \/ Flushes(c)
        PROVE  /\ c \in Tasks /\ best'[c] = best[c] /\ cur'[c] = cur[c] /\ filename(c)' = filename(c)
               /\ \A d \in DOMAIN command \ {c} : Installing(d)' =>
                    Installing(d) /\ pc'[d] = pc[d] /\ cur'[d] = cur[d] /\ filename(d)' = filename(d)
    <3>1. c \in Tasks /\ c \notin Nodes /\ best'[c] = best[c] /\ cur'[c] = cur[c] /\ OthersKeep(c)
      <4>1. OthersKeep(c)
        BY <2>3, ActionTypes, FlushFrame DEF CommandAction, TypesKept, OthersKeep
      <4> QED
        BY <2>3, <4>1, TaskFacts, FlushFrame DEF Create, Write, WriteFails
    <3>2. ASSUME NEW d \in DOMAIN command \ {c}
          PROVE  pc'[d] = pc[d] /\ cur'[d] = cur[d] /\ filename(d)' = filename(d)
      <4>1. d \in Tasks \ {c}
        BY TaskFacts
      <4>2. pc'[d] = pc[d] /\ cur'[d] = cur[d] /\ best'[d] = best[d]
        BY <3>1, <4>1 DEF OthersKeep
      <4> QED
        BY <2>2, <4>2
    <3> QED
      BY <2>1, <2>2, <3>1, <3>2 DEF Installing
  <2>5. \A c \in DOMAIN command : Installing(c) =>
          /\ files[filename(c)] \in Contents(c)
          /\ files[filename(c)] # "absent" /\ filename(c) \in Files
          /\ \A d \in DOMAIN command : Installing(d) /\ filename(d) = filename(c) => d = c
    BY <1>FileNames DEF FilesOK, Installing, Contents, NoPackage
  <2>6. \A c \in DOMAIN command : Installing(c)' =>
          (Untouched(c) /\ Installing(c) /\ filename(c)' = filename(c)) \/ Create(c) \/ Write(c)
    <3> SUFFICES ASSUME NEW c \in DOMAIN command, Installing(c)'
                 PROVE  (Untouched(c) /\ Installing(c) /\ filename(c)' = filename(c)) \/ Create(c) \/ Write(c)
      OBVIOUS
    <3>1. kind(c) = "install" /\ pc'[c] \in {"write", "ok"} /\ ~Shared(filename(c)')
      BY <2>1 DEF Installing
    <3>2. Untouched(c) => Installing(c) /\ filename(c)' = filename(c)
      BY <2>2, <3>1 DEF Untouched, Installing
    <3> QED
      BY <3>1, <3>2, <1>InstallCases
  <2>7. CASE UNCHANGED files /\ ~\E d \in DOMAIN command : Create(d) \/ Write(d) \/ WriteFails(d)
    <3>1. \A d \in DOMAIN command : Installing(d)' =>
            Installing(d) /\ pc'[d] = pc[d] /\ cur'[d] = cur[d] /\ filename(d)' = filename(d)
      BY <2>6, <2>7 DEF Untouched
    <3> QED
      BY <2>1, <2>5, <2>7, <3>1, SMTT(60) DEF FilesOK, Contents
  <2>8. ASSUME NEW c \in DOMAIN command, Create(c) PROVE FilesOK'
    <3>1. pc[c] = "create" /\ kind(c) = "install" /\ filename(c) \in Files /\ ~Installing(c)
      BY <2>8, TaskFacts, <1>FileNames DEF Create, TypeInv, TaskOK, Installing
    <3>2. CASE files[filename(c)] = "absent"
      <4>1. pc'[c] = "write" /\ files' = [files EXCEPT ![filename(c)] = "partial"]
        BY <2>3, <2>8, <3>2 DEF Create, goto, TypeInv, LocalTypes
      <4>2. \A d \in DOMAIN command : Installing(d) => filename(d) # filename(c)
        BY <2>5, <3>2
      <4>3. files'[filename(c)] = "partial" /\ \A f \in Files : f # filename(c) => files'[f] = files[f]
        BY <3>1, <4>1 DEF TypeInv, SharedTypes
      <4>4. \A d \in DOMAIN command : Installing(d) => files'[filename(d)] = files[filename(d)]
        BY <2>5, <4>2, <4>3
      <4>5. /\ filename(c)' = filename(c)
            /\ \A d \in DOMAIN command \ {c} : Installing(d)' =>
                 Installing(d) /\ pc'[d] = pc[d] /\ cur'[d] = cur[d] /\ filename(d)' = filename(d)
        BY <2>3, <2>8
      <4>6. ASSUME NEW d \in DOMAIN command \ {c}, Installing(d)'
            PROVE  files'[filename(d)'] \in Contents(d)' /\ filename(d)' # filename(c)
        <5>1. Installing(d) /\ Contents(d)' = Contents(d) /\ filename(d)' = filename(d)
          BY <4>5, <4>6 DEF Contents
        <5> QED
          BY <2>5, <4>2, <4>4, <5>1
      <4>7. files'[filename(c)'] \in Contents(c)'
        <5>1. Contents(c)' = {"partial"}
          BY <4>1 DEF Contents
        <5> QED
          BY <4>3, <4>5, <5>1
      <4>8. \A d, e \in DOMAIN command : Installing(d)' /\ Installing(e)' /\ filename(d)' = filename(e)' => d = e
        BY <2>5, <4>5, <4>6
      <4> QED
        BY <2>1, <4>6, <4>7, <4>8 DEF FilesOK, Contents
    <3>3. CASE files[filename(c)] # "absent"
      <4>1. pc'[c] = "failed" /\ files' = files
        BY <2>3, <2>8, <3>3 DEF Create, goto, TypeInv, LocalTypes
      <4>2. ~Installing(c)'
        BY <4>1 DEF Installing
      <4> QED
        BY <2>1, <2>3, <2>5, <2>8, <4>1, <4>2, SMTT(60) DEF FilesOK, Contents
    <3> QED
      BY <3>2, <3>3
  <2>9. ASSUME NEW c \in DOMAIN command, Write(c) \/ WriteFails(c) PROVE FilesOK'
    <3>1. pc[c] = "write" /\ (kind(c) # "install" => Shared(filename(c)))
      BY <2>9, <1>FileNames DEF Write, WriteFails
    <3>2. PICK text : files' = [files EXCEPT ![filename(c)] = text] /\ (Write(c) /\ kind(c) = "install" => text = "buffered")
      BY <2>9 DEF Write, WriteFails
    <3>3. \A d \in DOMAIN command \ {c} : Installing(d) => filename(d) # filename(c)
      BY <2>5, <3>1 DEF Installing
    <3>4. /\ \A d \in DOMAIN command \ {c} : Installing(d) => files'[filename(d)] = files[filename(d)]
          /\ Installing(c) => files'[filename(c)] = text
      <4>1. \A f \in Files : files'[f] = IF f = filename(c) THEN text ELSE files[f]
        BY <3>2 DEF TypeInv, SharedTypes
      <4> QED
        BY <2>5, <3>3, <4>1
    <3>5. Installing(c)' => Installing(c) /\ pc'[c] = "ok" /\ files'[filename(c)] = "buffered"
      <4>1. pc'[c] \in {"ok", "failed"} /\ (pc'[c] = "ok" => Write(c))
        BY <2>3, <2>9 DEF Write, WriteFails, goto, TypeInv, LocalTypes
      <4>2. ASSUME Installing(c)' PROVE Installing(c) /\ pc'[c] = "ok"
        BY <2>1, <2>3, <2>9, <3>1, <4>1, <4>2 DEF Installing
      <4> QED
        BY <3>2, <3>4, <4>1, <4>2 DEF Installing
    <3> QED
      BY <2>1, <2>3, <2>5, <2>9, <3>3, <3>4, <3>5, SMTT(60) DEF FilesOK, Contents
  <2>10. ASSUME NEW c \in DOMAIN command, Flushes(c) PROVE FilesOK'
    <3>1. PICK text \in {cur[c].of, "cut"} : files' = [files EXCEPT ![filename(c)] = text]
      BY <2>10 DEF Flushes, Flush, FlushFails
    <3>2. pc[c] = "ok" /\ kind(c) = "install" /\ pc'[c] = pc[c]
      BY <2>10, FlushFrame DEF Flushes, Flush, FlushFails, buffered
    <3>3. Installing(c)' => Installing(c)
      BY <2>1, <2>3, <2>10, <3>2 DEF Installing
    <3>4. \A d \in DOMAIN command : Installing(d) =>
            files'[filename(d)] = IF filename(d) = filename(c) THEN text ELSE files[filename(d)]
      BY <2>5, <3>1 DEF TypeInv, SharedTypes
    <3>5. \A d \in DOMAIN command \ {c} : Installing(d) /\ ~Shared(filename(c)) => filename(d) # filename(c)
      BY <2>5, <3>2 DEF Installing
    <3>6. \A d \in DOMAIN command \ {c} : Installing(d) => filename(d) # filename(c)
      BY <3>5 DEF Installing
    <3> QED
      BY <2>1, <2>3, <2>5, <2>10, <3>1, <3>2, <3>3, <3>4, <3>6, SMTT(60) DEF FilesOK, Contents
  <2> QED
    BY <2>7, <2>8, <2>9, <2>10, <1>FilesFrame
<1>1. Init => FilesOK
  <2> SUFFICES ASSUME Init, NEW c \in DOMAIN command PROVE ~Installing(c)
    BY DEF FilesOK
  <2>1. c \in Tasks
    BY InitTypes, TaskFacts
  <2> QED
    BY <2>1 DEF Init, Installing
<1>2. TypeInv /\ FilesOK /\ [Next]_vars => FilesOK'
  BY <1>FilesStep
<1> QED
  BY <1>1, <1>2, TypesHold, PTL DEF Spec

\* A file that install reports is that install's alone: create_new gives each file to one of
\* them, however many run at once, so it holds the verified package as soon as tokio has written
\* the chunk that nobody flushes, and is cut short only where that last write failed.
THEOREM InstalledAreIntact == Spec => []InstalledIsIntact
<1>1. TypeInv /\ FilesOK => InstalledIsIntact
  BY DEF FilesOK, Installing, InstalledIsIntact, Shared
<1> QED
  BY <1>1, FilesHold, TypesHold, PTL
-----------------------------------------------------------------------------
(* What nodes hold *)

\* A STORE of v is being made, or is under way.
InHand(v) ==
    \/ \E t \in Nodes \union DOMAIN command : pc[t] = "store" /\ cur[t] = v
    \/ \E m \in late : m.value = v

LEMMA NodesFrame ==
    ASSUME TypeInv, [Next]_vars
    PROVE  \/ UNCHANGED <<values, pointer, late>>
           \/ \E t \in Nodes \union DOMAIN command, n \in Nodes : StoreReply(t, n) \/ StoreMisses(t, n)
           \/ (\E n \in Nodes : Restart(n)) \/ (\E m \in late : Deliver(m))
<1>1. UNCHANGED vars => UNCHANGED <<values, pointer, late>>
  BY DEF vars, nodes
<1>2. ASSUME NEW c \in DOMAIN command, CommandAction(c) PROVE UNCHANGED <<values, pointer, late>>
  BY <1>2 DEF CommandAction, Show, Exit, Refuse, Abandon, Begin, NoKey, AskLatest, AskMisses,
     Fetch, FetchFails, Create, Write, WriteFails, nodes
<1>3. ASSUME NEW t, Walk(t) \/ WalkFails(t) \/ Walked(t) \/ Turn(t) PROVE UNCHANGED <<values, pointer, late>>
  BY <1>3 DEF Walk, WalkFails, Walked, Turn, nodes
<1>4. ASSUME NEW n, Republish(n) \/ Finish(n) PROVE UNCHANGED <<values, pointer, late>>
  BY <1>4 DEF Republish, Finish, nodes
<1> QED
  BY <1>1, <1>2, <1>3, <1>4, FlushFrame, NextCases DEF TaskAction

\* Nodes change by STOREs and restarts.
LEMMA StoreCases ==
    ASSUME TypeInv, [Next]_vars
    PROVE  \/ UNCHANGED <<values, pointer>> \/ (\E n \in Nodes : Restart(n))
           \/ \E n \in Nodes, v \in Values : InHand(v) /\ STORE(n, v)
<1>1. ASSUME NEW t \in Nodes \union DOMAIN command, NEW n \in Nodes, StoreReply(t, n)
      PROVE  \E v \in Values : InHand(v) /\ STORE(n, v)
  <2>1. pc[t] = "store" /\ STORE(n, cur[t])
    BY <1>1 DEF StoreReply, Called
  <2>2. t \in Tasks
    BY TaskFacts
  <2>3. cur[t] \in Values
    BY <2>1, <2>2 DEF TypeInv, TaskOK
  <2> QED
    BY <2>1, <2>3 DEF InHand
<1>2. ASSUME NEW m \in late, Deliver(m) PROVE \E n \in Nodes, v \in Values : InHand(v) /\ STORE(n, v)
  <2>1. STORE(m.node, m.value)
    BY <1>2 DEF Deliver
  <2>2. m.node \in Nodes /\ m.value \in Values
    BY DEF TypeInv, SharedTypes
  <2> QED
    BY <2>1, <2>2 DEF InHand
<1>3. ASSUME NEW t, NEW n, StoreMisses(t, n) PROVE UNCHANGED <<values, pointer>>
  BY <1>3 DEF StoreMisses
<1> QED
  BY <1>1, <1>2, <1>3, NodesFrame

\* The pointer of a node changes to one it accepts.
LEMMA PointerCases ==
    ASSUME TypeInv, [Next]_vars, NEW n \in Nodes
    PROVE  \/ pointer'[n] = pointer[n] \/ Restart(n)
           \/ \E v \in Values : InHand(v) /\ v.type = "latest" /\ accepts(n, v) /\ pointer'[n] = v.of
<1>1. pointer \in [Nodes -> Histories]
  BY DEF TypeInv, SharedTypes
<1>2. ASSUME NEW m \in Nodes, NEW v \in Values, InHand(v), STORE(m, v)
      PROVE  \/ pointer'[n] = pointer[n]
             \/ InHand(v) /\ v.type = "latest" /\ accepts(n, v) /\ pointer'[n] = v.of
  <2>1. pointer' = [pointer EXCEPT ![m] = IF v.type = "latest" /\ accepts(m, v) THEN v.of ELSE pointer[m]]
    BY <1>2 DEF STORE
  <2> QED
    BY <1>1, <1>2, <2>1
<1>3. ASSUME NEW m \in Nodes, Restart(m), m # n PROVE pointer'[n] = pointer[n]
  BY <1>1, <1>3 DEF Restart
<1> QED
  BY <1>2, <1>3, StoreCases

-----------------------------------------------------------------------------
(* Publications are found *)

LEMMA GenuineIsValid ==
    ASSUME NEW h \in Histories, Genuine(h)
    PROVE  latest_is_valid(h)
<1>1. h # <<>> /\ Len(h) \in 1..Len(h) /\ Last(h) = h[Len(h)]
  BY HistoryFacts, SMTT(60) DEF Genuine
<1> QED
  BY <1>1 DEF Genuine, latest_is_valid

\* A publisher that has been acknowledged keeps its publication; a node that acknowledges has it.
LEMMA KeptStep ==
    ASSUME TypeInv, [Next]_vars, NEW p \in Publishers, PublisherOK(p), NEW n \in kept'[p]
    PROVE  /\ best'[p] = best[p] /\ best[p] # <<>> /\ n \in Nodes
           /\ (n \in kept[p] /\ ~Restart(n)) \/ (pointer'[n] = best[p] /\ latest_is_valid(best[p]))
<1>1. /\ p \in DOMAIN command /\ p \in Tasks /\ p \in Clients /\ kept[p] \subseteq Nodes /\ kept'[p] \subseteq Nodes
      /\ pc \in [Tasks -> Labels] /\ kind(p) = "publish" /\ publisher(p)
  <2>1. TypeInv'
    BY TypeStep
  <2> QED
    BY <2>1, PublisherFacts DEF TypeInv, SharedTypes, LocalTypes
<1>2. kept[p] # {} => best[p] # <<>> /\ (pc[p] \in {"ok", "failed"} \/ (pc[p] = "store" /\ cur[p].type = "latest"))
  BY DEF PublisherOK, Genuine
<1>3. ~Restart(n)
  BY <1>1 DEF Restart
<1>4. CASE Untouched(p)
  BY <1>1, <1>2, <1>3, <1>4 DEF Untouched
<1>5. ASSUME NEW m \in Nodes, StoreReply(p, m) \/ StoreMisses(p, m)
      PROVE  /\ best'[p] = best[p] /\ best[p] # <<>>
             /\ n \in kept[p] \/ (pointer'[n] = best[p] /\ latest_is_valid(best[p]))
  <2>1. CASE StoreReply(p, m)
    <3>1. Called(p, m, accepts(m, cur[p])) /\ STORE(m, cur[p])
      BY <2>1 DEF StoreReply
    <3>2. pc[p] = "store" /\ best' = best
      BY <3>1 DEF Called
    <3>3. cur[p] \in Parts(best[p]) /\ best[p] # <<>>
      BY <3>2 DEF PublisherOK
    <3>4. kept'[p] = IF accepts(m, cur[p]) /\ cur[p].type = "latest" THEN kept[p] \union {m} ELSE kept[p]
      BY <1>1, <3>1 DEF Called, TypeInv, SharedTypes
    <3>5. accepts(m, cur[p]) /\ cur[p].type = "latest" => pointer'[m] = cur[p].of
      BY <3>1 DEF STORE, TypeInv, SharedTypes
    <3>6. cur[p].type = "latest" => cur[p].of = best[p]
      BY <3>3, PartsFacts
    <3>7. accepts(m, cur[p]) /\ cur[p].type = "latest" => latest_is_valid(best[p])
      BY <3>6, PublisherFacts, GenuineIsValid DEF accepts
    <3> QED
      BY <3>2, <3>3, <3>4, <3>5, <3>6, <3>7
  <2>2. CASE StoreMisses(p, m)
    <3>1. pc[p] = "store" /\ best' = best /\ kept' = kept
      BY <2>2 DEF StoreMisses, Called
    <3> QED
      BY <3>1 DEF PublisherOK
  <2> QED
    BY <1>5, <2>1, <2>2
<1>6. CASE kept'[p] = kept[p] /\ best'[p] = best[p]
  BY <1>1, <1>2, <1>3, <1>6
<1>7. CASE Walk(p) \/ WalkFails(p) \/ Walked(p) \/ Turn(p)
  <2>1. pc[p] \in {"walk", "turn"} /\ kept' = kept
    BY <1>7 DEF Walk, WalkFails, Walked, Turn, history
  <2> QED
    BY <1>2, <2>1
<1>8. CASE CommandAction(p)
  <2>1. kept'[p] = kept[p] /\ kept[p] # {}
    BY <1>1, <1>8, HistoryFrame
  <2>2. ~(Refuse(p) \/ Begin(p) \/ NoKey(p) \/ (\E m \in Nodes : AskLatest(p, m)) \/ (\E M \in SUBSET Nodes : AskMisses(p, M)))
    BY <1>2, <2>1 DEF Refuse, Begin, NoKey, AskLatest, AskMisses
  <2>3. Abandon(p) => best' = best
    BY DEF Abandon
  <2>4. Abandon(p) \/ TaskAction(p)
    BY <1>8, <2>2, PublisherActions
  <2> QED
    BY <1>1, <1>3, <1>5, <1>6, <1>7, <2>1, <2>3, <2>4 DEF TaskAction
<1> QED
  BY <1>1, <1>3, <1>4, <1>5, <1>7, <1>8, ClientCases DEF TaskAction

\* The steps of a command that change what it knows of the package.
Knows == {"walk", "turn", "store", "fetch", "create", "write", "ok"}

KnowsTheSame(c) ==
    /\ best'[c] = best[c] /\ missed'[c] = missed[c] /\ before'[c] = before[c]
    /\ pc'[c] = "latest" => pc[c] = "latest" /\ todo'[c] = todo[c]
    /\ pc'[c] \in Knows /\ kind(c) \in {"publish", "install", "show"} => pc[c] \in Knows

\* With the nodes R still to ask and M not heard, h is the newest pointer.
Learns(c, R, h, M) ==
    \/ \E n \in Nodes :
        /\ R = todo[c] \ {n} /\ M = missed[c]
        /\ h = newer(c, n)
    \/ \E L \in SUBSET Nodes : R = todo[c] \ L /\ M = missed[c] \union L /\ h = best[c]
    \/ get_dns_vk = None /\ R = {} /\ M = missed[c] /\ h = <<>>

Answered(c) ==
    \E R \in SUBSET Nodes, h \in Histories :
        Asked(c, R, h) /\ before'[c] = before[c] /\ Learns(c, R, h, missed'[c])

Builds(c) ==
    /\ pc[c] = "walk" /\ before'[c] = before[c] /\ missed'[c] = missed[c]
    /\ \E g \in Histories : Prepared(c, best[c], g)

LEMMA AskAnswers ==
    ASSUME TypeInv, NEW c \in DOMAIN command,
           NoKey(c) \/ (\E n \in Nodes : AskLatest(c, n)) \/ (\E M \in SUBSET Nodes : AskMisses(c, M))
    PROVE  Answered(c)
<1>1. /\ c \in Tasks /\ c \in Clients /\ best \in [Tasks -> Histories]
      /\ todo[c] \in SUBSET Nodes /\ missed \in [Clients -> SUBSET Nodes] /\ <<>> \in Histories
  BY TaskFacts DEF TypeInv, SharedTypes, LocalTypes
<1>2. CASE NoKey(c)
  <2>1. Asked(c, {}, <<>>) /\ get_dns_vk = None /\ UNCHANGED <<missed, before>>
    BY <1>2, AskCases DEF Asked
  <2>2. {} \in SUBSET Nodes
    OBVIOUS
  <2> QED
    BY <1>1, <2>1, <2>2 DEF Answered, Learns
<1>3. ASSUME NEW n \in Nodes, AskLatest(c, n) PROVE Answered(c)
  <2>1. UNCHANGED <<missed, before>>
    BY <1>3 DEF AskLatest, history
  <2>2. PICK h \in Histories :
          Asked(c, todo[c] \ {n}, h) /\ h = newer(c, n)
    BY <1>3, AskCases
  <2>3. todo[c] \ {n} \in SUBSET Nodes
    BY <1>1
  <2> QED
    BY <2>1, <2>2, <2>3 DEF Answered, Learns
<1>4. ASSUME NEW M \in SUBSET Nodes, AskMisses(c, M) PROVE Answered(c)
  <2>1. Asked(c, todo[c] \ M, best[c]) /\ missed' = [missed EXCEPT ![c] = missed[c] \union M] /\ UNCHANGED before
    BY <1>4, AskCases DEF Asked
  <2>2. missed'[c] = missed[c] \union M /\ todo[c] \ M \in SUBSET Nodes /\ best[c] \in Histories
    BY <1>1, <2>1
  <2> QED
    BY <2>1, <2>2 DEF Answered, Learns
<1> QED
  BY <1>2, <1>3, <1>4

LEMMA FoundHolds == Spec => []FoundInv
\* A node that does not restart never goes back to an older pointer.
<1>PointerGrows.
    ASSUME TypeInv, [Next]_vars, NEW n \in Nodes, ~Restart(n), latest_is_valid(pointer[n]),
           NEW h, NotOlder(pointer[n], h), version(h) \in Nat
    PROVE  latest_is_valid(pointer'[n]) /\ NotOlder(pointer'[n], h)
  <2> USE <1>PointerGrows
  <2>1. CASE pointer'[n] = pointer[n]
    BY <2>1
  <2>2. ASSUME NEW v \in Values, v.type = "latest", accepts(n, v), pointer'[n] = v.of
        PROVE  latest_is_valid(pointer'[n]) /\ NotOlder(pointer'[n], h)
    <3>1. v.of \in Histories /\ v.of # <<>> /\ pointer[n] \in Histories /\ pointer[n] # <<>>
      BY <2>2 DEF Values, Stored, TypeInv, SharedTypes, NotOlder
    <3>2. version(v.of) \in Nat /\ version(pointer[n]) \in Nat
      BY <3>1, HistoryFacts
    <3>3. v.of = pointer[n] \/ version(v.of) > version(pointer[n])
      BY <2>2, <3>1 DEF accepts, continues_previous
    <3>4. latest_is_valid(v.of)
      BY <2>2, <3>1, GenuineIsValid DEF accepts
    <3>5. NotOlder(v.of, h)
      BY <3>1, <3>2, <3>3, SMTT(60) DEF NotOlder
    <3> QED
      BY <2>2, <3>4, <3>5
  <2> QED
    BY <2>1, <2>2, PointerCases
\* A publication that was reported stays as it was.
<1>OkStays.
    ASSUME TypeInv, [Next]_vars, NEW p \in Publishers, pc[p] = "ok"
    PROVE  pc'[p] = "ok" /\ best'[p] = best[p] /\ kept'[p] \subseteq kept[p]
  <2> USE <1>OkStays
  <2>1. p \in DOMAIN command
    BY PublisherFacts
  <2>2. ~CommandAction(p)
    BY DEF CommandAction, Show, Exit, Refuse, Abandon, running, Begin, NoKey, AskLatest, AskMisses,
       Fetch, FetchFails, Create, Write, WriteFails
  <2>3. ~TaskAction(p)
    BY DEF TaskAction, Walk, WalkFails, Walked, Turn, StoreReply, StoreMisses, Called
  <2> QED
    BY <2>1, <2>2, <2>3, ClientCases DEF Untouched
<1>KnowledgeCases.
    ASSUME TypeInv, [Next]_vars, NEW c \in DOMAIN command
    PROVE  KnowsTheSame(c) \/ Begin(c) \/ Answered(c) \/ Builds(c)
  <2> USE <1>KnowledgeCases
  <2>1. /\ c \in Tasks /\ c \in Clients /\ c \notin Nodes /\ pc \in [Tasks -> Labels] /\ best \in [Tasks -> Histories]
        /\ todo[c] \in SUBSET Nodes /\ missed \in [Clients -> SUBSET Nodes] /\ <<>> \in Histories
    BY TaskFacts DEF TypeInv, SharedTypes, LocalTypes
  <2>2. CASE Untouched(c)
    BY <2>2 DEF Untouched, KnowsTheSame
  <2>3. ASSUME NEW label, label # "latest", pc' = [pc EXCEPT ![c] = label], UNCHANGED <<best, before, missed>>,
               label \in Knows /\ kind(c) \in {"publish", "install", "show"} => pc[c] \in Knows
        PROVE  KnowsTheSame(c)
    BY <2>1, <2>3 DEF KnowsTheSame
  <2>4. CASE Show(c) \/ Exit(c) \/ Refuse(c) \/ Abandon(c)
    BY <2>3, <2>4 DEF Show, Exit, Refuse, Abandon, goto, history, Knows
  <2>5. CASE Fetch(c) \/ FetchFails(c) \/ Create(c) \/ Write(c) \/ WriteFails(c)
    <3>1. pc[c] \in Knows /\ UNCHANGED <<best, before, missed>>
      BY <2>5 DEF Fetch, FetchFails, Create, Write, WriteFails, history, Knows
    <3>2. \E label \in {"create", "ok", "write", "failed"} : pc' = [pc EXCEPT ![c] = label]
      BY <2>5 DEF Fetch, FetchFails, Create, Write, WriteFails, goto
    <3> QED
      BY <2>3, <3>1, <3>2
  <2>6. CASE WalkFails(c) \/ Turn(c)
    <3>1. pc[c] \in Knows /\ UNCHANGED <<best, before, missed>>
      BY <2>6 DEF WalkFails, Turn, history, Knows
    <3>2. \E label \in {"failed", "walk", "store"} : pc' = [pc EXCEPT ![c] = label]
      BY <2>1, <2>6 DEF WalkFails, Turn, goto
    <3> QED
      BY <2>3, <3>1, <3>2
  <2>7. ASSUME NEW n, NEW ack, Called(c, n, ack) PROVE KnowsTheSame(c)
    <3>1. pc[c] \in Knows /\ UNCHANGED <<best, before, missed>>
      BY <2>7 DEF Called, Knows
    <3>2. \E label \in {"failed", "turn", "ok", "store"} : pc' = [pc EXCEPT ![c] = label]
      BY <2>7 DEF Called, goto, after_store
    <3> QED
      BY <2>3, <3>1, <3>2
  <2>8. CASE Walk(c)
    BY <2>8 DEF Walk, history, KnowsTheSame
  <2>9. CASE Walked(c)
    <3>1. pc[c] = "walk" /\ WalkedTo(c) /\ UNCHANGED <<before, missed>>
      BY <2>9, WalkedCases DEF history
    <3>2. CASE \E g \in Histories : Prepared(c, best[c], g)
      BY <3>1, <3>2 DEF Builds
    <3>3. CASE UNCHANGED best /\ \E label \in {"failed", "ok", "fetch"} : pc' = [pc EXCEPT ![c] = label]
      BY <2>3, <3>1, <3>3 DEF Knows
    <3> QED
      BY <2>1, <3>1, <3>2, <3>3 DEF WalkedTo, Chosen
  <2>10. CommandAction(c) => KnowsTheSame(c) \/ Begin(c) \/ Answered(c) \/ Builds(c)
    BY <2>4, <2>5, AskAnswers DEF CommandAction
  <2>11. TaskAction(c) => KnowsTheSame(c) \/ Begin(c) \/ Answered(c) \/ Builds(c)
    BY <2>6, <2>7, <2>8, <2>9 DEF TaskAction, StoreReply, StoreMisses
  <2> QED
    BY <2>2, <2>10, <2>11, ClientCases
\* Whoever has heard a node that keeps a publication has it or a newer one.
<1>AnsweredKnows.
    ASSUME TypeInv, FoundInv, PublishersOK, NEW c \in DOMAIN command, pc[c] = "latest",
           NEW p \in before[c], NEW n \in kept[p], NEW R \in SUBSET Nodes, NEW h \in Histories,
           NEW M, n \notin R \union M, Learns(c, R, h, M)
    PROVE  NotOlder(h, best[p])
  <2> USE <1>AnsweredKnows
  <2>1. /\ p \in Publishers /\ c \in Tasks /\ c \in Clients /\ p \in Clients
        /\ latest_is_valid(pointer[n]) /\ NotOlder(pointer[n], best[p])
        /\ (n \notin todo[c] \union missed[c] => NotOlder(best[c], best[p]))
    <3>1. c \in Clients /\ c \in Tasks /\ before[c] \subseteq DOMAIN command
      BY TaskFacts DEF TypeInv, SharedTypes
    <3>2. p \in Publishers /\ p \in Clients
      BY <3>1, TaskFacts DEF FoundInv, Publishers
    <3> QED
      BY <3>1, <3>2 DEF FoundInv
  <2>2. /\ n \in Nodes /\ best[p] \in Histories /\ best[p] # <<>> /\ best[c] \in Histories /\ pointer \in [Nodes -> Histories]
        /\ Genuine(best[p])
    <3>1. n \in Nodes /\ Genuine(best[p])
      BY <2>1 DEF PublishersOK, PublisherOK, TypeInv, SharedTypes
    <3> QED
      BY <2>1, <3>1, PublisherFacts DEF TypeInv, SharedTypes, LocalTypes, Genuine
  <2>3. /\ version(best[p]) \in Nat /\ (best[c] # <<>> => version(best[c]) \in Nat)
        /\ \A m \in Nodes : pointer[m] # <<>> => version(pointer[m]) \in Nat
    BY <2>2, HistoryFacts
  <2>4. ASSUME NEW m \in Nodes, R = todo[c] \ {m}, M = missed[c], h = newer(c, m)
        PROVE  NotOlder(h, best[p])
    <3>1. CASE n = m
      BY <2>1, <2>2, <2>3, <2>4, <3>1, SMTT(60) DEF NotOlder, newer
    <3>2. CASE n # m
      <4>1. NotOlder(best[c], best[p]) /\ (latest_is_valid(pointer[m]) => pointer[m] # <<>>)
        BY <2>1, <2>4, <3>2 DEF latest_is_valid
      <4> QED
        BY <2>2, <2>3, <2>4, <4>1, SMTT(60) DEF NotOlder, newer
    <3> QED
      BY <3>1, <3>2
  <2>5. ASSUME NEW L \in SUBSET Nodes, R = todo[c] \ L, M = missed[c] \union L, h = best[c]
        PROVE  NotOlder(h, best[p])
    BY <2>1, <2>5
  <2>6. get_dns_vk # None
    <3>1. 1 \in 1..Len(best[p])
      BY <2>2, HistoryFacts, SMTT(60)
    <3>2. best[p][1].signer \in Signers
      BY <2>2, <3>1, HistoryFacts
    <3> QED
      BY <2>2, <3>1, <3>2, NoneAssumption DEF Genuine
  <2> QED
    BY <2>4, <2>5, <2>6 DEF Learns
<1>FoundStep.
    ASSUME TypeInv, FoundInv, PublishersOK, [Next]_vars
    PROVE  FoundInv'
  <2> USE <1>FoundStep
  <2>1. TypeInv' /\ command' = command
    BY TypeStep, Constant
  <2>2. /\ Publishers' = Publishers /\ (\A c : publisher(c)' <=> publisher(c)) /\ \A c : kind(c)' = kind(c)
        /\ get_dns_vk' = get_dns_vk
    BY <2>1, Constant, DnsConstant DEF Publishers, publisher, kind
  <2>3. ASSUME NEW p \in Publishers, NEW n \in kept'[p]
        PROVE  latest_is_valid(pointer'[n]) /\ NotOlder(pointer'[n], best'[p])
    <3>1. /\ best'[p] = best[p] /\ best[p] # <<>> /\ n \in Nodes
          /\ (n \in kept[p] /\ ~Restart(n)) \/ (pointer'[n] = best[p] /\ latest_is_valid(best[p]))
      BY KeptStep DEF PublishersOK
    <3>2. version(best[p]) \in Nat
      BY <3>1, PublisherFacts, HistoryFacts
    <3>3. n \in kept[p] => latest_is_valid(pointer[n]) /\ NotOlder(pointer[n], best[p])
      BY DEF FoundInv
    <3>4. CASE n \in kept[p] /\ ~Restart(n)
      BY <3>1, <3>2, <3>3, <3>4, <1>PointerGrows
    <3>5. CASE pointer'[n] = best[p] /\ latest_is_valid(best[p])
      <4>1. NotOlder(best[p], best[p])
        BY <3>1, <3>2, SMTT(60) DEF NotOlder
      <4> QED
        BY <3>1, <3>5, <4>1
    <3> QED
      BY <3>1, <3>4, <3>5
  <2>4. ASSUME NEW c \in DOMAIN command, NEW p \in before'[c]
        PROVE  /\ p \in Publishers /\ publisher(p) /\ p \in Clients
               /\ pc'[p] = "ok" /\ best'[p] = best[p] /\ kept'[p] \subseteq kept[p]
               /\ p \in before[c] \/ Begin(c)
    <3>1. c \in Clients /\ c \in Tasks
      BY TaskFacts
    <3>2. p \in before[c] \/ (Begin(c) /\ p \in DOMAIN command /\ publisher(p) /\ pc[p] = "ok")
      BY <3>1, <1>KnowledgeCases DEF KnowsTheSame, Answered, Builds, Begin, TypeInv, SharedTypes
    <3>3. p \in DOMAIN command /\ publisher(p) /\ pc[p] = "ok"
      BY <3>1, <3>2 DEF FoundInv, TypeInv, SharedTypes
    <3>4. p \in Publishers
      BY <3>3 DEF Publishers
    <3> QED
      BY <3>2, <3>3, <3>4, <1>OkStays, PublisherFacts DEF Begin
  <2>5. ASSUME NEW c \in DOMAIN command, NEW p \in before'[c]
        PROVE  /\ pc'[c] = "latest" => \A n \in kept'[p] \ (todo'[c] \union missed'[c]) : NotOlder(best'[c], best'[p])
               /\ /\ pc'[c] \in Knows
                  /\ kind(c) \in {"publish", "install", "show"} /\ ~(publisher(c) /\ command[c].force)
                  /\ ~(kept'[p] \subseteq missed'[c])
                  => version(best'[c]) >= version(best'[p])
    <3> DEFINE Heeds ==
                 /\ pc'[c] = "latest" => \A n \in kept'[p] \ (todo'[c] \union missed'[c]) : NotOlder(best'[c], best'[p])
                 /\ /\ pc'[c] \in Knows
                    /\ kind(c) \in {"publish", "install", "show"} /\ ~(publisher(c) /\ command[c].force)
                    /\ ~(kept'[p] \subseteq missed'[c])
                    => version(best'[c]) >= version(best'[p])
    <3> SUFFICES Heeds
      OBVIOUS
    <3>1. /\ c \in Tasks /\ c \in Clients /\ pc \in [Tasks -> Labels] /\ best \in [Tasks -> Histories]
          /\ todo \in [Tasks -> SUBSET Nodes] /\ kept'[p] \subseteq Nodes
      BY <2>1, <2>4, TaskFacts DEF TypeInv, SharedTypes, LocalTypes
    <3>2. CASE KnowsTheSame(c) /\ ~Begin(c)
      <4>1. /\ p \in before[c] /\ best'[p] = best[p] /\ best'[c] = best[c]
            /\ missed'[c] = missed[c] /\ kept'[p] \subseteq kept[p]
        BY <2>4, <3>2 DEF KnowsTheSame
      <4>2. pc'[c] = "latest" => \A n \in kept'[p] \ (todo'[c] \union missed'[c]) : NotOlder(best'[c], best'[p])
        BY <3>2, <4>1 DEF KnowsTheSame, FoundInv
      <4>3. pc'[c] \in Knows /\ kind(c) \in {"publish", "install", "show"} => pc[c] \in Knows
        BY <3>2 DEF KnowsTheSame
      <4> QED
        BY <4>1, <4>2, <4>3 DEF FoundInv, PublishedIsFound, Knows
    <3>3. CASE Begin(c)
      <4>1. todo'[c] = Nodes
        BY <3>1, <3>3 DEF Begin
      <4>2. kind(c) \in {"publish", "install", "show"} => pc'[c] = "latest"
        BY <3>1, <3>3 DEF Begin, goto
      <4> QED
        BY <3>1, <4>1, <4>2 DEF Knows
    <3>4. CASE Answered(c) /\ ~Begin(c)
      <4>1. PICK R \in SUBSET Nodes, h \in Histories : Asked(c, R, h) /\ Learns(c, R, h, missed'[c])
        BY <3>4 DEF Answered
      <4>2. p \in before[c] /\ pc[c] = "latest" /\ Heard(c, R, h) /\ best'[p] = best[p] /\ kept'[p] = kept[p]
        BY <2>4, <3>4, <4>1 DEF Asked
      <4>3. \A n \in kept'[p] \ (R \union missed'[c]) : NotOlder(h, best'[p])
        BY <4>1, <4>2, <1>AnsweredKnows
      <4>4. todo'[c] = R
        BY <3>1, <4>2, HeardCases
      <4>5. CASE StillAsking(c, R, h)
        <5>1. pc'[c] = "latest" /\ best'[c] = h
          BY <3>1, <4>5 DEF StillAsking
        <5> QED
          BY <4>3, <4>4, <5>1 DEF Knows
      <4>6. CASE FoundLatest(c, R, h)
        <5>1. pc'[c] = "walk" /\ best'[c] = h /\ R = {}
          BY <3>1, <4>6 DEF FoundLatest
        <5> QED
          BY <4>3, <5>1 DEF NotOlder
      <4>7. CASE FoundNothing(c, R, h)
        <5>1. pc'[c] = "failed"
          BY <3>1, <4>7 DEF FoundNothing
        <5> QED
          BY <5>1 DEF Knows
      <4>8. CASE FirstVersion(c, R, h)
        <5>1. R = {} /\ h = <<>> /\ pc'[c] = "turn"
          BY <3>1, <4>8 DEF FirstVersion, Prepared
        <5> QED
          BY <4>3, <5>1 DEF NotOlder
      <4> QED
        BY <4>2, <4>5, <4>6, <4>7, <4>8, HeardCases
    <3>5. CASE Builds(c) /\ ~Begin(c)
      <4>1. PICK g \in Histories : Prepared(c, best[c], g)
        BY <3>5 DEF Builds
      <4>2. /\ p \in before[c] /\ pc[c] = "walk" /\ missed'[c] = missed[c] /\ best'[p] = best[p]
            /\ kept'[p] \subseteq kept[p] /\ publisher(c) /\ kind(c) = "publish" /\ best'[c] = g /\ pc'[c] = "turn"
        BY <2>4, <3>1, <3>5, <4>1 DEF Builds, Prepared, publisher
      <4>3. best[c] \in Histories /\ best[c] # <<>> /\ version(best[c]) \in Nat
        BY <3>1, <4>2, TaskFacts, HistoryFacts DEF TypeInv, TaskOK
      <4>4. ~command[c].force => version(g) > version(best[c])
        <5>1. g \in prepare_publication(c, best[c])
          BY <4>1 DEF Prepared
        <5>2. version(g) = command[c].version
          BY <4>2, <4>3, <5>1, PreparedType
        <5>3. command[c].force \/ command[c].version > version(best[c])
          BY <4>2, <4>3, <5>1 DEF prepare_publication
        <5> QED
          BY <5>2, <5>3
      <4>5. version(g) \in Nat
        BY <4>1, HistoryFacts DEF Prepared
      <4>6. ASSUME ~command[c].force, ~(kept'[p] \subseteq missed'[c])
            PROVE  version(best[c]) >= version(best[p]) /\ version(best[p]) \in Nat
        <5>1. ~(kept[p] \subseteq missed[c]) /\ kept[p] # {}
          BY <4>2, <4>6
        <5>2. version(best[c]) >= version(best[p])
          BY <4>2, <4>6, <5>1 DEF FoundInv, PublishedIsFound
        <5>3. best[p] # <<>> /\ best[p] \in Histories
          BY <2>4, <5>1, PublisherFacts DEF PublishersOK, PublisherOK, Genuine
        <5> QED
          BY <5>2, <5>3, HistoryFacts
      <4> QED
        BY <4>2, <4>3, <4>4, <4>5, <4>6, SMTT(60)
    <3> QED
      BY <3>2, <3>3, <3>4, <3>5, <1>KnowledgeCases
  <2>6. \A p \in Publishers' : \A n \in kept'[p] : latest_is_valid(pointer[n])' /\ NotOlder(pointer[n], best[p])'
    BY <2>2, <2>3 DEF NotOlder, latest_is_valid
  <2> QED
    BY <2>1, <2>2, <2>4, <2>5, <2>6 DEF FoundInv, PublishedIsFound, Knows
<1>1. Init => FoundInv
  <2> SUFFICES ASSUME Init PROVE FoundInv
    OBVIOUS
  <2>1. \A c \in DOMAIN command : c \in Clients
    BY InitTypes, TaskFacts
  <2>2. \A c \in Clients : before[c] = {} /\ kept[c] = {}
    BY DEF Init
  <2> QED
    BY <2>1, <2>2 DEF FoundInv, PublishedIsFound, Publishers
<1>2. TypeInv /\ FoundInv /\ PublishersOK /\ [Next]_vars => FoundInv'
  BY <1>FoundStep
<1> QED
  BY <1>1, <1>2, TypesHold, PublishersHold, PTL DEF Spec

\* After publish_package has reported a version, every command that hears one of the nodes that
\* acknowledged it works with that version or a newer one: for any number of nodes, publishers,
\* lost and late calls, restarts and republications.
THEOREM PublishedAreFound == Spec => []PublishedIsFound
<1>1. FoundInv => PublishedIsFound
  BY DEF FoundInv
<1> QED
  BY <1>1, FoundHolds, PTL
-----------------------------------------------------------------------------
(* Nothing a pointer names is missing *)

\* Values are only lost by restarts.
LEMMA HeldStays ==
    ASSUME TypeInv, [Next]_vars, ~restarted'
    PROVE  ~restarted /\ \A n \in Nodes : ~Restart(n) /\ values[n] \subseteq values'[n]
<1>1. \A n \in Nodes : ~Restart(n)
  BY DEF Restart
<1>2. ~restarted
  <2>1. restarted => restarted'
    <3>1. UNCHANGED vars => restarted' = restarted
      BY DEF vars, history
    <3> QED
      BY <1>1, <3>1, NextCases, HistoryFrame, FlushFrame DEF HistoryKept
  <2> QED
    BY <2>1
<1>3. \A n \in Nodes : values[n] \subseteq values'[n]
  <2>1. values \in [Nodes -> SUBSET Stored]
    BY DEF TypeInv, SharedTypes
  <2>2. ASSUME NEW n \in Nodes, NEW v, STORE(n, v) PROVE \A m \in Nodes : values[m] \subseteq values'[m]
    BY <2>1, <2>2 DEF STORE
  <2> QED
    BY <1>1, <2>2, StoreCases
<1> QED
  BY <1>1, <1>2, <1>3

\* A node comes to carry no pointer but its own.
LEMMA CarriedStep ==
    ASSUME TypeInv, [Next]_vars, NEW n \in Nodes, NEW h \in Carried(n)'
    PROVE  h \in Carried(n) \/ (h = pointer[n] /\ h # <<>>)
<1>1. /\ n \in Tasks /\ n \notin DOMAIN command /\ cur[n] \in Values \union {None} /\ job[n] \subseteq Values
      /\ DOMAIN cur = Tasks /\ DOMAIN job = Tasks
  BY TaskFacts DEF TypeInv, TaskOK, LocalTypes
<1>2. PICK w \in job'[n] \union ({cur'[n]} \ {None}) : w.type = "latest" /\ w.of = h
  BY DEF Carried
<1>3. w \in job[n] \union ({cur[n]} \ {None}) => h \in Carried(n)
  BY <1>2 DEF Carried
<1>4. CASE job'[n] = job[n] /\ cur'[n] = cur[n]
  BY <1>2, <1>3, <1>4
<1>5. ASSUME NEW t \in Tasks \ {n}, OthersKeep(t) PROVE job'[n] = job[n] /\ cur'[n] = cur[n]
  BY <1>1, <1>5 DEF OthersKeep
<1>6. CASE UNCHANGED <<job, cur>>
  BY <1>4, <1>6
<1>7. ASSUME NEW c \in DOMAIN command, CommandAction(c) PROVE job'[n] = job[n] /\ cur'[n] = cur[n]
  <2>1. OthersKeep(c) /\ c \in Tasks \ {n}
    BY <1>1, <1>7, ActionTypes, TaskFacts DEF TypesKept
  <2> QED
    BY <1>5, <2>1
<1>8. ASSUME NEW t \in Nodes \union DOMAIN command, t # n, TaskAction(t) PROVE job'[n] = job[n] /\ cur'[n] = cur[n]
  <2>1. OthersKeep(t) /\ t \in Tasks \ {n}
    BY <1>1, <1>8, ActionTypes, TaskFacts DEF TypesKept
  <2> QED
    BY <1>5, <2>1
<1>9. ASSUME NEW m \in Nodes \ {n}, Republish(m) \/ Finish(m) \/ Restart(m) PROVE job'[n] = job[n] /\ cur'[n] = cur[n]
  <2>1. OthersKeep(m) /\ m \in Tasks \ {n}
    BY <1>1, <1>9, ActionTypes, TaskFacts DEF TypesKept
  <2> QED
    BY <1>5, <2>1
<1>10. CASE Walk(n) \/ WalkFails(n) \/ \E m \in Nodes : StoreReply(n, m) \/ StoreMisses(n, m)
  BY <1>6, <1>10 DEF Walk, WalkFails, StoreReply, StoreMisses, Called
<1>11. CASE Walked(n)
  BY <1>1, <1>6, <1>11 DEF Walked
<1>12. CASE Turn(n)
  <2>1. PICK v \in job[n] : job' = [job EXCEPT ![n] = job[n] \ {v}] /\ cur' = [cur EXCEPT ![n] = v]
    BY <1>12 DEF Turn
  <2>2. job'[n] \subseteq job[n] /\ cur'[n] \in job[n]
    BY <1>1, <2>1
  <2> QED
    BY <1>2, <1>3, <2>2
<1>13. CASE Finish(n) \/ Restart(n)
  <2>1. job'[n] \subseteq job[n] /\ cur'[n] = None
    BY <1>1, <1>13 DEF Finish, Restart
  <2> QED
    BY <1>2, <1>3, <2>1
<1>14. CASE Republish(n)
  <2>1. cur' = cur /\ job'[n] = values[n] \union {latest(g) : g \in {pointer[n]} \ {<<>>}}
    BY <1>1, <1>14 DEF Republish
  <2>2. values[n] \subseteq Stored
    BY DEF TypeInv, SharedTypes
  <2>3. w \notin values[n]
    BY <1>2, <2>2 DEF Stored
  <2> QED
    BY <1>2, <1>3, <2>1, <2>3, SMTT(60) DEF latest
<1>15. UNCHANGED vars \/ (\E m \in late : Deliver(m)) => UNCHANGED <<job, cur>>
  BY DEF vars, local, Deliver
<1> QED
  BY <1>4, <1>6, <1>7, <1>8, <1>9, <1>10, <1>11, <1>12, <1>13, <1>14, <1>15, FlushFrame, NextCases
  DEF CommandAction, TaskAction

\* A pointer that a STORE brings is in play, or its publisher is storing it.
Storing(c) == pc[c] = "store" /\ cur[c].type = "latest" /\ job[c] = {} /\ best[c] # <<>> /\ cur[c] = latest(best[c])

LEMMA StoredInPlay ==
    ASSUME TypeInv, PublishersOK, NEW v \in Values, v.type = "latest", InHand(v)
    PROVE  v.of \in InPlay \/ \E c \in Publishers : Storing(c) /\ v.of = best[c]
<1>1. v.of # <<>> /\ v # None
  BY NoneAssumption DEF Values, Stored
<1>2. ASSUME NEW n \in Nodes, cur[n] = v PROVE v.of \in InPlay
  BY <1>1, <1>2 DEF InPlay, Carried
<1>3. ASSUME NEW m \in late, m.value = v PROVE v.of \in InPlay
  BY <1>1, <1>3 DEF InPlay, Pointers
<1>4. ASSUME NEW c \in DOMAIN command, pc[c] = "store", cur[c] = v
      PROVE  \E p \in Publishers : Storing(p) /\ v.of = best[p]
  <2>1. c \in Tasks /\ TaskOK(c)
    BY TaskFacts DEF TypeInv
  <2>2. kind(c) = "publish"
    BY <1>4, <2>1 DEF TaskOK
  <2>3. c \in Publishers /\ PublisherOK(c)
    BY <2>2 DEF Publishers, publisher, PublishersOK
  <2>4. job[c] = {} /\ cur[c] \in Parts(best[c]) /\ best[c] # <<>>
    BY <1>4, <2>3 DEF PublisherOK
  <2>5. cur[c] = latest(best[c]) /\ latest(best[c]).of = best[c]
    BY <1>4, <2>4, PartsFacts
  <2> QED
    BY <1>4, <2>3, <2>4, <2>5 DEF Storing
<1> QED
  BY <1>2, <1>3, <1>4 DEF InHand

\* What comes into play comes from a publisher that stores it.
LEMMA InPlayStep ==
    ASSUME TypeInv, PublishersOK, [Next]_vars, ~restarted', NEW h \in InPlay'
    PROVE  h \in InPlay \/ \E c \in Publishers : Storing(c) /\ h = best[c]
<1>1. \A n \in Nodes : ~Restart(n)
  BY HeldStays
<1>2. ASSUME NEW n \in Nodes, h = pointer[n], h # <<>> PROVE h \in InPlay
  BY <1>2 DEF InPlay, Pointers
<1>3. ASSUME NEW n \in Nodes, h \in Carried(n)' PROVE h \in InPlay
  <2>1. h \in Carried(n) => h \in InPlay
    BY DEF InPlay
  <2> QED
    BY <1>2, <1>3, <2>1, CarriedStep
<1>4. ASSUME NEW n \in Nodes, h = pointer'[n], h # <<>>
      PROVE  h \in InPlay \/ \E c \in Publishers : Storing(c) /\ h = best[c]
  <2>1. CASE pointer'[n] = pointer[n]
    BY <1>2, <1>4, <2>1
  <2>2. ASSUME NEW v \in Values, InHand(v), v.type = "latest", pointer'[n] = v.of
        PROVE  h \in InPlay \/ \E c \in Publishers : Storing(c) /\ h = best[c]
    BY <1>4, <2>2, StoredInPlay
  <2> QED
    BY <1>1, <2>1, <2>2, PointerCases
<1>5. ASSUME NEW m \in late', m.value.type = "latest", h = m.value.of
      PROVE  h \in InPlay \/ \E c \in Publishers : Storing(c) /\ h = best[c]
  <2>1. \A v \in Values : InHand(v) /\ v = m.value => h \in InPlay \/ \E c \in Publishers : Storing(c) /\ h = best[c]
    BY <1>5, StoredInPlay
  <2>2. m.value \in Values
    BY TypeStep DEF TypeInv, SharedTypes
  <2>3. m \in late => InHand(m.value)
    BY DEF InHand
  <2>4. ASSUME NEW t \in Nodes \union DOMAIN command, NEW n \in Nodes, StoreMisses(t, n) PROVE InHand(m.value)
    <3>1. late' = late \union {[node |-> n, value |-> cur[t]]} /\ pc[t] = "store"
      BY <2>4 DEF StoreMisses, Called
    <3>2. m \in late \/ m.value = cur[t]
      BY <3>1, SMTT(60)
    <3> QED
      BY <2>3, <3>1, <3>2 DEF InHand
  <2>5. InHand(m.value)
    <3>1. ASSUME NEW t, NEW n, StoreReply(t, n) PROVE late' = late
      BY <3>1 DEF StoreReply
    <3>2. ASSUME NEW l \in late, Deliver(l) PROVE late' \subseteq late
      BY <3>2 DEF Deliver
    <3> QED
      BY <1>1, <2>3, <2>4, <3>1, <3>2, NodesFrame
  <2> QED
    BY <2>1, <2>2, <2>5
<1>6. \/ \E n \in Nodes : h \in Carried(n)'
      \/ h # <<>> /\ \E n \in Nodes : h = pointer'[n]
      \/ \E m \in late' : m.value.type = "latest" /\ h = m.value.of
  BY DEF InPlay, Pointers
<1> QED
  BY <1>3, <1>4, <1>5, <1>6

\* What is held, and whole, after a step.
HeldNext(v) == \E n \in Nodes : v \in values'[n]
WholeNext(h) == \A i \in 1..Len(h) : HeldNext(record(SubSeq(h, 1, i))) /\ HeldNext(blob(h[i].blob))

\* What a step does to a publisher.
Stays(c) ==
    pc'[c] = pc[c] /\ best'[c] = best[c] /\ job'[c] = job[c] /\ cur'[c] = cur[c] /\ acks'[c] = acks[c]
    /\ todo'[c] = todo[c]

\* In the beginning the pointers of the nodes are the ones in play.
LEMMA InitInPlay ==
    ASSUME Init
    PROVE  /\ \A h \in InPlay : \E n \in Nodes : h = pointer[n]
           /\ \A c \in Publishers : pc[c] = "idle"
<1>1. \A n \in Nodes : n \in Tasks
  BY DEF Tasks
<1>2. \A n \in Nodes : job[n] = {} /\ cur[n] = None
  BY <1>1 DEF Init
<1>3. \A n \in Nodes : Carried(n) = {}
  BY <1>2 DEF Carried
<1>4. late = {}
  BY DEF Init
<1>5. \A h \in Pointers : \E n \in Nodes : h = pointer[n]
  BY <1>4 DEF Pointers
<1>6. \A c \in Publishers : pc[c] = "idle"
  BY InitTypes, PublisherFacts DEF Init
<1> QED
  BY <1>3, <1>5, <1>6 DEF InPlay

LEMMA WholeHolds == Spec => []WholeInv
<1>SubSeqOfPrefix.
    ASSUME NEW g \in Histories, NEW h \in Histories, IsPrefix(g, h), NEW i \in 1..Len(g)
    PROVE  i \in 1..Len(h) /\ g[i] = h[i] /\ SubSeq(g, 1, i) = SubSeq(h, 1, i)
  <2> USE <1>SubSeqOfPrefix
  <2>1. Len(g) \in Nat /\ Len(h) \in Nat /\ Len(g) <= Len(h) /\ \A j \in 1..Len(g) : g[j] = h[j]
    BY HistoryFacts, PrefixDef
  <2>2. i \in 1..Len(h) /\ i \in 0..Len(g) /\ i \in 0..Len(h)
    BY <2>1, SMTT(60)
  <2>3. /\ SubSeq(g, 1, i) \in Seq(Entries) /\ SubSeq(h, 1, i) \in Seq(Entries)
        /\ Len(SubSeq(g, 1, i)) = i /\ Len(SubSeq(h, 1, i)) = i
        /\ \A j \in 1..i : SubSeq(g, 1, i)[j] = g[j] /\ SubSeq(h, 1, i)[j] = h[j]
    BY <2>2, SubSeqFacts, HistoryFacts
  <2> QED
    BY <2>1, <2>2, <2>3, SMTT(60)
<1>WholePrefix.
    ASSUME NEW g \in Histories, NEW h \in Histories, IsPrefix(g, h), Whole(h)
    PROVE  Whole(g)
  <2> USE <1>WholePrefix
  <2> SUFFICES ASSUME NEW i \in 1..Len(g) PROVE held(record(SubSeq(g, 1, i))) /\ held(blob(g[i].blob))
    BY DEF Whole
  <2>1. i \in 1..Len(h) /\ g[i] = h[i] /\ SubSeq(g, 1, i) = SubSeq(h, 1, i)
    BY <1>SubSeqOfPrefix
  <2>2. held(record(SubSeq(h, 1, i))) /\ held(blob(h[i].blob))
    BY <2>1 DEF Whole
  <2> QED
    BY <2>1, <2>2
\* A history is whole when its last version and all before it are.
<1>WholeFromParts.
    ASSUME NEW h \in Histories, h # <<>>, Whole(Front(h)), held(record(h)), held(blob(Last(h).blob))
    PROVE  Whole(h)
  <2> USE <1>WholeFromParts
  <2>1. Len(h) \in Nat /\ Len(h) >= 1 /\ Last(h) = h[Len(h)]
    BY HistoryFacts
  <2>2. Front(h) = SubSeq(h, 1, Len(h) - 1)
    BY <2>1 DEF Front
  <2>3. Front(h) \in Histories /\ IsPrefix(Front(h), h) /\ Len(Front(h)) = Len(h) - 1 /\ SubSeq(h, 1, Len(h)) = h
    <3>1. Len(h) - 1 \in 0..Len(h) /\ Len(h) \in 0..Len(h)
      BY <2>1, SMTT(60)
    <3>2. SubSeq(h, 1, Len(h)) = h
      BY <3>1, SubSeqFacts
    <3>3. /\ SubSeq(h, 1, Len(h) - 1) \in Histories /\ IsPrefix(SubSeq(h, 1, Len(h) - 1), h)
          /\ Len(SubSeq(h, 1, Len(h) - 1)) = Len(h) - 1
      BY <3>1, SubSeqFacts
    <3> QED
      BY <2>2, <3>2, <3>3
  <2>4. ASSUME NEW i \in 1..Len(h) PROVE held(record(SubSeq(h, 1, i))) /\ held(blob(h[i].blob))
    <3>1. CASE i = Len(h)
      BY <2>1, <2>3, <3>1
    <3>2. CASE i # Len(h)
      <4>1. i \in 1..Len(Front(h))
        BY <2>1, <2>3, <3>2, SMTT(60)
      <4>2. Front(h)[i] = h[i] /\ SubSeq(Front(h), 1, i) = SubSeq(h, 1, i)
        BY <2>3, <4>1, <1>SubSeqOfPrefix
      <4>3. held(record(SubSeq(Front(h), 1, i))) /\ held(blob(Front(h)[i].blob))
        BY <4>1 DEF Whole
      <4> QED
        BY <4>2, <4>3
    <3> QED
      BY <3>1, <3>2
  <2> QED
    BY <2>4 DEF Whole
<1>WholeStays.
    ASSUME TypeInv, [Next]_vars, ~restarted'
    PROVE  /\ \A v : held(v) => HeldNext(v)
           /\ \A h : Whole(h) => WholeNext(h)
           /\ \A h : WholeNext(h) => Whole(h)'
  <2> USE <1>WholeStays
  <2>1. \A n \in Nodes : values[n] \subseteq values'[n]
    BY HeldStays
  <2>2. \A v : held(v) => HeldNext(v)
    BY <2>1 DEF held, HeldNext
  <2>3. \A h : Whole(h) => WholeNext(h)
    BY <2>2 DEF Whole, WholeNext
  <2>4. \A h : WholeNext(h) => Whole(h)'
    BY DEF Whole, WholeNext, held, HeldNext, record, blob
  <2> QED
    BY <2>2, <2>3, <2>4
<1>AddsWholeNext.
    ASSUME NEW c,
           pc'[c] \in {"latest", "walk"} => WholeNext(best'[c]),
           pc'[c] \in {"turn", "store"} =>
             /\ WholeNext(Front(best'[c]))
             /\ \A v \in Parts(best'[c]) :
                 v.type = "latest" \/ HeldNext(v) \/ v \in job'[c] \/ (pc'[c] = "store" /\ cur'[c] = v),
           pc'[c] = "store" /\ cur'[c].type # "latest" /\ acks'[c] > 0 => HeldNext(cur'[c])
    PROVE  AddsWhole(c)'
  <2> USE <1>AddsWholeNext
  <2>1. Whole(best[c])' <=> WholeNext(best'[c])
    BY DEF Whole, WholeNext, held, HeldNext, record, blob
  <2>2. Whole(Front(best[c]))' <=> WholeNext(Front(best'[c]))
    BY DEF Whole, WholeNext, held, HeldNext, record, blob, Front
  <2>3. Parts(best[c])' = Parts(best'[c])
    BY DEF Parts, blob, record, latest
  <2>4. held(cur[c])' <=> HeldNext(cur'[c])
    BY DEF held, HeldNext
  <2>5. \A v : held(v)' <=> HeldNext(v)
    BY DEF held, HeldNext
  <2> QED
    BY <2>1, <2>2, <2>3, <2>4, <2>5 DEF AddsWhole
<1>AddsWholeStays.
    ASSUME TypeInv, [Next]_vars, ~restarted', NEW c \in Publishers, AddsWhole(c),
           pc'[c] = pc[c], best'[c] = best[c], job'[c] = job[c], cur'[c] = cur[c], acks'[c] = acks[c]
    PROVE  AddsWhole(c)'
  <2> USE <1>AddsWholeStays
  <2>1. (\A v : held(v) => HeldNext(v)) /\ \A h : Whole(h) => WholeNext(h)
    BY <1>WholeStays
  <2>2. pc'[c] \in {"latest", "walk"} => WholeNext(best'[c])
    BY <2>1 DEF AddsWhole
  <2>3. pc'[c] \in {"turn", "store"} =>
          /\ WholeNext(Front(best'[c]))
          /\ \A v \in Parts(best'[c]) :
               v.type = "latest" \/ HeldNext(v) \/ v \in job'[c] \/ (pc'[c] = "store" /\ cur'[c] = v)
    BY <2>1 DEF AddsWhole
  <2>4. pc'[c] = "store" /\ cur'[c].type # "latest" /\ acks'[c] > 0 => HeldNext(cur'[c])
    BY <2>1 DEF AddsWhole
  <2> QED
    BY <2>2, <2>3, <2>4, <1>AddsWholeNext
\* A publication built on a whole history lacks what its publisher goes on to store.
<1>AddsWholePrepared.
    ASSUME TypeInv, [Next]_vars, ~restarted', NEW c \in Publishers, NEW existing \in Histories,
           Whole(existing), NEW g \in Histories, Prepared(c, existing, g)
    PROVE  AddsWhole(c)'
  <2> USE <1>AddsWholePrepared
  <2>1. c \in DOMAIN command /\ c \in Tasks /\ publisher(c)
    BY PublisherFacts
  <2>2. best'[c] = g /\ job'[c] = Parts(g) /\ pc'[c] = "turn" /\ g \in prepare_publication(c, existing)
    BY <2>1 DEF Prepared, TypeInv, LocalTypes
  <2>3. PICK i \in 0..Len(existing), e \in Entries : g = Append(SubSeq(existing, 1, i), e)
    BY <2>1, <2>2, PreparedFacts
  <2>4. SubSeq(existing, 1, i) \in Histories /\ IsPrefix(SubSeq(existing, 1, i), existing)
    BY SubSeqFacts
  <2>5. Front(g) = SubSeq(existing, 1, i)
    BY <2>3, <2>4, AppendFacts
  <2>6. WholeNext(Front(best'[c]))
    BY <2>2, <2>4, <2>5, <1>WholePrefix, <1>WholeStays
  <2> QED
    BY <2>2, <2>6, <1>AddsWholeNext
<1>AddsWholeTurn.
    ASSUME TypeInv, [Next]_vars, ~restarted', NEW c \in Publishers, PublisherOK(c), AddsWhole(c), Turn(c)
    PROVE  AddsWhole(c)'
  <2> USE <1>AddsWholeTurn
  <2>1. c \in Tasks /\ c \notin Nodes /\ pc[c] = "turn" /\ best'[c] = best[c]
    BY PublisherFacts DEF Turn
  <2>2. PICK v \in job[c] :
          job' = [job EXCEPT ![c] = job[c] \ {v}] /\ cur' = [cur EXCEPT ![c] = v] /\ StartsStore(c)
    BY <2>1 DEF Turn, StartsStore, goto
  <2>3. job'[c] = job[c] \ {v} /\ cur'[c] = v /\ pc'[c] = "store" /\ acks'[c] = 0
    BY <2>1, <2>2 DEF StartsStore, TypeInv, LocalTypes
  <2>4. (\A w : held(w) => HeldNext(w)) /\ \A h : Whole(h) => WholeNext(h)
    BY <1>WholeStays
  <2>5. /\ WholeNext(Front(best'[c]))
        /\ \A w \in Parts(best'[c]) : w.type = "latest" \/ HeldNext(w) \/ w \in job'[c] \/ cur'[c] = w
    BY <2>1, <2>3, <2>4 DEF AddsWhole
  <2> QED
    BY <2>3, <2>5, <1>AddsWholeNext, SMTT(60)
<1>AddsWholeCalled.
    ASSUME TypeInv, [Next]_vars, ~restarted', NEW c \in Publishers, PublisherOK(c), AddsWhole(c),
           NEW n \in Nodes, StoreReply(c, n) \/ StoreMisses(c, n)
    PROVE  AddsWhole(c)'
  <2> USE <1>AddsWholeCalled
  <2>1. PICK ack \in BOOLEAN :
          Called(c, n, ack) /\ (ack /\ cur[c].type # "latest" => HeldNext(cur[c]))
    <3>1. CASE StoreReply(c, n)
      <4>1. Called(c, n, accepts(n, cur[c])) /\ accepts(n, cur[c]) \in BOOLEAN
        BY <3>1 DEF StoreReply, accepts
      <4>2. cur[c].type # "latest" => cur[c] \in values'[n]
        BY <3>1 DEF StoreReply, STORE, TypeInv, SharedTypes
      <4> QED
        BY <4>1, <4>2 DEF HeldNext
    <3>2. CASE StoreMisses(c, n)
      BY <3>2 DEF StoreMisses
    <3> QED
      BY <3>1, <3>2
  <2> DEFINE a == IF ack /\ c \in Clients THEN acks[c] + 1 ELSE acks[c]
             label == IF todo[c] = {n} THEN after_store(c, a) ELSE "store"
  <2>2. /\ c \in Tasks /\ c \in Clients /\ c \notin Nodes /\ publisher(c) /\ pc[c] = "store" /\ acks[c] \in Nat
        /\ UNCHANGED <<best, job, cur>>
    BY <2>1, PublisherFacts DEF Called
  <2>3. acks' = [acks EXCEPT ![c] = a] /\ pc' = [pc EXCEPT ![c] = label]
    BY <2>1 DEF Called, goto
  <2>4. /\ a \in Nat /\ (a > 0 => ack \/ acks[c] > 0)
        /\ label \in {"store", "failed", "turn", "ok"}
        /\ label = "turn" => job[c] # {} /\ a > 0
    <3>1. a \in Nat /\ (a > 0 => ack \/ acks[c] > 0)
      BY <2>2, SMTT(60)
    <3>2. /\ label \in {"store", "failed", "turn", "ok"}
          /\ label = "turn" => job[c] # {} /\ a # 0
      BY <2>2 DEF after_store
    <3> QED
      BY <3>1, <3>2, SMTT(60)
  <2> HIDE DEF a, label
  <2>5. acks'[c] = a /\ pc'[c] = label
    BY <2>2, <2>3 DEF TypeInv, LocalTypes
  <2>6. (\A w : held(w) => HeldNext(w)) /\ \A h : Whole(h) => WholeNext(h)
    BY <1>WholeStays
  <2>7. a > 0 /\ cur[c].type # "latest" => HeldNext(cur[c])
    BY <2>1, <2>2, <2>4, <2>6 DEF AddsWhole
  <2>8. WholeNext(Front(best'[c])) /\ \A w \in Parts(best'[c]) : w.type = "latest" \/ HeldNext(w) \/ w \in job'[c] \/ cur'[c] = w
    BY <2>2, <2>6 DEF AddsWhole
  <2>9. label = "turn" => \A w \in Parts(best'[c]) : w.type = "latest" \/ HeldNext(w) \/ w \in job'[c]
    BY <2>2, <2>4, <2>7, <2>8
  <2> QED
    BY <2>2, <2>4, <2>5, <2>7, <2>8, <2>9, <1>AddsWholeNext
<1>PublisherCases.
    ASSUME TypeInv, [Next]_vars, NEW c \in Publishers
    PROVE  \/ Stays(c) \/ (pc'[c] = "failed" /\ best'[c] = best[c]) \/ Begin(c) \/ Answered(c) \/ Builds(c)
           \/ Turn(c) \/ \E n \in Nodes : StoreReply(c, n) \/ StoreMisses(c, n)
  <2> USE <1>PublisherCases
  <2>1. c \in DOMAIN command /\ c \in Tasks /\ c \notin Nodes /\ pc \in [Tasks -> Labels] /\ kind(c) = "publish"
    BY PublisherFacts DEF TypeInv, LocalTypes
  <2>2. Untouched(c) => Stays(c)
    BY DEF Untouched, Stays
  <2>3. Refuse(c) \/ Abandon(c) \/ WalkFails(c) => pc'[c] = "failed" /\ best'[c] = best[c]
    BY <2>1 DEF Refuse, Abandon, WalkFails, goto
  <2>4. Walk(c) => Stays(c)
    BY DEF Walk, Stays
  <2>5. CASE Walked(c)
    <3>1. pc[c] = "walk" /\ WalkedTo(c) /\ UNCHANGED <<before, missed>>
      BY <2>1, <2>5, WalkedCases DEF history
    <3>2. CASE \E g \in Histories : Prepared(c, best[c], g)
      BY <3>1, <3>2 DEF Builds
    <3>3. CASE pc' = [pc EXCEPT ![c] = "failed"] /\ UNCHANGED best
      BY <2>1, <3>3
    <3> QED
      BY <2>1, <3>1, <3>2, <3>3 DEF WalkedTo
  <2> QED
    BY <2>1, <2>2, <2>3, <2>4, <2>5, ClientCases, PublisherActions, AskAnswers DEF TaskAction
<1>AddsWholeStep.
    ASSUME TypeInv, PublishersOK, WholeInv, [Next]_vars, ~restarted', NEW c \in Publishers
    PROVE  AddsWhole(c)'
  <2> USE <1>AddsWholeStep
  <2>1. /\ c \in DOMAIN command /\ c \in Tasks /\ PublisherOK(c) /\ AddsWhole(c) /\ \A h \in InPlay : Whole(h)
        /\ TaskOK(c) /\ best[c] \in Histories
    BY HeldStays, PublisherFacts DEF WholeInv, PublishersOK
  <2>2. Whole(<<>>)
    BY SMTT(60) DEF Whole
  <2>3. \A h : Whole(h) => WholeNext(h)
    BY <1>WholeStays
  <2>4. CASE Stays(c)
    BY <2>1, <2>4, <1>AddsWholeStays DEF Stays
  <2>5. CASE pc'[c] = "failed"
    BY <2>5, <1>AddsWholeNext
  <2>6. CASE Begin(c)
    <3>1. pc'[c] = "latest" /\ best'[c] = best[c] /\ pc[c] = "idle"
      BY <2>1, <2>6, PublisherFacts DEF Begin, goto, TypeInv, LocalTypes
    <3>2. WholeNext(best'[c])
      BY <2>1, <2>2, <2>3, <3>1 DEF TaskOK
    <3> QED
      BY <3>1, <3>2, <1>AddsWholeNext
  <2>7. CASE Answered(c)
    <3>1. PICK R \in SUBSET Nodes, h \in Histories : Asked(c, R, h) /\ Learns(c, R, h, missed'[c])
      BY <2>7 DEF Answered
    <3>2. pc[c] = "latest" /\ Heard(c, R, h)
      BY <3>1 DEF Asked
    <3>3. Whole(best[c])
      BY <2>1, <3>2 DEF AddsWhole
    <3>4. \A n \in Nodes : Whole(pointer[n])
      BY <2>1, <2>2 DEF InPlay, Pointers
    <3>5. Whole(h)
      BY <2>2, <3>1, <3>3, <3>4 DEF Learns, newer
    <3>6. CASE StillAsking(c, R, h) \/ FoundLatest(c, R, h)
      <4>1. pc'[c] \in {"latest", "walk"} /\ best'[c] = h
        BY <2>1, <3>6 DEF StillAsking, FoundLatest, TypeInv, LocalTypes
      <4> QED
        BY <2>3, <3>5, <4>1, <1>AddsWholeNext
    <3>7. CASE FoundNothing(c, R, h)
      <4>1. pc'[c] = "failed"
        BY <2>1, <3>7 DEF FoundNothing, TypeInv, LocalTypes
      <4> QED
        BY <4>1, <1>AddsWholeNext
    <3>8. CASE FirstVersion(c, R, h)
      <4>1. PICK g \in Histories : Prepared(c, <<>>, g)
        BY <3>8 DEF FirstVersion
      <4> QED
        BY <2>2, <4>1, TaskFacts, <1>AddsWholePrepared
    <3> QED
      BY <2>1, <3>2, <3>6, <3>7, <3>8, HeardCases
  <2>8. CASE Builds(c)
    BY <2>1, <2>8, <1>AddsWholePrepared DEF Builds, AddsWhole
  <2>9. CASE Turn(c)
    BY <2>1, <2>9, <1>AddsWholeTurn
  <2>10. ASSUME NEW n \in Nodes, StoreReply(c, n) \/ StoreMisses(c, n) PROVE AddsWhole(c)'
    BY <2>1, <2>10, <1>AddsWholeCalled
  <2> QED
    BY <2>4, <2>5, <2>6, <2>7, <2>8, <2>9, <2>10, <1>PublisherCases
<1>WholeStep.
    ASSUME TypeInv, PublishersOK, WholeInv, [Next]_vars
    PROVE  WholeInv'
  <2> USE <1>WholeStep
  <2>1. Publishers' = Publishers
    BY Constant DEF Publishers, publisher, kind
  <2>2. ASSUME ~restarted', NEW h \in InPlay' PROVE Whole(h)'
    <3>1. \A g : Whole(g) => Whole(g)'
      BY <2>2, <1>WholeStays
    <3>2. h \in InPlay \/ \E c \in Publishers : Storing(c) /\ h = best[c]
      BY <2>2, InPlayStep
    <3>3. (\A g \in InPlay : Whole(g)) /\ \A c \in Publishers : AddsWhole(c)
      BY <2>2, HeldStays DEF WholeInv
    <3>4. ASSUME NEW c \in Publishers, Storing(c) PROVE Whole(best[c])
      <4>1. Whole(Front(best[c])) /\ best[c] \in Histories /\ best[c] # <<>>
        BY <3>3, <3>4, PublisherFacts DEF Storing, AddsWhole
      <4>2. \A v \in Parts(best[c]) : v.type = "latest" \/ held(v)
        BY <3>3, <3>4 DEF Storing, AddsWhole
      <4>3. held(record(best[c])) /\ held(blob(Last(best[c]).blob))
        <5>1. record(best[c]).type # "latest" /\ blob(Last(best[c]).blob).type # "latest"
          BY DEF record, blob
        <5> QED
          BY <4>2, <5>1, PartsFacts
      <4> QED
        BY <4>1, <4>3, <1>WholeFromParts
    <3> QED
      BY <3>1, <3>2, <3>3, <3>4
  <2> QED
    BY <2>1, <2>2, <1>AddsWholeStep DEF WholeInv
<1>1. Init => WholeInv
  <2> SUFFICES ASSUME Init PROVE WholeInv
    OBVIOUS
  <2>1. ASSUME NEW n \in Nodes PROVE Whole(pointer[n])
    <3>1. pointer[n] \in Histories /\ pointer[n] \in Seq(Entries)
      BY InitTypes, HistoryFacts DEF TypeInv, SharedTypes
    <3>2. values[n] = {record(SubSeq(pointer[n], 1, i)) : i \in 1..Len(pointer[n])}
                      \union {blob(e.blob) : e \in Range(pointer[n])}
      BY DEF Init
    <3>3. \A i \in 1..Len(pointer[n]) : pointer[n][i] \in Range(pointer[n])
      BY <3>1, SMTT(60) DEF Range
    <3> QED
      BY <3>2, <3>3 DEF Whole, held
  <2>2. \A h \in InPlay : \E n \in Nodes : h = pointer[n]
    BY InitInPlay
  <2>3. \A c \in Publishers : pc[c] = "idle"
    BY InitInPlay
  <2> QED
    BY <2>1, <2>2, <2>3 DEF WholeInv, AddsWhole
<1>2. TypeInv /\ PublishersOK /\ WholeInv /\ [Next]_vars => WholeInv'
  BY <1>WholeStep
<1> QED
  BY <1>1, <1>2, TypesHold, PublishersHold, PTL DEF Spec

\* publish_package stores the blob, then the record, then the pointer, and stops at the first that
\* nobody acknowledges: a pointer never names what no node has, whatever calls are lost, come
\* late or are repeated by republish_values, and wherever publishers are killed, as long as no node
\* has restarted.
THEOREM NothingDangles == Spec => []NoDanglingPointer
<1>1. WholeInv => NoDanglingPointer
  BY DEF WholeInv, NoDanglingPointer, InPlay, Whole
<1> QED
  BY <1>1, WholeHolds, PTL
-----------------------------------------------------------------------------
(* One history *)

\* Prefixes are a partial order with the empty history at its bottom.
LEMMA PrefixOrder ==
    ASSUME NEW f \in Histories, NEW g \in Histories, NEW h \in Histories
    PROVE  /\ IsPrefix(h, h) /\ IsPrefix(<<>>, h)
           /\ IsPrefix(f, g) /\ IsPrefix(g, h) => IsPrefix(f, h)
           /\ IsPrefix(g, h) /\ Len(g) >= Len(h) => g = h
           /\ IsPrefix(f, h) /\ IsPrefix(g, h) => comparable(f, g)
<1>1. f \in Seq(Entries) /\ g \in Seq(Entries) /\ h \in Seq(Entries)
      /\ Len(f) \in Nat /\ Len(g) \in Nat /\ Len(h) \in Nat
  BY HistoryFacts
<1> <<>> \in Histories /\ Len(<<>>) = 0
  BY SMTT(60) DEF Histories
<1>2. IsPrefix(h, h) /\ IsPrefix(<<>>, h)
  BY <1>1, PrefixDef, SMTT(60)
<1>3. IsPrefix(f, g) /\ IsPrefix(g, h) => IsPrefix(f, h)
  BY <1>1, PrefixDef, SMTT(60)
<1>4. IsPrefix(g, h) /\ Len(g) >= Len(h) => g = h
  BY <1>1, PrefixDef, SMTT(60)
<1>5. IsPrefix(f, h) /\ IsPrefix(g, h) => comparable(f, g)
  BY <1>1, PrefixDef, SMTT(60) DEF comparable
<1> QED
  BY <1>2, <1>3, <1>4, <1>5

\* A part of an ordered history is ordered, and a proper one is older.
LEMMA PrefixVersions ==
    ASSUME NEW g \in Histories, NEW h \in Histories, IsPrefix(g, h), Ordered(h), g # <<>>
    PROVE  /\ Ordered(g) /\ h # <<>>
           /\ version(g) <= version(h)
           /\ version(g) >= version(h) => g = h
<1>1. /\ Len(g) \in Nat /\ Len(h) \in Nat /\ Len(g) <= Len(h) /\ Len(g) >= 1
      /\ \A i \in 1..Len(g) : g[i] = h[i]
      /\ version(g) \in Nat
  BY HistoryFacts, PrefixDef
<1>2. h # <<>> /\ version(h) \in Nat /\ version(h) = h[Len(h)].version /\ version(g) = h[Len(g)].version
  BY <1>1, HistoryFacts, SMTT(60) DEF version, Last
<1>3. Ordered(g)
  BY <1>1, SMTT(60) DEF Ordered
<1>4. Len(g) < Len(h) => version(g) < version(h)
  BY <1>1, <1>2, SMTT(60) DEF Ordered
<1>5. Len(g) >= Len(h) => g = h
  BY PrefixOrder
<1> QED
  BY <1>1, <1>2, <1>3, <1>4, <1>5, SMTT(60)

\* Of two histories on one line, the one that is not older continues the other.
LEMMA NewerContinues ==
    ASSUME NEW g \in Histories, NEW h \in Histories, comparable(g, h), Ordered(g), Ordered(h),
           g # <<>>, h # <<>>, version(h) >= version(g)
    PROVE  IsPrefix(g, h)
<1>1. CASE IsPrefix(h, g)
  <2>1. h = g
    BY <1>1, PrefixVersions
  <2> QED
    BY <2>1, PrefixOrder
<1> QED
  BY <1>1 DEF comparable

\* Pointers in play are histories, those of the nodes among them.
LEMMA InPlayFacts ==
    ASSUME TypeInv
    PROVE  /\ \A h \in InPlay : h \in Histories /\ h # <<>>
           /\ \A n \in Nodes : pointer[n] \in Histories /\ (pointer[n] # <<>> => pointer[n] \in InPlay)
<1>1. pointer \in [Nodes -> Histories] /\ late \subseteq [node : Nodes, value : Values]
  BY DEF TypeInv, SharedTypes
<1>2. \A v \in Values : v.type = "latest" => v.of \in Histories /\ v.of # <<>>
  BY DEF Values, Stored
<1>3. \A h \in Pointers : h \in Histories /\ h # <<>>
  BY <1>1, <1>2 DEF Pointers
<1>4. ASSUME NEW n \in Nodes PROVE \A h \in Carried(n) : h \in Histories /\ h # <<>>
  <2>1. job[n] \subseteq Values /\ cur[n] \in Values \union {None}
    BY TaskFacts DEF TypeInv, LocalTypes, TaskOK
  <2> QED
    BY <1>2, <2>1 DEF Carried
<1>5. \A n \in Nodes : pointer[n] # <<>> => pointer[n] \in InPlay
  BY DEF InPlay, Pointers
<1> QED
  BY <1>1, <1>3, <1>4, <1>5 DEF InPlay

\* Without restarts, the pointer of a node is only ever continued.
LEMMA PointerContinues ==
    ASSUME TypeInv, [Next]_vars, ~restarted', NEW n \in Nodes
    PROVE  /\ pointer'[n] \in Histories /\ (latest_is_valid(pointer[n]) => latest_is_valid(pointer'[n]))
           /\ \A h \in Histories : IsPrefix(h, pointer[n]) => IsPrefix(h, pointer'[n])
<1>1. pointer[n] \in Histories /\ pointer'[n] \in Histories
  BY TypeStep DEF TypeInv, SharedTypes
<1>2. ~Restart(n)
  BY HeldStays
<1>3. ASSUME NEW v \in Values, v.type = "latest", accepts(n, v), pointer'[n] = v.of
      PROVE  IsPrefix(pointer[n], pointer'[n])
  <2>1. pointer[n] = <<>> \/ pointer[n] = pointer'[n] \/ IsPrefix(pointer[n], pointer'[n])
    BY <1>3 DEF accepts, continues_previous
  <2> QED
    BY <1>1, <2>1, PrefixOrder
<1>4. IsPrefix(pointer[n], pointer'[n])
  <2>1. pointer'[n] = pointer[n] => IsPrefix(pointer[n], pointer'[n])
    BY <1>1, PrefixOrder
  <2> QED
    BY <1>2, <1>3, <2>1, PointerCases
<1>5. latest_is_valid(pointer[n]) => latest_is_valid(pointer'[n])
  <2>1. ASSUME NEW v \in Values, v.type = "latest", accepts(n, v), pointer'[n] = v.of
        PROVE  latest_is_valid(pointer'[n])
    BY <1>1, <2>1, GenuineIsValid DEF accepts
  <2> QED
    BY <1>2, <2>1, PointerCases
<1> QED
  BY <1>1, <1>4, <1>5, PrefixOrder

\* The pointers in play that get_latest takes, and those it will take; DNS does not change.
Owned == Valid(InPlay)
OwnedNext == {h \in InPlay' : latest_is_valid(h)}
ReachedNext(h, N) == \E n \in N : latest_is_valid(pointer'[n]) /\ IsPrefix(h, pointer'[n])

LEMMA OwnedFacts ==
    ASSUME TypeInv
    PROVE  /\ \A h \in Owned : h \in InPlay /\ h \in Histories /\ h # <<>> /\ latest_is_valid(h)
           /\ \A n \in Nodes : latest_is_valid(pointer[n]) => pointer[n] # <<>> /\ pointer[n] \in Owned
BY InPlayFacts DEF Owned, Valid, latest_is_valid

LEMMA OwnedConstant ==
    ASSUME records' = records
    PROVE  /\ Owned' = OwnedNext /\ (\A h : latest_is_valid(h)' <=> latest_is_valid(h))
           /\ \A h, N : Reached(h, N)' <=> ReachedNext(h, N)
<1>1. get_dns_vk' = get_dns_vk
  BY DnsConstant
<1> QED
  BY <1>1 DEF Owned, OwnedNext, Valid, latest_is_valid, Reached, ReachedNext, IsPrefix

LEMMA ReachedStays ==
    ASSUME TypeInv, [Next]_vars, ~restarted', NEW N \in SUBSET Nodes, NEW h \in Histories, Reached(h, N)
    PROVE  ReachedNext(h, N)
BY PointerContinues DEF Reached, ReachedNext

\* What keeps publications in order.
LEMMA OrderlySteps ==
    ASSUME TypeInv, [Next]_vars, orderly'
    PROVE  /\ orderly
           /\ \A c \in DOMAIN command : /\ Begin(c) /\ publisher(c) =>
                                            ~command[c].force /\ \A p \in Publishers : ~running(p)
                                        /\ Abandon(c) => ~publisher(c)
                                        /\ \A M : AskMisses(c, M) => ~publisher(c)
<1>1. ASSUME NEW c \in DOMAIN command, Begin(c)
      PROVE  orderly /\ (publisher(c) => ~command[c].force /\ \A p \in Publishers : ~running(p))
  <2>1. orderly /\ (publisher(c) => ~command[c].force /\ \A p \in DOMAIN command : publisher(p) => ~running(p))
    BY <1>1 DEF Begin
  <2> QED
    BY <2>1 DEF Publishers
<1>2. ASSUME NEW c, Abandon(c) \/ \E M : AskMisses(c, M) PROVE orderly /\ ~publisher(c)
  BY <1>2 DEF Abandon, AskMisses
<1>3. ASSUME NEW c, Show(c) \/ Exit(c) \/ Refuse(c) \/ NoKey(c) \/ (\E n \in Nodes : AskLatest(c, n))
                    \/ Fetch(c) \/ FetchFails(c) \/ Create(c) \/ Write(c) \/ WriteFails(c)
      PROVE  orderly
  BY <1>3 DEF Show, Exit, Refuse, NoKey, AskLatest, Fetch, FetchFails, Create, Write, WriteFails, history
<1>4. ASSUME NEW t, TaskAction(t) PROVE orderly
  BY <1>4 DEF TaskAction, Walk, WalkFails, Walked, Turn, StoreReply, StoreMisses, Called, history
<1>5. ASSUME NEW n, Republish(n) \/ Finish(n) \/ Restart(n) PROVE orderly
  BY <1>5 DEF Republish, Finish, Restart, history
<1>6. UNCHANGED vars \/ (\E m \in late : Deliver(m)) => orderly
  BY DEF vars, history, Deliver
<1>7. orderly
  BY <1>1, <1>2, <1>3, <1>4, <1>5, <1>6, FlushFrame, NextCases DEF CommandAction
<1> QED
  BY <1>1, <1>2, <1>7

\* The steps of a publisher that is running after them: it has begun, or, with a key in DNS and in
\* good order, it goes on.
GoesOn(c) ==
    \/ Stays(c) \/ (\E n \in Nodes : AskLatest(c, n)) \/ Builds(c)
    \/ Turn(c) \/ \E n \in Nodes : StoreReply(c, n) \/ StoreMisses(c, n)

LEMMA RunningCases ==
    ASSUME TypeInv, [Next]_vars, orderly', NEW c \in Publishers, running(c)',
           running(c) => get_dns_vk # None
    PROVE  Begin(c) \/ (running(c) /\ GoesOn(c))
<1>1. c \in DOMAIN command /\ c \in Tasks /\ c \notin Nodes /\ pc \in [Tasks -> Labels] /\ publisher(c) /\ kind(c) = "publish"
  BY PublisherFacts DEF TypeInv, LocalTypes
<1>2. CASE Untouched(c)
  <2>1. Stays(c) /\ pc'[c] = pc[c]
    BY <1>2 DEF Untouched, Stays
  <2>2. running(c)
    BY <2>1 DEF running
  <2> QED
    BY <2>1, <2>2 DEF GoesOn
<1>3. ~Refuse(c) /\ ~WalkFails(c)
  <2>1. Refuse(c) \/ WalkFails(c) => pc'[c] = "failed"
    BY <1>1 DEF Refuse, WalkFails, goto
  <2> QED
    BY <2>1 DEF running
<1>4. ~Abandon(c) /\ \A M : ~AskMisses(c, M)
  BY <1>1, OrderlySteps
<1>5. ~NoKey(c)
  <2>1. NoKey(c) => running(c) /\ get_dns_vk = None
    BY DEF NoKey, running
  <2> QED
    BY <2>1
<1>6. ASSUME NEW n \in Nodes, AskLatest(c, n) PROVE running(c)
  BY <1>6 DEF AskLatest, running
<1>7. CASE Walk(c)
  <2>1. Stays(c) /\ pc[c] = "walk"
    BY <1>7 DEF Walk, Stays
  <2> QED
    BY <2>1 DEF running, GoesOn
<1>8. CASE Walked(c)
  <2>1. pc[c] = "walk" /\ WalkedTo(c) /\ UNCHANGED <<before, missed>>
    BY <1>1, <1>8, WalkedCases DEF history
  <2>2. CASE \E g \in Histories : Prepared(c, best[c], g)
    BY <2>1, <2>2 DEF Builds, GoesOn, running
  <2>3. CASE pc' = [pc EXCEPT ![c] = "failed"]
    BY <1>1, <2>3 DEF running
  <2> QED
    BY <1>1, <2>1, <2>2, <2>3 DEF WalkedTo
<1>9. CASE Turn(c) \/ \E n \in Nodes : StoreReply(c, n) \/ StoreMisses(c, n)
  <2>1. pc[c] \in {"turn", "store"}
    BY <1>9 DEF Turn, StoreReply, StoreMisses, Called
  <2> QED
    BY <1>9, <2>1 DEF running, GoesOn
<1> QED
  BY <1>1, <1>2, <1>3, <1>4, <1>5, <1>6, <1>7, <1>8, <1>9, ClientCases, PublisherActions DEF TaskAction, GoesOn

\* A publisher that is storing goes on until nodes have its pointer.
LEMMA AddingStep ==
    ASSUME TypeInv, PublishersOK, [Next]_vars, orderly', ~restarted', NEW c \in Publishers, Adding(c),
           \A n \in kept[c] : Reached(best[c], {n})
    PROVE  /\ best'[c] = best[c]
           /\ pc'[c] \in {"turn", "store"} \/ ReachedNext(best[c], Nodes)
<1>1. /\ c \in DOMAIN command /\ c \in Tasks /\ c \in Clients /\ c \notin Nodes /\ pc \in [Tasks -> Labels]
      /\ publisher(c) /\ kind(c) = "publish" /\ PublisherOK(c) /\ best[c] \in Histories /\ acks[c] \in Nat
      /\ pc[c] \in {"turn", "store"} /\ kept \in [Clients -> SUBSET Nodes]
  BY PublisherFacts DEF TypeInv, LocalTypes, SharedTypes, PublishersOK, Adding
<1>2. CASE Untouched(c)
  BY <1>1, <1>2 DEF Untouched
<1>3. CASE Turn(c)
  <2>1. best' = best /\ pc'[c] = "store"
    BY <1>1, <1>3 DEF Turn, goto
  <2> QED
    BY <2>1
<1>4. ASSUME NEW n \in Nodes, NEW ack \in BOOLEAN, Called(c, n, ack)
      PROVE  /\ best'[c] = best[c]
             /\ pc'[c] \in {"turn", "store"} \/ ReachedNext(best[c], Nodes)
  <2> DEFINE a == IF ack /\ c \in Clients THEN acks[c] + 1 ELSE acks[c]
  <2>1. /\ best' = best /\ pc[c] = "store"
        /\ pc'[c] = IF todo[c] = {n} THEN after_store(c, a) ELSE "store"
        /\ ~(todo[c] = {n} /\ a = 0)
    BY <1>1, <1>4 DEF Called, goto
  <2>2. kept'[c] = IF ack /\ cur[c].type = "latest" THEN kept[c] \union {n} ELSE kept[c]
    BY <1>1, <1>4 DEF Called
  <2>3. CASE pc'[c] \notin {"turn", "store"}
    <3>1. todo[c] = {n} /\ a # 0 /\ after_store(c, a) \notin {"turn", "store"}
      BY <2>1, <2>3
    <3>2. job[c] = {}
      BY <3>1 DEF after_store
    <3>3. cur[c].type = "latest"
      BY <1>1, <2>1, <3>2 DEF PublisherOK
    <3>4. ack \/ acks[c] > 0
      BY <1>1, <3>1, SMTT(60)
    <3>5. ~restarted
      BY HeldStays
    <3>6. kept'[c] # {}
      BY <1>1, <2>1, <2>2, <3>3, <3>4, <3>5 DEF PublisherOK
    <3>7. PICK m \in kept'[c] : TRUE
      BY <3>6
    <3>8. m \in Nodes /\ (m \in kept[c] \/ (pointer'[m] = best[c] /\ latest_is_valid(best[c])))
      BY <1>1, <3>7, KeptStep
    <3>9. m \in kept[c] => ReachedNext(best[c], {m})
      BY <1>1, <3>8, ReachedStays
    <3>10. IsPrefix(best[c], best[c])
      BY <1>1, PrefixOrder
    <3> QED
      BY <2>1, <3>8, <3>9, <3>10 DEF ReachedNext
  <2> QED
    BY <2>1, <2>3
<1>5. ASSUME NEW n \in Nodes, StoreReply(c, n) \/ StoreMisses(c, n) PROVE \E ack \in BOOLEAN : Called(c, n, ack)
  <2>1. accepts(n, cur[c]) \in BOOLEAN
    BY DEF accepts
  <2> QED
    BY <1>5, <2>1 DEF StoreReply, StoreMisses
<1>6. ~(Refuse(c) \/ Begin(c) \/ NoKey(c) \/ (\E n \in Nodes : AskLatest(c, n)) \/ (\E M \in SUBSET Nodes : AskMisses(c, M))
        \/ Walk(c) \/ WalkFails(c) \/ Walked(c))
  BY <1>1 DEF Refuse, Begin, NoKey, AskLatest, AskMisses, Walk, WalkFails, Walked
<1>7. ~Abandon(c)
  BY <1>1, OrderlySteps
<1> QED
  BY <1>1, <1>2, <1>3, <1>4, <1>5, <1>6, <1>7, ClientCases, PublisherActions DEF TaskAction

\* What a publication in good order adds to the history it found.
LEMMA PreparedLine ==
    ASSUME TypeInv, NEW c \in Publishers, ~command[c].force, command[c].signer = get_dns_vk,
           NEW existing \in Histories, Ordered(existing), NEW g \in prepare_publication(c, existing)
    PROVE  Ordered(g) /\ IsPrefix(existing, g) /\ g \in Histories /\ latest_is_valid(g)
<1>1. c \in DOMAIN command /\ publisher(c)
  BY PublisherFacts
<1>2. PICK i \in 0..Len(existing), e \in Entries :
        /\ g = Append(SubSeq(existing, 1, i), e) /\ e.signer = command[c].signer
        /\ existing = <<>> \/ (e.version > version(existing) /\ i = Len(existing))
  BY <1>1, PreparedFacts, SMTT(60)
<1>3. Len(existing) \in Nat /\ (existing = <<>> => Len(existing) = 0)
  BY HistoryFacts, SMTT(60)
<1>4. i = Len(existing)
  BY <1>2, <1>3, SMTT(60)
<1>5. SubSeq(existing, 1, i) = existing
  BY <1>4, SubSeqFacts
<1>6. g = Append(existing, e) /\ (existing # <<>> => version(existing) < e.version)
  <2>1. existing # <<>> => version(existing) \in Nat
    BY HistoryFacts
  <2>2. e.version \in Nat
    BY VersionsAssumption DEF Entries
  <2> QED
    BY <1>2, <1>5, <2>1, <2>2
<1> QED
  BY <1>2, <1>6, AppendFacts DEF latest_is_valid

\* What a publisher has heard lies on the line of the nodes' pointers.
LEMMA BestOnLine ==
    ASSUME TypeInv, LinearInv, orderly, ~restarted, NEW c \in Publishers, pc[c] = "latest", OrderlyPublisher(c),
           NEW n \in Nodes, latest_is_valid(pointer[n]), best[c] # <<>>
    PROVE  comparable(best[c], pointer[n]) /\ Ordered(best[c]) /\ Ordered(pointer[n])
<1>1. best[c] \in Histories /\ pointer[n] \in Histories /\ pointer[n] \in Owned
  BY PublisherFacts, InPlayFacts, OwnedFacts
<1>2. Ordered(best[c]) /\ Reached(best[c], Nodes)
  BY DEF OrderlyPublisher
<1>3. PICK m \in Nodes : latest_is_valid(pointer[m]) /\ IsPrefix(best[c], pointer[m])
  BY <1>2 DEF Reached
<1>4. pointer[m] \in Histories /\ pointer[m] \in Owned
  BY <1>3, InPlayFacts, OwnedFacts
<1>6. comparable(pointer[n], pointer[m]) /\ Ordered(pointer[n])
  BY <1>1, <1>4 DEF LinearInv, Owned
<1>7. comparable(best[c], pointer[n])
  BY <1>1, <1>3, <1>4, <1>6, PrefixOrder DEF comparable
<1> QED
  BY <1>2, <1>6, <1>7

\* The newest pointer heard continues all that was heard.
LEMMA AskedLine ==
    ASSUME TypeInv, LinearInv, orderly, ~restarted, NEW c \in Publishers, pc[c] = "latest", OrderlyPublisher(c),
           NEW n \in Nodes, NEW h, h = newer(c, n)
    PROVE  /\ h \in Histories
           /\ h # <<>> => Ordered(h) /\ Reached(h, Nodes)
           /\ \A g \in Owned : IsPrefix(g, h) \/ Reached(g, todo[c] \ {n})
<1>1. best[c] \in Histories /\ pointer[n] \in Histories
  BY PublisherFacts, InPlayFacts
<1>2. h \in Histories
  BY <1>1 DEF newer
<1>3. ASSUME h # <<>> PROVE Ordered(h) /\ Reached(h, Nodes)
  <2>1. CASE h = pointer[n] /\ latest_is_valid(pointer[n])
    <3>1. Ordered(h)
      BY <2>1, OwnedFacts DEF LinearInv, Owned
    <3>2. IsPrefix(pointer[n], pointer[n])
      BY <1>1, PrefixOrder
    <3> QED
      BY <2>1, <3>1, <3>2 DEF Reached
  <2>2. CASE h = best[c]
    BY <1>3, <2>2 DEF OrderlyPublisher
  <2> QED
    BY <2>1, <2>2 DEF newer
<1>4. latest_is_valid(pointer[n]) => IsPrefix(pointer[n], h)
  <2> SUFFICES ASSUME latest_is_valid(pointer[n]) PROVE IsPrefix(pointer[n], h)
    OBVIOUS
  <2>1. CASE h = pointer[n]
    BY <1>1, <2>1, PrefixOrder
  <2>2. CASE h # pointer[n]
    <3>1. h = best[c] /\ best[c] # <<>> /\ pointer[n] # <<>> /\ ~(version(pointer[n]) >= version(best[c]))
      BY <2>2 DEF newer, latest_is_valid
    <3>2. comparable(best[c], pointer[n]) /\ Ordered(best[c]) /\ Ordered(pointer[n])
      BY <3>1, BestOnLine
    <3>3. version(best[c]) >= version(pointer[n])
      BY <1>1, <3>1, HistoryFacts, SMTT(60)
    <3>4. comparable(pointer[n], best[c])
      BY <3>2 DEF comparable
    <3> QED
      BY <1>1, <3>1, <3>2, <3>3, <3>4, NewerContinues
  <2> QED
    BY <2>1, <2>2
<1>5. best[c] # <<>> => IsPrefix(best[c], h)
  <2> SUFFICES ASSUME best[c] # <<>> PROVE IsPrefix(best[c], h)
    OBVIOUS
  <2>1. CASE h = best[c]
    BY <1>1, <2>1, PrefixOrder
  <2>2. CASE h # best[c]
    <3>1. /\ h = pointer[n] /\ latest_is_valid(pointer[n]) /\ pointer[n] # <<>>
          /\ version(pointer[n]) >= version(best[c])
      BY <2>2 DEF newer, latest_is_valid
    <3>2. comparable(best[c], pointer[n]) /\ Ordered(best[c]) /\ Ordered(pointer[n])
      BY <3>1, BestOnLine
    <3> QED
      BY <1>1, <3>1, <3>2, NewerContinues
  <2> QED
    BY <2>1, <2>2
<1>6. ASSUME NEW g \in Owned PROVE IsPrefix(g, h) \/ Reached(g, todo[c] \ {n})
  <2>1. g \in Histories /\ g # <<>> /\ Len(g) >= 1
    BY OwnedFacts, HistoryFacts
  <2>2. IsPrefix(g, best[c]) \/ Reached(g, todo[c])
    BY DEF OrderlyPublisher, Owned
  <2>3. ASSUME NEW f \in Histories, IsPrefix(g, f) PROVE f # <<>>
    <3>1. Len(g) \in Nat /\ Len(f) \in Nat /\ Len(g) <= Len(f)
      BY <2>1, <2>3, HistoryFacts, PrefixDef
    <3> QED
      BY <2>1, <3>1, HistoryFacts, SMTT(60)
  <2>4. ASSUME NEW f \in Histories, IsPrefix(g, f), IsPrefix(f, h) PROVE IsPrefix(g, h)
    BY <1>2, <2>1, <2>4, PrefixOrder
  <2>5. IsPrefix(g, best[c]) => IsPrefix(g, h)
    BY <1>1, <1>5, <2>3, <2>4
  <2>6. latest_is_valid(pointer[n]) /\ IsPrefix(g, pointer[n]) => IsPrefix(g, h)
    BY <1>1, <1>4, <2>4
  <2> QED
    BY <2>2, <2>5, <2>6 DEF Reached
<1> QED
  BY <1>2, <1>3, <1>6

\* OrderlyPublisher, said of the state after a step.
LEMMA OrderlyNext ==
    ASSUME command' = command, records' = records, NEW c \in Publishers,
           ~command[c].force, command[c].signer = get_dns_vk, get_dns_vk # None,
           \A d \in Publishers : running(d)' => d = c,
           pc'[c] = "latest" =>
             /\ best'[c] # <<>> => Ordered(best'[c]) /\ ReachedNext(best'[c], Nodes)
             /\ \A h \in OwnedNext : IsPrefix(h, best'[c]) \/ ReachedNext(h, todo'[c]),
           pc'[c] # "latest" => Ordered(best'[c]) /\ \A h \in OwnedNext : IsPrefix(h, best'[c]),
           pc'[c] \in {"turn", "store"} =>
             latest_is_valid(best'[c]) /\ \A n \in kept'[c] : ReachedNext(best'[c], {n})
    PROVE  OrderlyPublisher(c)'
<1>1. Publishers' = Publishers
  BY DEF Publishers, publisher, kind
<1>2. get_dns_vk' = get_dns_vk /\ Valid(InPlay)' = OwnedNext
  BY DnsConstant, OwnedConstant DEF Owned
<1>3. Adding(c)' => latest_is_valid(best[c])' /\ \A n \in kept'[c] : Reached(best[c], {n})'
  <2>1. Adding(c)' => pc'[c] \in {"turn", "store"}
    BY DEF Adding
  <2> QED
    BY <1>2, <2>1 DEF latest_is_valid, Reached, ReachedNext, IsPrefix
<1>4. pc'[c] = "latest" =>
        /\ best'[c] # <<>> => Ordered(best'[c]) /\ Reached(best[c], Nodes)'
        /\ \A h \in Valid(InPlay)' : IsPrefix(h, best'[c]) \/ Reached(h, todo[c])'
  BY <1>2 DEF latest_is_valid, Reached, ReachedNext, IsPrefix
<1> QED
  BY <1>1, <1>2, <1>3, <1>4 DEF OrderlyPublisher, Ordered, IsPrefix

\* While a publisher runs no other begins, and nothing comes into play but what it stores.
LEMMA OneRunning ==
    ASSUME TypeInv, PublishersOK, LinearInv, [Next]_vars, orderly', ~restarted', NEW c \in Publishers, running(c)
    PROVE  /\ orderly /\ ~restarted /\ OrderlyPublisher(c) /\ PublisherOK(c)
           /\ \A d \in Publishers : running(d)' => d = c
           /\ \A h \in OwnedNext : h \in Owned \/ (Storing(c) /\ h = best[c])
           /\ \A n \in kept'[c] : ReachedNext(best'[c], {n})
<1>1. orderly /\ ~restarted /\ PublisherOK(c)
  BY OrderlySteps, HeldStays DEF PublishersOK
<1>2. \A d \in Publishers : running(d) => OrderlyPublisher(d)
  BY <1>1 DEF LinearInv
<1>3. OrderlyPublisher(c) /\ \A d \in Publishers : running(d) => d = c
  BY <1>2 DEF OrderlyPublisher
<1>4. ASSUME NEW d \in Publishers, running(d)' PROVE d = c
  <2>1. running(d) => get_dns_vk # None
    BY <1>2 DEF OrderlyPublisher
  <2>2. Begin(d) \/ running(d)
    BY <1>4, <2>1, RunningCases
  <2>3. ~Begin(d)
    BY OrderlySteps, PublisherFacts
  <2> QED
    BY <1>3, <2>2, <2>3
<1>5. ASSUME NEW h \in OwnedNext PROVE h \in Owned \/ (Storing(c) /\ h = best[c])
  <2>1. ASSUME NEW d \in Publishers, Storing(d) PROVE d = c
    <3>1. running(d)
      BY <2>1 DEF Storing, running
    <3> QED
      BY <1>3, <3>1
  <2> QED
    BY <2>1, InPlayStep DEF Owned, OwnedNext, Valid
<1>6. ASSUME NEW n \in kept'[c] PROVE ReachedNext(best'[c], {n})
  <2>1. /\ best'[c] = best[c] /\ n \in Nodes /\ best[c] \in Histories
        /\ n \in kept[c] \/ (pointer'[n] = best[c] /\ latest_is_valid(best[c]))
    BY <1>1, KeptStep, PublisherFacts
  <2>2. CASE n \in kept[c]
    <3>1. Adding(c)
      <4>1. pc[c] \in {"ok", "failed"} \/ pc[c] = "store"
        BY <1>1, <2>2 DEF PublisherOK
      <4> QED
        BY <4>1, PublisherFacts DEF running, Adding
    <3> QED
      BY <1>3, <2>1, <2>2, <3>1, ReachedStays DEF OrderlyPublisher
  <2> QED
    BY <2>1, <2>2, PrefixOrder DEF ReachedNext
<1> QED
  BY <1>1, <1>3, <1>4, <1>5, <1>6

\* A publisher begins in good order: whatever is in play is held by a node it is going to ask.
LEMMA OrderlyBegins ==
    ASSUME TypeInv, PublishersOK, LinearInv, [Next]_vars, orderly', ~restarted', NEW c \in Publishers, Begin(c)
    PROVE  OrderlyPublisher(c)'
<1>1. /\ c \in DOMAIN command /\ c \in Tasks /\ publisher(c) /\ kind(c) = "publish" /\ CommandOK(c) /\ TaskOK(c)
      /\ pc \in [Tasks -> Labels] /\ DOMAIN todo = Tasks
  BY PublisherFacts DEF TypeInv, LocalTypes
<1>2. orderly /\ ~restarted /\ ~command[c].force /\ \A p \in Publishers : ~running(p)
  BY <1>1, OrderlySteps, HeldStays
<1>3. /\ pc[c] = "idle" /\ command[c].signer = get_dns_vk /\ pc' = [pc EXCEPT ![c] = "latest"]
      /\ todo' = [todo EXCEPT ![c] = Nodes] /\ best' = best
  BY <1>1, <1>2 DEF Begin, goto
<1>4. get_dns_vk # None
  BY <1>1, <1>3, NoneAssumption DEF CommandOK
<1>5. ASSUME NEW d \in Publishers, running(d)' PROVE d = c
  <2>1. d \in Tasks /\ ~running(d)
    BY <1>2, PublisherFacts
  <2>2. d # c => pc'[d] = pc[d]
    BY <1>1, <1>3, <2>1
  <2> QED
    BY <1>5, <2>1, <2>2 DEF running
<1>6. best'[c] = <<>> /\ pc'[c] = "latest" /\ todo'[c] = Nodes
  BY <1>1, <1>3 DEF TaskOK
<1>7. ASSUME NEW h \in OwnedNext PROVE ReachedNext(h, Nodes)
  <2>1. \A d \in Publishers : ~Storing(d) /\ ~Adding(d)
    BY <1>2 DEF Storing, Adding, running
  <2>2. h \in Owned
    BY <2>1, InPlayStep DEF Owned, OwnedNext, Valid
  <2>3. Reached(h, Nodes)
    BY <1>2, <2>1, <2>2 DEF LinearInv, Owned
  <2> QED
    BY <2>2, <2>3, OwnedFacts, ReachedStays
<1> QED
  BY <1>2, <1>3, <1>4, <1>5, <1>6, <1>7, Constant, OrderlyNext

\* A publisher that has found the newest history, or adds to it, has all there is in hand.
LEMMA OrderlyHolds ==
    ASSUME TypeInv, PublishersOK, LinearInv, [Next]_vars, orderly', ~restarted', NEW c \in Publishers, running(c),
           pc[c] # "latest", pc'[c] # "latest", best'[c] = best[c], Adding(c) \/ pc'[c] \notin {"turn", "store"}
    PROVE  OrderlyPublisher(c)'
<1>1. /\ OrderlyPublisher(c) /\ best[c] \in Histories
      /\ \A d \in Publishers : running(d)' => d = c
      /\ \A h \in OwnedNext : h \in Owned \/ h = best[c]
      /\ \A n \in kept'[c] : ReachedNext(best'[c], {n})
  BY OneRunning, PublisherFacts
<1>2. /\ ~command[c].force /\ command[c].signer = get_dns_vk /\ get_dns_vk # None
      /\ Ordered(best[c]) /\ (\A h \in Owned : IsPrefix(h, best[c])) /\ (Adding(c) => latest_is_valid(best[c]))
  BY <1>1 DEF OrderlyPublisher, Owned
<1>3. \A h \in OwnedNext : IsPrefix(h, best'[c])
  BY <1>1, <1>2, PrefixOrder
<1> QED
  BY <1>1, <1>2, <1>3, Constant, OrderlyNext

LEMMA OrderlyWaits ==
    ASSUME TypeInv, PublishersOK, LinearInv, [Next]_vars, orderly', ~restarted', NEW c \in Publishers,
           pc[c] = "latest", Stays(c)
    PROVE  OrderlyPublisher(c)'
<1>1. running(c) /\ ~Storing(c) /\ pc'[c] = "latest" /\ best'[c] = best[c] /\ todo'[c] = todo[c]
  BY DEF running, Storing, Stays
<1>2. /\ OrderlyPublisher(c) /\ best[c] \in Histories /\ todo[c] \subseteq Nodes
      /\ \A d \in Publishers : running(d)' => d = c
      /\ \A h \in OwnedNext : h \in Owned
  BY <1>1, OneRunning, PublisherFacts
<1>3. /\ ~command[c].force /\ command[c].signer = get_dns_vk /\ get_dns_vk # None
      /\ best[c] # <<>> => Ordered(best[c]) /\ Reached(best[c], Nodes)
      /\ \A h \in Owned : IsPrefix(h, best[c]) \/ Reached(h, todo[c])
  BY <1>2 DEF OrderlyPublisher, Owned
<1>4. best'[c] # <<>> => Ordered(best'[c]) /\ ReachedNext(best'[c], Nodes)
  BY <1>1, <1>2, <1>3, ReachedStays
<1>5. \A h \in OwnedNext : IsPrefix(h, best'[c]) \/ ReachedNext(h, todo'[c])
  BY <1>1, <1>2, <1>3, OwnedFacts, ReachedStays
<1> QED
  BY <1>1, <1>2, <1>3, <1>4, <1>5, Constant, OrderlyNext

\* What it adds continues all there is.
LEMMA OrderlyPrepares ==
    ASSUME TypeInv, PublishersOK, LinearInv, [Next]_vars, orderly', ~restarted', NEW c \in Publishers,
           pc[c] \in {"latest", "walk"}, NEW existing \in Histories, Ordered(existing),
           \A h \in Owned : IsPrefix(h, existing), NEW g \in Histories, Prepared(c, existing, g)
    PROVE  OrderlyPublisher(c)'
<1>1. running(c) /\ ~Storing(c)
  BY DEF running, Storing
<1>2. /\ OrderlyPublisher(c) /\ c \in Tasks
      /\ \A d \in Publishers : running(d)' => d = c
      /\ \A h \in OwnedNext : h \in Owned
      /\ \A n \in kept'[c] : ReachedNext(best'[c], {n})
  BY <1>1, OneRunning, PublisherFacts
<1>3. ~command[c].force /\ command[c].signer = get_dns_vk /\ get_dns_vk # None
  BY <1>2 DEF OrderlyPublisher
<1>4. best'[c] = g /\ pc'[c] = "turn" /\ g \in prepare_publication(c, existing)
  BY <1>2 DEF Prepared, TypeInv, LocalTypes
<1>5. Ordered(g) /\ IsPrefix(existing, g) /\ latest_is_valid(g)
  BY <1>3, <1>4, PreparedLine
<1>6. \A h \in OwnedNext : IsPrefix(h, g)
  BY <1>2, <1>5, OwnedFacts, PrefixOrder
<1> QED
  BY <1>2, <1>3, <1>4, <1>5, <1>6, Constant, OrderlyNext

\* get_latest finds the newest of one line of histories, or that there is none.
LEMMA OrderlyAsks ==
    ASSUME TypeInv, PublishersOK, LinearInv, [Next]_vars, orderly', ~restarted', NEW c \in Publishers,
           running(c)', NEW n \in Nodes, AskLatest(c, n)
    PROVE  OrderlyPublisher(c)'
<1>1. /\ c \in DOMAIN command /\ c \in Tasks /\ pc \in [Tasks -> Labels] /\ DOMAIN best = Tasks /\ DOMAIN todo = Tasks
      /\ todo[c] \subseteq Nodes
  BY PublisherFacts DEF TypeInv, LocalTypes
<1>2. PICK h \in Histories :
        Asked(c, todo[c] \ {n}, h) /\ h = newer(c, n)
  BY <1>1, AskCases
<1>3. pc[c] = "latest" /\ Heard(c, todo[c] \ {n}, h) /\ pointer' = pointer
  BY <1>2 DEF Asked, nodes
<1>4. running(c) /\ ~Storing(c)
  BY <1>3 DEF running, Storing
<1>5. /\ orderly /\ ~restarted /\ OrderlyPublisher(c)
      /\ \A d \in Publishers : running(d)' => d = c
      /\ \A g \in OwnedNext : g \in Owned
  BY <1>4, OneRunning
<1>6. ~command[c].force /\ command[c].signer = get_dns_vk /\ get_dns_vk # None
  BY <1>5 DEF OrderlyPublisher
<1>7. /\ h # <<>> => Ordered(h) /\ Reached(h, Nodes)
      /\ \A g \in Owned : IsPrefix(g, h) \/ Reached(g, todo[c] \ {n})
      /\ \A g, N : Reached(g, N) => ReachedNext(g, N)
  BY <1>2, <1>3, <1>5, AskedLine DEF Reached, ReachedNext
<1>8. CASE StillAsking(c, todo[c] \ {n}, h)
  <2>1. best'[c] = h /\ pc'[c] = "latest"
    BY <1>1, <1>8 DEF StillAsking
  <2>2. todo'[c] = todo[c] \ {n}
    BY <1>1, <1>3 DEF Heard
  <2> QED
    BY <1>3, <1>5, <1>6, <1>7, <2>1, <2>2, Constant, OrderlyNext
<1>9. CASE FoundLatest(c, todo[c] \ {n}, h)
  <2>1. best'[c] = h /\ pc'[c] = "walk" /\ h # <<>> /\ todo[c] \ {n} = {}
    BY <1>1, <1>9 DEF FoundLatest
  <2>2. \A g \in Owned : IsPrefix(g, h)
    BY <1>7, <2>1 DEF Reached
  <2> QED
    BY <1>5, <1>6, <1>7, <2>1, <2>2, Constant, OrderlyNext
<1>10. CASE FoundNothing(c, todo[c] \ {n}, h)
  BY <1>1, <1>10 DEF FoundNothing, running
<1>11. CASE FirstVersion(c, todo[c] \ {n}, h)
  <2>1. PICK g \in Histories : Prepared(c, <<>>, g)
    BY <1>11 DEF FirstVersion
  <2>2. h = <<>> /\ todo[c] \ {n} = {}
    BY <1>11 DEF FirstVersion
  <2>3. \A f \in Owned : IsPrefix(f, <<>>)
    BY <1>7, <2>2 DEF Reached
  <2>4. Ordered(<<>>)
    BY SMTT(60) DEF Ordered
  <2> QED
    BY <1>2, <1>3, <2>1, <2>2, <2>3, <2>4, OrderlyPrepares
<1> QED
  <2>1. todo[c] \ {n} \in SUBSET Nodes
    BY <1>1
  <2> QED
    BY <1>1, <1>3, <1>8, <1>9, <1>10, <1>11, <2>1, HeardCases

LEMMA OrderlyStep ==
    ASSUME TypeInv, PublishersOK, LinearInv, [Next]_vars, orderly', ~restarted', NEW c \in Publishers, running(c)'
    PROVE  OrderlyPublisher(c)'
<1>1. running(c) => OrderlyPublisher(c)
  BY OneRunning
<1>2. Begin(c) \/ (running(c) /\ GoesOn(c))
  <2>1. running(c) => get_dns_vk # None
    BY <1>1 DEF OrderlyPublisher
  <2> QED
    BY <2>1, RunningCases
<1>3. CASE Begin(c)
  BY <1>3, OrderlyBegins
<1>4. CASE running(c) /\ Stays(c)
  <2>1. CASE pc[c] = "latest"
    BY <1>4, <2>1, OrderlyWaits
  <2>2. CASE pc[c] # "latest"
    BY <1>4, <2>2, OrderlyHolds, PublisherFacts DEF Stays, Adding
  <2> QED
    BY <2>1, <2>2
<1>5. CASE running(c) /\ Builds(c)
  <2>1. PICK g \in Histories : Prepared(c, best[c], g)
    BY <1>5 DEF Builds
  <2>2. pc[c] = "walk" /\ best[c] \in Histories
    BY <1>5, PublisherFacts DEF Builds
  <2>3. Ordered(best[c]) /\ \A h \in Owned : IsPrefix(h, best[c])
    BY <1>1, <1>5, <2>2 DEF OrderlyPublisher, Owned
  <2> QED
    BY <2>1, <2>2, <2>3, OrderlyPrepares
<1>6. CASE running(c) /\ (Turn(c) \/ \E n \in Nodes : StoreReply(c, n) \/ StoreMisses(c, n))
  <2>1. pc[c] \in {"turn", "store"} /\ publisher(c)
    BY <1>6, PublisherFacts DEF Turn, StoreReply, StoreMisses, Called
  <2>2. best' = best
    BY <1>6 DEF Turn, StoreReply, StoreMisses, Called
  <2>3. pc'[c] # "latest"
    <3>1. c \in Tasks /\ c \notin Nodes /\ pc \in [Tasks -> Labels]
      BY PublisherFacts DEF TypeInv, LocalTypes
    <3>2. Turn(c) => pc'[c] = "store"
      BY <3>1 DEF Turn, goto
    <3>3. ASSUME NEW n, StoreReply(c, n) \/ StoreMisses(c, n) PROVE pc'[c] # "latest"
      BY <3>1, <3>3 DEF StoreReply, StoreMisses, Called, goto, after_store
    <3> QED
      BY <1>6, <3>2, <3>3
  <2> QED
    BY <1>6, <2>1, <2>2, <2>3, OrderlyHolds DEF Adding
<1> QED
  BY <1>2, <1>3, <1>4, <1>5, <1>6, OrderlyAsks DEF GoesOn

LEMMA LinearStep ==
    ASSUME TypeInv, PublishersOK, LinearInv, [Next]_vars
    PROVE  LinearInv'
<1> SUFFICES ASSUME orderly', ~restarted'
             PROVE  /\ \A h \in OwnedNext :
                        /\ Ordered(h)
                        /\ \/ ReachedNext(h, Nodes)
                           \/ \E c \in Publishers : pc'[c] \in {"turn", "store"} /\ h = best'[c]
                    /\ \A g, h \in OwnedNext : comparable(g, h)
                    /\ \A c \in Publishers : running(c)' => OrderlyPublisher(c)'
  <2>1. Publishers' = Publishers
    BY Constant DEF Publishers, publisher, kind
  <2>2. \A c \in Publishers : pc'[c] \in {"turn", "store"} => Adding(c)'
    BY <2>1, Constant DEF Adding, Publishers, publisher, kind
  <2> QED
    BY <2>1, <2>2, Constant, OwnedConstant DEF LinearInv, Owned, comparable, Ordered, IsPrefix
<1>1. orderly /\ ~restarted
  BY OrderlySteps, HeldStays
<1>2. /\ \A h \in Owned :
            /\ Ordered(h)
            /\ \/ Reached(h, Nodes)
               \/ \E c \in Publishers : Adding(c) /\ h = best[c]
      /\ \A g, h \in Owned : comparable(g, h)
  BY <1>1 DEF LinearInv, Owned
<1>3. ASSUME NEW c \in Publishers, Adding(c)
      PROVE  /\ best[c] \in Histories /\ Ordered(best[c])
             /\ \A h \in Owned : IsPrefix(h, best[c])
             /\ \A d \in Publishers : Adding(d) => d = c
             /\ \A n \in kept[c] : Reached(best[c], {n})
  <2>1. running(c) /\ pc[c] # "latest" /\ \A d \in Publishers : Adding(d) => running(d)
    BY <1>3 DEF running, Adding
  <2>2. OrderlyPublisher(c)
    BY <2>1, OneRunning
  <2> QED
    BY <1>3, <2>1, <2>2, PublisherFacts DEF OrderlyPublisher, Owned
<1>4. ASSUME NEW h \in OwnedNext PROVE h \in Owned \/ \E c \in Publishers : Adding(c) /\ h = best[c]
  <2>1. \A c \in Publishers : Storing(c) => Adding(c)
    BY PublisherFacts DEF Storing, Adding
  <2> QED
    BY <2>1, InPlayStep DEF Owned, OwnedNext, Valid
<1>5. ASSUME NEW h \in OwnedNext
      PROVE  /\ Ordered(h)
             /\ \/ ReachedNext(h, Nodes)
                \/ \E c \in Publishers : pc'[c] \in {"turn", "store"} /\ h = best'[c]
  <2>1. Ordered(h)
    BY <1>2, <1>3, <1>4
  <2>2. \/ Reached(h, Nodes)
        \/ \E c \in Publishers : Adding(c) /\ h = best[c]
    BY <1>2, <1>4
  <2>3. h \in Histories
    BY <1>3, <1>4, OwnedFacts
  <2>4. ASSUME NEW c \in Publishers, Adding(c), h = best[c]
        PROVE  \/ ReachedNext(h, Nodes)
               \/ pc'[c] \in {"turn", "store"} /\ h = best'[c]
    BY <1>3, <2>4, AddingStep
  <2> QED
    BY <2>1, <2>2, <2>3, <2>4, ReachedStays
<1>6. ASSUME NEW g \in OwnedNext, NEW h \in OwnedNext PROVE comparable(g, h)
  <2>1. CASE g \in Owned /\ h \in Owned
    BY <1>2, <2>1
  <2>2. ASSUME NEW c \in Publishers, Adding(c), g = best[c] \/ h = best[c] PROVE comparable(g, h)
    <3>1. IsPrefix(g, best[c]) /\ IsPrefix(h, best[c])
      BY <1>3, <1>4, <2>2, PrefixOrder
    <3> QED
      BY <2>2, <3>1 DEF comparable
  <2> QED
    BY <1>4, <2>1, <2>2
<1> QED
  BY <1>5, <1>6, OrderlyStep

-----------------------------------------------------------------------------
(* Acknowledgements *)

CountOK(t) ==
    /\ acks[t] <= Cardinality(Nodes)
    /\ pc[t] = "store" => acks[t] + Cardinality(todo[t]) <= Cardinality(Nodes)

\* Only a task that comes to store, and one that calls a node, change what it counts.
LEMMA CountCases ==
    ASSUME TypeInv, NEW t \in Nodes \union DOMAIN command,
           (t \in DOMAIN command /\ CommandAction(t)) \/ TaskAction(t)
           \/ (t \in Nodes /\ (Republish(t) \/ Finish(t) \/ Restart(t)))
    PROVE  \/ acks'[t] \in {0, acks[t]} /\ pc'[t] # "store"
           \/ acks'[t] = 0 /\ todo'[t] = Nodes
           \/ \E n \in Nodes, ack \in BOOLEAN : Called(t, n, ack)
<1>1. t \in Tasks /\ (t \in DOMAIN command => t \notin Nodes)
  BY TaskFacts
<1>2. \A label : goto(t, label) => pc'[t] = label
  BY <1>1 DEF goto, TypeInv, LocalTypes
<1>3. CASE t \in DOMAIN command /\ CommandAction(t)
  <2>1. UNCHANGED acks
    BY <1>3 DEF CommandAction, Show, Exit, Refuse, Abandon, Begin, NoKey, AskLatest, AskMisses, Fetch, FetchFails,
                Create, Write, WriteFails
  <2>2. pc'[t] # "store"
    <3>1. CASE Show(t) \/ Exit(t) \/ Refuse(t) \/ Abandon(t)
      BY <1>2, <3>1 DEF Show, Exit, Refuse, Abandon
    <3>2. CASE Begin(t)
      BY <1>2, <3>2 DEF Begin
    <3>3. ASSUME NEW R, NEW h, Heard(t, R, h) PROVE pc'[t] # "store"
      BY <1>2, <3>3 DEF Heard, Prepare
    <3>4. CASE Fetch(t) \/ FetchFails(t) \/ Create(t) \/ Write(t) \/ WriteFails(t)
      BY <1>2, <3>4 DEF Fetch, FetchFails, Create, Write, WriteFails
    <3> QED
      BY <1>3, <3>1, <3>2, <3>3, <3>4 DEF CommandAction, NoKey, AskLatest, AskMisses
  <2> QED
    BY <2>1, <2>2
<1>4. CASE Walk(t)
  BY <1>4 DEF Walk
<1>5. CASE WalkFails(t) \/ Republish(t) \/ Finish(t)
  BY <1>2, <1>5 DEF WalkFails, Republish, Finish
<1>6. CASE t \in Nodes /\ Restart(t)
  BY <1>1, <1>2, <1>6 DEF Restart, TypeInv, LocalTypes
<1>7. CASE Walked(t)
  <2>1. CASE StartsStore(t)
    BY <1>1, <2>1 DEF StartsStore, TypeInv, LocalTypes
  <2>2. CASE UNCHANGED acks /\ \E label \in Labels \ {"store"} : goto(t, label)
    BY <1>2, <2>2
  <2> QED
    BY <1>7, <2>1, <2>2, WalkedCases DEF WalkedTo, Prepared, Chosen, goto, Labels
<1>8. CASE Turn(t)
  <2>1. \/ UNCHANGED acks /\ goto(t, "walk")
        \/ todo' = [todo EXCEPT ![t] = Nodes] /\ acks' = [acks EXCEPT ![t] = 0]
    BY <1>8 DEF Turn
  <2> QED
    BY <1>1, <1>2, <2>1 DEF TypeInv, LocalTypes
<1>9. CASE \E n \in Nodes : StoreReply(t, n) \/ StoreMisses(t, n)
  BY <1>9 DEF StoreReply, StoreMisses, accepts
<1> QED
  BY <1>3, <1>4, <1>5, <1>6, <1>7, <1>8, <1>9 DEF TaskAction

-----------------------------------------------------------------------------
(* The first histories, and how many nodes acknowledge *)

INSTANCE FiniteSetTheorems

\* A set of numbers has a least.
LEMMA NatMinimum ==
    ASSUME NEW S \in SUBSET Nat, S # {}
    PROVE  \E x \in S : \A y \in S : x <= y
<1>1. PICK x \in S : \A y \in S : ~(<<y, x>> \in OpToRel(<, Nat))
  BY NatLessThanWellFounded, WFMin
<1>2. \A y \in S : ~(y < x)
  BY <1>1 DEF OpToRel
<1> QED  BY <1>2, SMTT(60)

\* Every version of an increasing history is newer than all before it.
LEMMA IncreasingIsOrdered ==
    ASSUME NEW h \in Histories, Increasing(h)
    PROVE  Ordered(h)
<1> SUFFICES ASSUME NEW i \in 1..Len(h), NEW j \in 1..Len(h), i < j PROVE h[i].version < h[j].version
  BY DEF Ordered
<1>1. Len(h) \in Nat /\ \A k \in 1..Len(h) : h[k].version \in Nat
  BY HistoryFacts
<1> DEFINE Wrong == {k \in Nat : i < k /\ k <= Len(h) /\ ~(h[i].version < h[k].version)}
<1>2. CASE Wrong = {}
  BY <1>1, <1>2, SMTT(60)
<1>3. CASE Wrong # {}
  <2>1. PICK k \in Wrong : \A l \in Wrong : k <= l
    BY <1>3, NatMinimum
  <2>2. k - 1 \in Nat /\ k - 1 \in 1..Len(h) - 1 /\ k - 1 \in 1..Len(h) /\ k \in 1..Len(h) /\ (k - 1) + 1 = k
    BY <1>1, <2>1, SMTT(60)
  <2>3. h[k - 1].version < h[k].version
    BY <2>2 DEF Increasing
  <2>4. i = k - 1 \/ h[i].version < h[k - 1].version
    BY <1>1, <2>1, <2>2, SMTT(60)
  <2> QED
    BY <1>1, <2>1, <2>2, <2>3, <2>4, SMTT(60)
<1> QED
  BY <1>2, <1>3

LEMMA LinearHolds == Spec => []LinearInv
<1>1. Init => LinearInv
  <2> SUFFICES ASSUME Init, orderly PROVE LinearInv
    BY DEF LinearInv
  <2>1. \A m, n \in Nodes : latest_is_valid(pointer[m]) /\ latest_is_valid(pointer[n])
                           => comparable(pointer[m], pointer[n])
    BY DEF Init
  <2>2. \A n \in Nodes : pointer[n] \in Histories /\ Ordered(pointer[n])
    <3>1. PICK s \in Scenarios : pointer = s.start
      BY DEF Init
    <3> QED
      BY <3>1, ScenariosAssumption, IncreasingIsOrdered
  <2>3. ASSUME NEW h \in Owned
        PROVE  /\ Ordered(h) /\ Reached(h, Nodes)
               /\ \E n \in Nodes : h = pointer[n] /\ latest_is_valid(pointer[n])
    <3>1. h \in InPlay /\ latest_is_valid(h)
      BY DEF Owned, Valid
    <3>2. PICK n \in Nodes : h = pointer[n]
      BY <3>1, InitInPlay
    <3> QED
      BY <2>2, <3>1, <3>2, PrefixOrder DEF Reached
  <2>4. \A c \in Publishers : ~running(c)
    BY InitInPlay DEF running
  <2>5. \A g, h \in Owned : comparable(g, h)
    BY <2>1, <2>3
  <2> QED
    BY <2>3, <2>4, <2>5 DEF LinearInv, Owned
<1>2. TypeInv /\ PublishersOK /\ LinearInv /\ [Next]_vars => LinearInv'
  BY LinearStep
<1> QED
  BY <1>1, <1>2, TypesHold, PublishersHold, PTL DEF Spec

\* Late STOREs and republished pointers never fork the history of a package under the key in DNS,
\* also when nodes hold pointers signed with former keys: for two histories to arise, publishers
\* must overlap, force, fail half-way or miss a node, or a node must restart.
THEOREM OrderlyAreLinear == Spec => []OrderlyIsLinear
<1>1. LinearInv => OrderlyIsLinear
  BY DEF LinearInv, OrderlyIsLinear, InPlay, Valid
<1> QED
  BY <1>1, LinearHolds, PTL

\* An acknowledgement moves one node from those still to call to those counted.
LEMMA CountCalled ==
    ASSUME TypeInv, NEW t \in Tasks, CountOK(t), NEW n \in Nodes, NEW ack \in BOOLEAN, Called(t, n, ack)
    PROVE  CountOK(t)'
<1> DEFINE a == IF ack /\ t \in Clients THEN acks[t] + 1 ELSE acks[t]
<1>1. /\ pc[t] = "store" /\ n \in todo[t] /\ todo[t] \subseteq Nodes /\ acks[t] \in Nat
      /\ acks'[t] = a /\ todo'[t] = todo[t] \ {n}
  BY SMTT(60) DEF Called, TypeInv, LocalTypes
<1>2. /\ Cardinality(Nodes) \in Nat /\ Cardinality(todo[t]) \in Nat /\ Cardinality(todo[t] \ {n}) \in Nat
      /\ Cardinality(todo[t] \ {n}) = Cardinality(todo[t]) - 1
  <2>1. IsFiniteSet(Nodes) /\ IsFiniteSet(todo[t]) /\ IsFiniteSet(todo[t] \ {n})
    BY <1>1, TasksAssumption, FS_Subset
  <2> QED
    BY <1>1, <2>1, FS_CardinalityType, FS_RemoveElement
<1>3. acks[t] + Cardinality(todo[t]) <= Cardinality(Nodes)
  BY <1>1 DEF CountOK
<1>4. a <= Cardinality(Nodes) /\ a + Cardinality(todo[t] \ {n}) <= Cardinality(Nodes)
  BY <1>1, <1>2, <1>3, SMTT(60)
<1> QED
  BY <1>1, <1>4 DEF CountOK

LEMMA CountStep ==
    ASSUME TypeInv, CountsOK, [Next]_vars
    PROVE  CountsOK'
<1>1. Cardinality(Nodes) \in Nat /\ \A t \in Tasks : acks[t] \in Nat /\ CountOK(t)
  BY TasksAssumption, FS_CardinalityType DEF CountsOK, CountOK, TypeInv, LocalTypes
<1>2. \A t \in Tasks : acks'[t] = 0 /\ todo'[t] = Nodes => CountOK(t)'
  BY <1>1, SMTT(60) DEF CountOK
<1>3. \A t \in Tasks : acks'[t] \in {0, acks[t]} /\ pc'[t] # "store" => CountOK(t)'
  BY <1>1, SMTT(60) DEF CountOK
<1>4. ASSUME NEW t \in Nodes \union DOMAIN command, TypesKept(t),
             (t \in DOMAIN command /\ CommandAction(t)) \/ TaskAction(t)
             \/ (t \in Nodes /\ (Republish(t) \/ Finish(t) \/ Restart(t)))
      PROVE  CountsOK'
  <2>1. t \in Tasks
    BY TaskFacts
  <2>2. CountOK(t)'
    BY <1>1, <1>2, <1>3, <1>4, <2>1, CountCases, CountCalled
  <2>3. \A u \in Tasks \ {t} : CountOK(u)'
    BY <1>1, <1>4 DEF TypesKept, OthersKeep, CountOK
  <2> QED
    BY <2>2, <2>3 DEF CountsOK, CountOK
<1>5. CASE UNCHANGED <<pc, todo, acks>>
  BY <1>5 DEF CountsOK
<1>6. UNCHANGED vars \/ (\E m \in late : Deliver(m)) => UNCHANGED <<pc, todo, acks>>
  BY DEF vars, Deliver, local
<1>7. CASE Next /\ ~UNCHANGED vars
  BY <1>4, <1>5, <1>6, <1>7, NextCases, FlushFrame, ActionTypes
<1> QED
  BY <1>5, <1>6, <1>7

LEMMA CountsHold == Spec => []CountsOK
<1>1. Init => CountsOK
  BY TasksAssumption, FS_CardinalityType, SMTT(60) DEF Init, CountsOK
<1>2. TypeInv /\ CountsOK /\ [Next]_vars => CountsOK'
  BY CountStep
<1> QED
  BY <1>1, <1>2, TypesHold, PTL DEF Spec

\* What tasks and nodes hold: a pointer is never kept among the blobs, and no task calls more
\* nodes than there are, however calls, restarts and commands interleave.
THEOREM TypeCorrect == Spec => []TypeOK
<1>1. TypeInv /\ CountsOK => TypeOK
  <2> SUFFICES ASSUME TypeInv, CountsOK PROVE TypeOK
    OBVIOUS
  <2>1. \A n \in Nodes : pc[n] \in {"idle", "walk", "turn", "store"}
    BY TaskFacts DEF TypeInv, TaskOK
  <2>2. \A t \in Tasks : pc[t] = "store" => cur[t] # None
    BY NoneAssumption DEF TypeInv, TaskOK, Values, Stored
  <2>3. \A n \in Nodes : \A v \in values[n] : v.type \in {"blob", "record"}
    BY SMTT(60) DEF TypeInv, SharedTypes, Stored
  <2>4. \A t \in Tasks : /\ best[t] \in Histories /\ left[t] \in Histories
                         /\ todo[t] \subseteq Nodes /\ acks[t] <= Cardinality(Nodes)
    BY DEF TypeInv, LocalTypes, CountsOK
  <2> QED
    BY <2>1, <2>2, <2>3, <2>4 DEF TypeInv, TypeOK, SharedTypes, LocalTypes
<1> QED
  BY <1>1, TypesHold, CountsHold, PTL

\* Every reachable state satisfies the inductive invariant: what tasks, files and nodes hold, and
\* how the pointers in play relate, is right between any two steps of publish_package, install,
\* the store handlers and republish_values, for every set of nodes, shells and histories.
THEOREM RegistryInvariant == Spec => []IndInv
  BY TypesHold, CountsHold, PublishersHold, FilesHold, WholeHolds, FoundHolds, LinearHolds, PTL DEF IndInv
=============================================================================
