-------------------------- MODULE MembershipProofs --------------------------
(***************************************************************************)
(* Membership for any set of nodes, whoever crashes and restarts, and      *)
(* however many calls are lost or arrive late: a node that has joined is   *)
(* never left without contacts.                                            *)
(***************************************************************************)
EXTENDS Membership, FiniteSetTheorems, TLAPS

Lives == {"off", "pinging", "joining", "running", "taken"}
Looks == [on : BOOLEAN, target : Ids, candidates : SUBSET Nodes, queried : SUBSET Nodes, bucket : Nat, last : Nat]
Rounds == [on : BOOLEAN, left : SUBSET Nodes, done : SUBSET Nodes, dead : SUBSET Nodes]
Requests == [from : Nodes, to : Nodes, state : {"sent", "served"}, answer : SUBSET Nodes]

\* forget never empties a table.
LEMMA ForgetFacts ==
    ASSUME NEW S, S \subseteq Nodes, NEW dead, NEW R \in forget(S, dead)
    PROVE  R \subseteq S /\ (S # {} => R # {})
<1>1. R \subseteq S /\ (R = S \/ Cardinality(R) >= K)
  BY SizeAssumption DEF forget
<1>2. Cardinality({}) = 0
  BY FS_EmptySet, Zenon
<1>3. Cardinality(R) >= K => R # {}
  BY <1>2, SizeAssumption
<1> QED  BY <1>1, <1>3, Zenon

\* dispatch only adds to the table of a node that runs, and never the node itself.
LEMMA ServedFacts ==
    ASSUME TypeOK, NEW n \in Nodes, NEW m \in Nodes, ~gone(m)
    PROVE  /\ served(n, m) \in [Nodes -> SUBSET Nodes]
           /\ \A k \in Nodes : /\ k \notin served(n, m)[k] /\ table[k] \subseteq served(n, m)[k]
                               /\ gone(k) => served(n, m)[k] = table[k]
BY Zenon DEF TypeOK, served, learn

LEMMA ZeroIsId ==
    ASSUME NEW n \in Nodes
    PROVE  0 \in Ids
BY IdAssumption DEF Ids

LEMMA NearestSubset == \A S, t, n : nearest(S, t, n) \subseteq S
BY Zenon DEF nearest

\* close_nodes answers with contacts.
LEMMA AnswersAreContacts ==
    ASSUME NEW n \in Nodes, NEW S \in SUBSET Nodes, NEW t \in Ids, NEW C \in close_nodes[n, S, t]
    PROVE  C \subseteq Nodes
<1> DEFINE bucket(x) == leading_zeros(xor_distance(x, n))
           near(w) == {x \in S : bucket(x) \in bucket(t) - w .. bucket(t) + w}
           width == CHOOSE w \in 0 .. IdBits : /\ w = IdBits \/ Cardinality(near(w)) >= K
                                               /\ \A v \in 0 .. w - 1 : Cardinality(near(v)) < K
           best == nearest(near(width), t, K)
<1>1. PICK siblings \in {R \in SUBSET S : Cardinality(R) <= K} : C = nearest(best \union siblings, t, K)
  <2>1. <<n, S, t>> \in Nodes \X (SUBSET Nodes) \X Ids
    BY Zenon
  <2>2. close_nodes[<<n, S, t>>] = answers(n, S, t)
    BY <2>1, Zenon DEF close_nodes
  <2> QED  BY <2>2, Zenon DEF answers
<1>2. near(width) \subseteq S
  BY Zenon
<1> HIDE DEF width, near
<1>3. best \subseteq S
  BY <1>2, NearestSubset, Zenon
<1> QED  BY <1>1, <1>3, NearestSubset, Zenon

\* A step in which nobody starts or stops, and no table is emptied.
LEMMA KeptInv ==
    ASSUME IndInv, UNCHANGED <<life, seed, seeds>>,
           table' \in [Nodes -> SUBSET Nodes],
           \A n \in Nodes : /\ n \notin table'[n] /\ (table[n] # {} => table'[n] # {})
                            /\ gone(n) => table'[n] = {},
           look' \in [Nodes -> Looks], \A n \in Nodes : look'[n].on => life[n] \in {"joining", "running"},
           round' \in [Nodes -> Rounds], \A n \in Nodes : round'[n].on => ~gone(n),
           calls' \subseteq Requests, \A c \in calls' : ~gone(c.from),
           late' \subseteq Nodes \X Nodes
    PROVE  IndInv'
<1>1. TypeOK'
  BY Zenon DEF IndInv, TypeOK, Looks, Rounds, Requests, gone
<1>2. NeverIsolatedJoining'
  BY Zenon DEF IndInv, NeverIsolatedJoining
<1> QED  BY <1>1, <1>2, Zenon DEF IndInv

\* What TypeOK says of the parts a step leaves alone, in the form KeptInv asks for.
LEMMA Parts ==
    ASSUME IndInv
    PROVE  /\ TypeOK /\ table \in [Nodes -> SUBSET Nodes] /\ look \in [Nodes -> Looks] /\ round \in [Nodes -> Rounds]
           /\ calls \subseteq Requests /\ late \subseteq Nodes \X Nodes
           /\ \A n \in Nodes : n \notin table[n] /\ (gone(n) => table[n] = {})
           /\ \A n \in Nodes : look[n].on => life[n] \in {"joining", "running"}
           /\ \A n \in Nodes : round[n].on => ~gone(n)
           /\ \A c \in calls : ~gone(c.from)
<1>1. TypeOK
  BY Zenon DEF IndInv
<1>2. table \in [Nodes -> SUBSET Nodes] /\ look \in [Nodes -> Looks] /\ round \in [Nodes -> Rounds]
  BY <1>1, Zenon DEF TypeOK, Looks, Rounds
<1>3. calls \subseteq Requests /\ late \subseteq Nodes \X Nodes /\ \A c \in calls : ~gone(c.from)
  BY <1>1, Zenon DEF TypeOK, Requests
<1>4. /\ \A n \in Nodes : n \notin table[n] /\ (gone(n) => table[n] = {})
      /\ \A n \in Nodes : look[n].on => life[n] \in {"joining", "running"}
      /\ \A n \in Nodes : round[n].on => ~gone(n)
  BY <1>1, Zenon DEF TypeOK
<1> QED  BY <1>1, <1>2, <1>3, <1>4, Zenon

LEMMA InitInv == Init => IndInv
<1> SUFFICES ASSUME Init
             PROVE  IndInv
  BY Zenon
<1>1. PICK s \in Scenarios :
        /\ life = [n \in Nodes |-> IF n \in s.running THEN "running" ELSE "off"]
        /\ table = s.knows /\ seeds = s.seeds
  BY Zenon DEF Init
<1>2. /\ seed = [n \in Nodes |-> None] /\ look = [n \in Nodes |-> idle] /\ round = [n \in Nodes |-> asleep]
      /\ calls = {} /\ late = {}
  BY Zenon DEF Init
<1>3. asleep \in Rounds /\ ~idle.on /\ ~asleep.on /\ \A n \in Nodes : idle \in Looks
  BY ZeroIsId DEF idle, asleep, Looks, Rounds
<1>4. /\ table \in [Nodes -> SUBSET Nodes] /\ seeds \in [Nodes -> SUBSET (Nodes \union {None})]
      /\ \A n \in Nodes : n \notin table[n] /\ (gone(n) => table[n] = {})
  BY <1>1, ScenarioAssumption, Zenon DEF gone
<1>5. life \in [Nodes -> Lives] /\ \A n \in Nodes : life[n] # "pinging"
  BY <1>1, Zenon DEF Lives
<1>6. TypeOK
  BY <1>2, <1>3, <1>4, <1>5, Zenon DEF TypeOK, Looks, Rounds, Lives
<1>7. NeverIsolatedJoining
  BY <1>2, Zenon DEF NeverIsolatedJoining
<1> QED  BY <1>6, <1>7, Zenon DEF IndInv
-----------------------------------------------------------------------------
(* Requests and lookups *)

LEMMA ServeLateInv ==
    ASSUME IndInv, NEW r \in late, ServeLate(r)
    PROVE  IndInv'
<1>1. /\ late' = late \ {r} /\ UNCHANGED <<life, seed, seeds, look, round, calls>>
      /\ table' = IF gone(r[2]) THEN table ELSE served(r[1], r[2])
  BY Zenon DEF ServeLate, fixed
<1>2. r[1] \in Nodes /\ r[2] \in Nodes
  BY Parts, Zenon
<1>3. /\ table' \in [Nodes -> SUBSET Nodes]
      /\ \A n \in Nodes : /\ n \notin table'[n] /\ (table[n] # {} => table'[n] # {})
                          /\ gone(n) => table'[n] = {}
  BY <1>1, <1>2, Parts, ServedFacts
<1> QED  BY <1>1, <1>3, Parts, KeptInv, Zenon

\* A lookup begins with contacts from the table.
LEMMA LookupIsLook ==
    ASSUME NEW n \in Nodes, NEW S \in SUBSET Nodes, NEW target \in Ids, NEW begun \in lookup(n, S, target)
    PROVE  /\ begun \in Looks
           /\ \A b \in Nat, l \in Nat : [begun EXCEPT !.bucket = b, !.last = l] \in Looks
<1>1. PICK C \in close_nodes[n, S, target] :
        begun = [idle EXCEPT !.on = TRUE, !.target = target, !.candidates = C]
  BY Zenon DEF lookup
<1>2. C \subseteq Nodes
  BY AnswersAreContacts, Zenon
<1> QED  BY <1>1, <1>2, Zenon DEF idle, Looks

LEMMA LookupInv ==
    ASSUME IndInv, NEW n \in Nodes, Lookup(n)
    PROVE  IndInv'
<1>0. PICK target \in Nodes : \E begun \in lookup(n, table[n], target) : look' = [look EXCEPT ![n] = begun]
  BY Zenon DEF Lookup
<1>1. PICK begun \in lookup(n, table[n], target) : look' = [look EXCEPT ![n] = begun]
  BY <1>0, Zenon
<1>2. life[n] = "running" /\ UNCHANGED <<life, table, seed, seeds, round, calls, late>>
  BY Zenon DEF Lookup, fixed
<1>3. target \in Ids /\ table[n] \in SUBSET Nodes
  BY Parts, IdAssumption, Zenon
<1>4. look' \in [Nodes -> Looks] /\ \A m \in Nodes : look'[m].on => life[m] \in {"joining", "running"}
  <2>1. begun \in Looks
    BY <1>3, LookupIsLook, Zenon
  <2> QED  BY <1>1, <1>2, <2>1, Parts, Zenon
<1> QED  BY <1>2, <1>4, Parts, KeptInv, Zenon

\* A PING that is answered: both sides learn each other.
pinged(n, m) == [served(n, m) EXCEPT ![n] = learn(n, {m})]

LEMMA PingedFacts ==
    ASSUME IndInv, NEW n \in Nodes, NEW m \in Nodes, ~gone(n), ~gone(m)
    PROVE  /\ pinged(n, m) \in [Nodes -> SUBSET Nodes] /\ (m # n => m \in pinged(n, m)[n])
           /\ \A k \in Nodes : /\ k \notin pinged(n, m)[k] /\ table[k] \subseteq pinged(n, m)[k]
                               /\ gone(k) => pinged(n, m)[k] = table[k]
<1> DEFINE T == served(n, m)
           new == table[n] \union ({m} \ {n})
           U == pinged(n, m)
<1>1. /\ T \in [Nodes -> SUBSET Nodes]
      /\ \A k \in Nodes : k \notin T[k] /\ table[k] \subseteq T[k] /\ (gone(k) => T[k] = table[k])
  BY Parts, ServedFacts, Zenon
<1>2. U = [T EXCEPT ![n] = new]
  BY Zenon DEF pinged, learn
<1>3. new \in SUBSET Nodes /\ n \notin new /\ table[n] \subseteq new /\ (m # n => m \in new)
  BY Parts, Zenon
<1> HIDE DEF T, new, U
<1>4. U \in [Nodes -> SUBSET Nodes] /\ U[n] = new /\ \A k \in Nodes : k # n => U[k] = T[k]
  BY <1>1, <1>2, <1>3, Zenon
<1>5. /\ U \in [Nodes -> SUBSET Nodes] /\ (m # n => m \in U[n])
      /\ \A k \in Nodes : k \notin U[k] /\ table[k] \subseteq U[k] /\ (gone(k) => U[k] = table[k])
  BY <1>1, <1>3, <1>4, Zenon
<1> QED  BY <1>5, Zenon DEF U

LEMMA PingCommandInv ==
    ASSUME IndInv, NEW n \in Nodes, NEW m \in Nodes, PingCommand(n, m)
    PROVE  IndInv'
<1>1. /\ life[n] = "running" /\ ~gone(m) /\ UNCHANGED <<life, seed, seeds, look, round, calls, late>>
      /\ table' = pinged(n, m)
  BY Zenon DEF PingCommand, fixed, pinged
<1>2. /\ table' \in [Nodes -> SUBSET Nodes]
      /\ \A k \in Nodes : k \notin table'[k] /\ table[k] \subseteq table'[k] /\ (gone(k) => table'[k] = table[k])
  <2>1. ~gone(n)
    BY <1>1 DEF gone
  <2> QED  BY <1>1, <2>1, PingedFacts
<1> QED  BY <1>1, <1>2, Parts, KeptInv, Zenon

LEMMA ProbeInv ==
    ASSUME IndInv, NEW n \in Nodes, Probe(n)
    PROVE  IndInv'
<1>1. PICK m \in nearest(unqueried(n), look[n].target, 1) :
        /\ look' = [look EXCEPT ![n].queried = @ \union {m}]
        /\ calls' = calls \union {[from |-> n, to |-> m, state |-> "sent", answer |-> {}]}
  BY Zenon DEF Probe
<1>2. look[n].on /\ UNCHANGED <<life, table, seed, seeds, round, late>>
  BY Zenon DEF Probe, fixed
<1>3. m \in Nodes
  BY NearestSubset, Parts, Zenon DEF unqueried, Looks
<1>4. look' \in [Nodes -> Looks] /\ \A k \in Nodes : look'[k].on => life[k] \in {"joining", "running"}
  BY <1>1, <1>2, <1>3, Parts, SMTT(30) DEF Looks
<1>5. calls' \subseteq Requests
  BY <1>1, <1>3, Parts DEF Requests
<1>6. \A c \in calls' : ~gone(c.from)
  <2>1. ~gone(n)
    BY <1>2, Parts, Zenon DEF gone
  <2> QED  BY <1>1, <2>1, Parts
<1> QED  BY <1>2, <1>4, <1>5, <1>6, Parts, KeptInv, Zenon

LEMMA ServeInv ==
    ASSUME IndInv, NEW c \in calls, Serve(c)
    PROVE  IndInv'
<1>1. PICK answer \in close_nodes[c.to, table'[c.to], look[c.from].target] :
        calls' = (calls \ {c}) \union {[c EXCEPT !.state = "served", !.answer = answer]}
  BY Zenon DEF Serve
<1>2. ~gone(c.to) /\ table' = served(c.from, c.to) /\ UNCHANGED <<life, seed, seeds, look, round, late>>
  BY Zenon DEF Serve, fixed
<1>3. c \in Requests /\ c.from \in Nodes /\ c.to \in Nodes /\ ~gone(c.from)
  BY Parts, Zenon DEF Requests
<1>4. /\ table' \in [Nodes -> SUBSET Nodes]
      /\ \A k \in Nodes : /\ k \notin table'[k] /\ table[k] \subseteq table'[k]
                          /\ gone(k) => table'[k] = table[k]
  BY <1>2, <1>3, Parts, ServedFacts, Zenon
<1>5. answer \subseteq Nodes
  <2>1. look[c.from].target \in Ids /\ table'[c.to] \in SUBSET Nodes
    BY <1>3, <1>4, Parts, Zenon DEF Looks
  <2> QED  BY <1>3, <2>1, AnswersAreContacts, Zenon
<1>6. /\ [c EXCEPT !.state = "served", !.answer = answer] \in Requests
      /\ [c EXCEPT !.state = "served", !.answer = answer].from = c.from
  BY <1>3, <1>5, Zenon DEF Requests
<1>7. calls' \subseteq Requests /\ \A d \in calls' : ~gone(d.from)
  BY <1>1, <1>3, <1>6, Parts, Zenon
<1> QED  BY <1>2, <1>4, <1>7, Parts, KeptInv, Zenon

LEMMA ServeTakenInv ==
    ASSUME IndInv, NEW c \in calls, ServeTaken(c)
    PROVE  IndInv'
<1>1. /\ calls' = (calls \ {c}) \union {[c EXCEPT !.state = "served"]}
      /\ UNCHANGED <<life, table, seed, seeds, look, round, late>>
  BY Zenon DEF ServeTaken, fixed
<1>2. c \in Requests /\ ~gone(c.from)
  BY Parts, Zenon
<1>3. [c EXCEPT !.state = "served"] \in Requests /\ [c EXCEPT !.state = "served"].from = c.from
  BY <1>2, Zenon DEF Requests
<1>4. calls' \subseteq Requests /\ \A d \in calls' : ~gone(d.from)
  BY <1>1, <1>2, <1>3, Parts, Zenon
<1> QED  BY <1>1, <1>4, Parts, KeptInv, Zenon

LEMMA NodeReplyInv ==
    ASSUME IndInv, NEW c \in calls, NodeReply(c)
    PROVE  IndInv'
<1>1. /\ calls' = calls \ {c} /\ UNCHANGED <<life, seed, seeds, round, late>>
      /\ table' = [table EXCEPT ![c.from] = learn(c.from, c.answer)]
      /\ look' = [look EXCEPT ![c.from].candidates = nearest(@ \union (c.answer \ {c.from}), look[c.from].target, K)]
  BY Zenon DEF NodeReply, fixed
<1>2. c.from \in Nodes /\ ~gone(c.from) /\ c.answer \subseteq Nodes
  BY Parts, Zenon DEF Requests
<1>3. /\ table' \in [Nodes -> SUBSET Nodes]
      /\ \A k \in Nodes : /\ k \notin table'[k] /\ table[k] \subseteq table'[k]
                          /\ gone(k) => table'[k] = table[k]
  BY <1>1, <1>2, Parts, Zenon DEF learn
<1> DEFINE C == nearest(look[c.from].candidates \union (c.answer \ {c.from}), look[c.from].target, K)
<1>4. look[c.from] \in Looks /\ C \subseteq Nodes
  <2>1. look[c.from] \in Looks /\ look[c.from].candidates \subseteq Nodes
    BY <1>2, Parts, Zenon DEF Looks
  <2> QED  BY <1>2, <2>1, NearestSubset, Zenon
<1>5. look' = [look EXCEPT ![c.from].candidates = C]
  BY <1>1, <1>2, Parts, Zenon DEF Looks
<1> HIDE DEF C
<1>6. look' \in [Nodes -> Looks] /\ \A k \in Nodes : look'[k].on => life[k] \in {"joining", "running"}
  BY <1>2, <1>4, <1>5, Parts, Zenon DEF Looks
<1> QED  BY <1>1, <1>3, <1>6, Parts, KeptInv, Zenon

LEMMA NodeFailsInv ==
    ASSUME IndInv, NEW c \in calls, NodeFails(c)
    PROVE  IndInv'
<1>1. PICK T \in forget(table[c.from], {c.to}) : table' = [table EXCEPT ![c.from] = T]
  BY Zenon DEF NodeFails
<1>2. /\ calls' = calls \ {c} /\ UNCHANGED <<life, seed, seeds, look, round>>
      /\ late' \in {late, late \union {<<c.from, c.to>>}}
  BY Zenon DEF NodeFails, fixed
<1>3. c.from \in Nodes /\ c.to \in Nodes /\ ~gone(c.from) /\ table[c.from] \subseteq Nodes
  BY Parts, Zenon DEF Requests
<1>4. T \subseteq table[c.from] /\ (table[c.from] # {} => T # {})
  BY <1>3, ForgetFacts
<1>5. /\ table' \in [Nodes -> SUBSET Nodes]
      /\ \A k \in Nodes : /\ k \notin table'[k] /\ (table[k] # {} => table'[k] # {})
                          /\ gone(k) => table'[k] = {}
  BY <1>1, <1>3, <1>4, Parts, Zenon
<1>6. late' \subseteq Nodes \X Nodes
  BY <1>2, <1>3, Parts
<1> QED  BY <1>2, <1>5, <1>6, Parts, KeptInv, Zenon
-----------------------------------------------------------------------------
(* check_liveness *)

LEMMA NextFacts ==
    ASSUME IndInv, NEW n \in Nodes
    PROVE  next(n) \subseteq Nodes /\ round[n] \in Rounds
BY Parts, NearestSubset, Zenon DEF next

LEMMA RoundStepInv ==
    ASSUME IndInv, NEW n \in Nodes, RoundStep(n)
    PROVE  IndInv'
<1>0. /\ UNCHANGED <<life, seed, seeds, look, calls>> /\ next(n) \subseteq Nodes /\ round[n] \in Rounds
      /\ table[n] \subseteq Nodes /\ n \notin table[n]
  BY NextFacts, Parts, Zenon DEF RoundStep, BeginRound, Ping, PingTaken, PingFails, EndRound, fixed, no_answer
<1>1. CASE BeginRound(n)
  <2>1. /\ life[n] = "running" /\ UNCHANGED <<table, late>>
        /\ round' = [round EXCEPT ![n] = [asleep EXCEPT !.on = TRUE, !.left = table[n]]]
    BY <1>1, Zenon DEF BeginRound
  <2>2. [asleep EXCEPT !.on = TRUE, !.left = table[n]] \in Rounds
    BY <1>0, Zenon DEF asleep, Rounds
  <2>3. round' \in [Nodes -> Rounds] /\ \A k \in Nodes : round'[k].on => ~gone(k)
    BY <2>1, <2>2, Parts, Zenon DEF gone
  <2> QED  BY <1>0, <2>1, <2>3, Parts, KeptInv, Zenon
<1>2. CASE Ping(n)
  <2>1. PICK m \in next(n) :
          ~gone(m) /\ table' = served(n, m) /\ round' = [round EXCEPT ![n].done = @ \union {m}]
    BY <1>2, Zenon DEF Ping
  <2>2. round[n].on /\ late' = late
    BY <1>2, Zenon DEF Ping
  <2>3. round' \in [Nodes -> Rounds] /\ \A k \in Nodes : round'[k].on => ~gone(k)
    BY <1>0, <2>1, Parts, Zenon DEF Rounds
  <2>4. m \in Nodes
    BY <1>0, Zenon
  <2>5. /\ table' \in [Nodes -> SUBSET Nodes]
        /\ \A k \in Nodes : /\ k \notin table'[k] /\ table[k] \subseteq table'[k]
                            /\ gone(k) => table'[k] = table[k]
    BY <2>1, <2>4, Parts, ServedFacts
  <2> QED  BY <1>0, <2>2, <2>3, <2>5, Parts, KeptInv, Zenon
<1>3. CASE PingTaken(n) \/ PingFails(n)
  <2>1. PICK m \in next(n) :
          /\ late' \in {late, late \union {<<n, m>>}}
          /\ round' = [round EXCEPT ![n].done = @ \union {m}, ![n].dead = @ \union {m}]
    BY <1>3, Zenon DEF PingTaken, PingFails
  <2>2. UNCHANGED table
    BY <1>3, Zenon DEF PingTaken, PingFails
  <2>3. round' \in [Nodes -> Rounds] /\ \A k \in Nodes : round'[k].on => ~gone(k)
    <3>1. [round[n] EXCEPT !.done = @ \union {m}, !.dead = @ \union {m}] \in Rounds
      BY <1>0, <2>1, Zenon DEF Rounds
    <3>2. [round[n] EXCEPT !.done = @ \union {m}, !.dead = @ \union {m}].on = round[n].on
      BY <1>0, Zenon DEF Rounds
    <3>3. round' = [round EXCEPT ![n] = [round[n] EXCEPT !.done = @ \union {m}, !.dead = @ \union {m}]]
      BY <1>0, <2>1, Parts, Zenon DEF Rounds
    <3> QED  BY <3>1, <3>2, <3>3, Parts, Zenon
  <2>4. late' \subseteq Nodes \X Nodes
    BY <1>0, <2>1, Parts
  <2> QED  BY <1>0, <2>2, <2>3, <2>4, Parts, KeptInv, Zenon
<1>4. CASE EndRound(n)
  <2>1. PICK T \in forget(table[n], round[n].dead) : table' = [table EXCEPT ![n] = T]
    BY <1>4, Zenon DEF EndRound
  <2>2. round[n].on /\ round' = [round EXCEPT ![n] = asleep] /\ late' = late
    BY <1>4, Zenon DEF EndRound
  <2>3. asleep \in Rounds /\ ~asleep.on
    BY Zenon DEF asleep, Rounds
  <2>4. round' \in [Nodes -> Rounds] /\ \A k \in Nodes : round'[k].on => ~gone(k)
    BY <2>2, <2>3, Parts, Zenon
  <2>5. T \subseteq table[n] /\ (table[n] # {} => T # {})
    BY <1>0, ForgetFacts
  <2>6. /\ table' \in [Nodes -> SUBSET Nodes]
        /\ \A k \in Nodes : /\ k \notin table'[k] /\ (table[k] # {} => table'[k] # {})
                            /\ gone(k) => table'[k] = {}
    BY <2>1, <2>5, Parts, Zenon
  <2> QED  BY <1>0, <2>2, <2>4, <2>6, Parts, KeptInv, Zenon
<1> QED  BY <1>1, <1>2, <1>3, <1>4, Zenon DEF RoundStep
-----------------------------------------------------------------------------
(* main and bootstrap *)

LEMMA StartInv ==
    ASSUME IndInv, NEW n \in Nodes, Start(n)
    PROVE  IndInv'
<1>1. PICK s \in seeds[n] : /\ seed' = [seed EXCEPT ![n] = s]
                            /\ life' = [life EXCEPT ![n] = IF s = None THEN "running" ELSE "pinging"]
  BY Zenon DEF Start
<1>2. life[n] = "off" /\ UNCHANGED <<table, seeds, look, round, calls, late>>
  BY Zenon DEF Start, fixed
<1>3. s \in Nodes \union {None}
  BY Zenon DEF IndInv, TypeOK
<1>4. /\ life' \in [Nodes -> Lives] /\ seed' \in [Nodes -> Nodes \union {None}]
      /\ life'[n] \in {"running", "pinging"} /\ (life'[n] = "running" <=> seed'[n] = None)
      /\ \A k \in Nodes \ {n} : life'[k] = life[k] /\ seed'[k] = seed[k]
  BY <1>1, <1>3, Zenon DEF IndInv, TypeOK, Lives
<1>5. TypeOK'
  <2>1. \A c \in calls : c.from \in Nodes
    BY Zenon DEF IndInv, TypeOK
  <2>2. \A c \in calls : ~gone(c.from)'
    BY <1>2, <1>4, <2>1, Parts DEF gone
  <2>3. \A k \in Nodes : look[k].on => life'[k] \in {"joining", "running"}
    BY <1>2, <1>4, Parts, Zenon
  <2>4. \A k \in Nodes : life'[k] = "pinging" => seed'[k] # None
    BY <1>4, Zenon DEF IndInv, TypeOK
  <2>5. \A k \in Nodes : gone(k)' => table[k] = {} /\ ~look[k].on /\ ~round[k].on
    BY <1>4, Zenon DEF IndInv, TypeOK, gone
  <2> QED  BY <1>2, <1>4, <2>2, <2>3, <2>4, <2>5, Zenon DEF IndInv, TypeOK, Lives
<1>6. NeverIsolatedJoining'
  BY <1>2, <1>4, Zenon DEF IndInv, NeverIsolatedJoining
<1> QED  BY <1>5, <1>6, Zenon DEF IndInv

LEMMA TakeInv ==
    ASSUME IndInv, NEW n \in Nodes, Take(n)
    PROVE  IndInv'
<1>1. /\ life[n] = "off" /\ life' = [life EXCEPT ![n] = "taken"]
      /\ UNCHANGED <<table, seed, seeds, look, round, calls, late>>
  BY Zenon DEF Take, fixed
<1>2. /\ life' \in [Nodes -> Lives] /\ life'[n] = "taken" /\ \A k \in Nodes \ {n} : life'[k] = life[k]
  BY <1>1, Zenon DEF IndInv, TypeOK, Lives
<1>3. \A k \in Nodes : /\ (gone(k)' <=> gone(k)) /\ (life'[k] = "pinging" <=> life[k] = "pinging")
                       /\ (life'[k] \in {"joining", "running"} <=> life[k] \in {"joining", "running"})
  BY <1>1, <1>2 DEF gone
<1>4. TypeOK'
  <2>1. \A c \in calls' : ~gone(c.from)'
    BY <1>1, <1>3, Parts, Zenon DEF Requests
  <2>2. \A k \in Nodes : /\ (gone(k)' => table'[k] = {} /\ ~look'[k].on /\ ~round'[k].on)
                        /\ (look'[k].on => life'[k] \in {"joining", "running"})
                        /\ (life'[k] = "pinging" => seed'[k] # None)
    BY <1>1, <1>3, Zenon DEF IndInv, TypeOK
  <2> QED  BY <1>1, <1>2, <2>1, <2>2, Zenon DEF IndInv, TypeOK, Lives
<1>5. NeverIsolatedJoining'
  BY <1>1, <1>3, Zenon DEF IndInv, NeverIsolatedJoining
<1> QED  BY <1>4, <1>5, Zenon DEF IndInv

\* A process that ends takes its table and its calls with it.
LEMMA StopInv ==
    ASSUME IndInv, NEW n \in Nodes, stop(n), UNCHANGED seeds, late' \subseteq Nodes \X Nodes
    PROVE  IndInv'
<1>1. /\ life' = [life EXCEPT ![n] = "off"] /\ table' = [table EXCEPT ![n] = {}] /\ seed' = [seed EXCEPT ![n] = None]
      /\ look' = [look EXCEPT ![n] = idle] /\ round' = [round EXCEPT ![n] = asleep]
      /\ calls' = {c \in calls : c.from # n}
  BY Zenon DEF stop, under_way
<1>2. idle \in Looks /\ asleep \in Rounds /\ ~idle.on /\ ~asleep.on
  BY ZeroIsId DEF idle, asleep, Looks, Rounds
<1>3. /\ life' \in [Nodes -> Lives] /\ seed' \in [Nodes -> Nodes \union {None}]
      /\ table' \in [Nodes -> SUBSET Nodes]
      /\ life'[n] = "off" /\ table'[n] = {}
      /\ \A k \in Nodes \ {n} : life'[k] = life[k] /\ seed'[k] = seed[k] /\ table'[k] = table[k]
  BY <1>1, Zenon DEF IndInv, TypeOK, Lives
<1>4. /\ look' \in [Nodes -> Looks] /\ round' \in [Nodes -> Rounds] /\ ~look'[n].on /\ ~round'[n].on
      /\ \A k \in Nodes \ {n} : look'[k] = look[k] /\ round'[k] = round[k]
  BY <1>1, <1>2, Parts, Zenon
<1>5. calls' \subseteq Requests /\ \A c \in calls' : ~gone(c.from)'
  <2>1. \A c \in calls : c.from \in Nodes
    BY Parts, Zenon DEF Requests
  <2> QED  BY <1>1, <1>3, <2>1, Parts, Zenon DEF gone
<1>6. TypeOK'
  <2>1. \A k \in Nodes : /\ k \notin table'[k] /\ (gone(k)' => table'[k] = {} /\ ~look'[k].on /\ ~round'[k].on)
                        /\ (look'[k].on => life'[k] \in {"joining", "running"})
                        /\ (life'[k] = "pinging" => seed'[k] # None)
    <3>1. \A k \in Nodes : /\ k \notin table[k] /\ (gone(k) => table[k] = {} /\ ~look[k].on /\ ~round[k].on)
                          /\ (look[k].on => life[k] \in {"joining", "running"})
                          /\ (life[k] = "pinging" => seed[k] # None)
      BY Zenon DEF IndInv, TypeOK
    <3> QED  BY <1>3, <1>4, <3>1, Zenon DEF gone
  <2> QED  BY <1>3, <1>4, <1>5, <2>1, Zenon DEF IndInv, TypeOK, Looks, Rounds, Requests, Lives
<1>7. NeverIsolatedJoining'
  BY <1>3, Zenon DEF IndInv, NeverIsolatedJoining
<1> QED  BY <1>6, <1>7, Zenon DEF IndInv

LEMMA CrashInv ==
    ASSUME IndInv, NEW n \in Nodes, Crash(n)
    PROVE  IndInv'
<1>1. \A c \in under_way(n) : c.to \in Nodes
  BY Parts, Zenon DEF under_way, Requests
<1>2. late' \subseteq Nodes \X Nodes
  BY <1>1, Parts DEF Crash
<1> QED  BY <1>2, StopInv, Zenon DEF Crash, fixed

LEMMA SeedReplyInv ==
    ASSUME IndInv, NEW n \in Nodes, SeedReply(n)
    PROVE  IndInv'
<1>1. /\ life[n] = "pinging" /\ seed[n] # n /\ ~gone(seed[n]) /\ life' = [life EXCEPT ![n] = "joining"]
      /\ table' = pinged(n, seed[n])
      /\ UNCHANGED <<seed, seeds, round, calls, late>>
  BY Zenon DEF SeedReply, fixed, pinged
<1>b. PICK begun \in lookup(n, table'[n], n) : look' = [look EXCEPT ![n] = begun]
  BY Zenon DEF SeedReply
<1>2. seed[n] \in Nodes
  BY <1>1, Zenon DEF IndInv, TypeOK
<1>3. /\ table' \in [Nodes -> SUBSET Nodes] /\ seed[n] \in table'[n]
      /\ \A k \in Nodes : k \notin table'[k] /\ table[k] \subseteq table'[k] /\ (gone(k) => table'[k] = table[k])
  <2>1. ~gone(n)
    BY <1>1 DEF gone
  <2> QED  BY <1>1, <1>2, <2>1, PingedFacts
<1>4. begun \in Looks
  <2>1. n \in Ids
    BY IdAssumption, Zenon
  <2>2. table'[n] \in SUBSET Nodes
    BY <1>3, Zenon
  <2> QED  BY <2>1, <2>2, LookupIsLook, Zenon
<1>5. /\ life' \in [Nodes -> Lives] /\ life'[n] = "joining"
      /\ \A k \in Nodes \ {n} : life'[k] = life[k]
  BY <1>1, Zenon DEF IndInv, TypeOK, Lives
<1>6. look' \in [Nodes -> Looks] /\ \A k \in Nodes \ {n} : look'[k] = look[k]
  BY <1>b, <1>4, Parts, Zenon
<1>7. TypeOK'
  <2>1. \A k \in Nodes : /\ k \notin table'[k] /\ (gone(k)' => table'[k] = {} /\ ~look'[k].on /\ ~round'[k].on)
                        /\ (look'[k].on => life'[k] \in {"joining", "running"})
                        /\ (life'[k] = "pinging" => seed'[k] # None)
    <3> SUFFICES ASSUME NEW k \in Nodes
                 PROVE  /\ k \notin table'[k] /\ (gone(k)' => table'[k] = {} /\ ~look'[k].on /\ ~round'[k].on)
                        /\ (look'[k].on => life'[k] \in {"joining", "running"})
                        /\ (life'[k] = "pinging" => seed'[k] # None)
      BY Zenon
    <3>1. CASE k = n
      BY <1>3, <1>5, <3>1, Zenon DEF gone
    <3>2. CASE k # n
      <4>1. life'[k] = life[k] /\ look'[k] = look[k] /\ round' = round /\ seed' = seed
        BY <1>1, <1>5, <1>6, <3>2, Zenon
      <4>2. (gone(k) => ~look[k].on) /\ (life[k] = "pinging" => seed[k] # None)
        BY Zenon DEF IndInv, TypeOK
      <4> QED  BY <1>3, <4>1, <4>2, Parts, Zenon DEF gone
    <3> QED  BY <3>1, <3>2, Zenon
  <2>2. \A c \in calls' : ~gone(c.from)'
    BY <1>1, <1>5, Parts, Zenon DEF Requests, gone
  <2> QED  BY <1>1, <1>3, <1>5, <1>6, <2>1, <2>2, Zenon DEF IndInv, TypeOK, Looks, Lives
<1>8. NeverIsolatedJoining'
  BY <1>1, <1>3, <1>5 DEF IndInv, NeverIsolatedJoining
<1> QED  BY <1>7, <1>8, Zenon DEF IndInv

LEMMA SeedEndsInv ==
    ASSUME IndInv, NEW n \in Nodes, SeedIsSelf(n) \/ SeedFails(n)
    PROVE  IndInv'
<1>1. life[n] = "pinging" /\ stop(n) /\ UNCHANGED seeds /\ late' \in {late, late \union {<<n, seed[n]>>}}
  BY Zenon DEF SeedIsSelf, SeedFails, fixed
<1>2. seed[n] \in Nodes
  BY <1>1, Zenon DEF IndInv, TypeOK
<1>3. late' \subseteq Nodes \X Nodes
  BY <1>1, <1>2, Parts
<1> QED  BY <1>1, <1>3, StopInv, Zenon

LEMMA ZerosAreNatural == \A d : leading_zeros(d) \in Nat
<1> SUFFICES ASSUME NEW d
             PROVE  leading_zeros(d) \in Nat
  BY Zenon
<1>1. IsFiniteSet(0 .. IdBits - 1)
  BY FS_Interval, IdAssumption
<1>2. IsFiniteSet({bit \in 0 .. IdBits - 1 : d < 2^bit})
  BY <1>1, FS_Subset, Zenon
<1> QED  BY <1>2, FS_CardinalityType, Zenon DEF leading_zeros

LEMMA EndLookupInv ==
    ASSUME IndInv, NEW n \in Nodes, EndLookup(n)
    PROVE  IndInv'
<1>1. look[n].on /\ UNCHANGED <<table, seed, seeds, round, calls, late>>
  BY Zenon DEF EndLookup, settled, fixed
<1>2. life[n] \in {"joining", "running"} /\ look[n] \in Looks /\ table[n] \in SUBSET Nodes
  BY <1>1, Parts, Zenon
<1> DEFINE closest == nearest(look[n].candidates, n, 1)
           last == IF look[n].target = n /\ closest # {}
                   THEN leading_zeros(xor_distance(CHOOSE m \in closest : TRUE, n)) ELSE look[n].last
           goes_on(begun) == [begun EXCEPT !.bucket = look[n].bucket + 1, !.last = last]
<1>3. last \in Nat /\ look[n].bucket + 1 \in Nat
  BY <1>2, ZerosAreNatural DEF Looks
<1>4. \/ UNCHANGED life /\ \E target \in Ids : \E begun \in lookup(n, table[n], target) : look' = [look EXCEPT ![n] = goes_on(begun)]
      \/ look' = [look EXCEPT ![n] = idle] /\ life' = [life EXCEPT ![n] = "running"]
  BY Zenon DEF EndLookup
<1>5. \A target \in Ids : \A begun \in lookup(n, table[n], target) : goes_on(begun) \in Looks
  <2> HIDE DEF last
  <2> QED  BY <1>2, <1>3, LookupIsLook, Zenon
<1> HIDE DEF goes_on
<1>6. CASE UNCHANGED life /\ \E target \in Ids : \E begun \in lookup(n, table[n], target) : look' = [look EXCEPT ![n] = goes_on(begun)]
  <2>1. look' \in [Nodes -> Looks] /\ \A k \in Nodes : look'[k].on => life[k] \in {"joining", "running"}
    BY <1>2, <1>5, <1>6, Parts
  <2> QED  BY <1>1, <1>6, <2>1, Parts, KeptInv, Zenon
<1>7. CASE look' = [look EXCEPT ![n] = idle] /\ life' = [life EXCEPT ![n] = "running"]
  <2>1. idle \in Looks /\ ~idle.on
    BY ZeroIsId DEF idle, Looks
  <2>2. look' \in [Nodes -> Looks] /\ ~look'[n].on /\ \A k \in Nodes \ {n} : look'[k] = look[k]
    BY <1>7, <2>1, Parts, Zenon
  <2>3. /\ life' \in [Nodes -> Lives] /\ life'[n] = "running"
        /\ \A k \in Nodes \ {n} : life'[k] = life[k]
    BY <1>7, Zenon DEF IndInv, TypeOK, Lives
  <2>4. \A k \in Nodes : /\ (gone(k)' => table'[k] = {} /\ ~look'[k].on /\ ~round'[k].on)
                        /\ (look'[k].on => life'[k] \in {"joining", "running"})
                        /\ (life'[k] = "pinging" => seed'[k] # None)
    BY <1>1, <2>2, <2>3, Zenon DEF IndInv, TypeOK, gone
  <2>5. \A c \in calls' : ~gone(c.from)'
    BY <1>1, <2>3, Parts, Zenon DEF Requests, gone
  <2>6. TypeOK'
    BY <1>1, <2>2, <2>3, <2>4, <2>5, Zenon DEF IndInv, TypeOK, Looks, Lives
  <2>7. NeverIsolatedJoining'
    BY <1>1, <1>2, <2>3, Zenon DEF IndInv, NeverIsolatedJoining
  <2> QED  BY <2>6, <2>7, Zenon DEF IndInv
<1> QED  BY <1>4, <1>6, <1>7, Zenon
-----------------------------------------------------------------------------
LEMMA StepInv == IndInv /\ [Next]_vars => IndInv'
<1> SUFFICES ASSUME IndInv, [Next]_vars
             PROVE  IndInv'
  BY Zenon
<1>1. ASSUME NEW n \in Nodes, Start(n) \/ Take(n) \/ Crash(n) \/ Lookup(n) \/ RoundStep(n)
      PROVE  IndInv'
  BY <1>1, StartInv, TakeInv, CrashInv, LookupInv, RoundStepInv, Zenon
<1>2. ASSUME NEW n \in Nodes, SeedReply(n) \/ SeedIsSelf(n) \/ SeedFails(n) \/ Probe(n) \/ EndLookup(n)
      PROVE  IndInv'
  BY <1>2, SeedReplyInv, SeedEndsInv, ProbeInv, EndLookupInv, Zenon
<1>3. ASSUME NEW n \in Nodes, NEW c \in under_way(n), Serve(c) \/ ServeTaken(c) \/ NodeReply(c) \/ NodeFails(c)
      PROVE  IndInv'
  <2>1. c \in calls
    BY Zenon DEF under_way
  <2> QED  BY <1>3, <2>1, ServeInv, ServeTakenInv, NodeReplyInv, NodeFailsInv, Zenon
<1>4. ASSUME NEW n \in Nodes, NEW m \in Nodes, PingCommand(n, m)
      PROVE  IndInv'
  BY <1>4, PingCommandInv, Zenon
<1>5. ASSUME NEW r \in late, ServeLate(r)
      PROVE  IndInv'
  BY <1>5, ServeLateInv, Zenon
<1>6. CASE UNCHANGED vars
  <2>1. UNCHANGED <<life, table, seeds, seed, look, round, calls, late>>
    BY <1>6, Zenon DEF vars, fixed
  <2> QED  BY <2>1, Zenon DEF IndInv, TypeOK, NeverIsolatedJoining, gone
<1> QED  BY <1>1, <1>2, <1>3, <1>4, <1>5, <1>6, Zenon DEF Next, LookStep

LEMMA Inductive == Spec => []IndInv
BY InitInv, StepInv, PTL DEF Spec

\* Whoever starts, crashes, calls or is called, and whatever arrives late: tables hold other nodes
\* only, and a process that has ended has left no table, lookup, round or call behind (Membership's
\* actions keep the state main, bootstrap, lookup_node and check_liveness work on well formed).
THEOREM TypeCorrect == Spec => []TypeOK
<1>1. IndInv => TypeOK
  BY Zenon DEF IndInv
<1> QED  BY <1>1, Inductive, PTL

\* A node that has joined through a seed always has a contact, however many calls fail and
\* whichever rounds of check_liveness find everyone dead: forget stops at its floor, and bootstrap
\* lets nobody run whose seed has not answered.
THEOREM AlwaysConnected == Spec => []NeverIsolated
<1>1. IndInv => NeverIsolated
  BY Zenon DEF IndInv, NeverIsolatedJoining, NeverIsolated
<1> QED  BY <1>1, Inductive, PTL
=============================================================================
