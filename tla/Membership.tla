----------------------------- MODULE Membership -----------------------------
(***************************************************************************)
(* Who knows whom: nodes are started (main.rs, node.rs), join through a    *)
(* seed (bootstrap.rs), look things up, check that their contacts are      *)
(* alive (maintenance.rs), learn the senders of requests (handle_rpc.rs)   *)
(* and forget contacts that do not answer (rpc.rs).  Processes crash and   *)
(* are started again, calls get lost, and a request may arrive after its   *)
(* sender has given up or died.  A node is its id, the hash of its address *)
(* (hashing.rs), so a restarted one is the same contact; another program   *)
(* may take the address of one that has ended.                             *)
(***************************************************************************)
EXTENDS Integers, FiniteSets

CONSTANTS
    IdBits,             \* 256 in the code
    Nodes,              \* ids
    xor_distance(_, _),
    K, ALPHA,           \* 10 and 3 in the code
    Scenarios,          \* the networks to begin with, and bounds on what happens to them
    None

Ids == 0 .. 2^IdBits - 1
leading_zeros(d) == Cardinality({bit \in 0 .. IdBits - 1 : d < 2^bit})

ASSUME IdAssumption == IdBits \in Nat /\ Nodes \subseteq Ids /\ IsFiniteSet(Nodes) /\ None \notin Nodes
ASSUME SizeAssumption == K \in Nat \ {0} /\ ALPHA \in Nat \ {0}
\* No bucket overflows: what a full one turns away is RoutingTable's.
ASSUME RoomAssumption ==
    \A n \in Nodes, bucket \in 0 .. IdBits - 1 :
        Cardinality({m \in Nodes \ {n} : leading_zeros(xor_distance(n, m)) = bucket}) <= K
ASSUME ScenarioAssumption ==
    \A s \in Scenarios :
        /\ s.knows \in [Nodes -> SUBSET Nodes] /\ s.running \subseteq Nodes
        /\ \A n \in Nodes : n \notin s.knows[n] /\ (n \notin s.running => s.knows[n] = {})
        /\ s.seeds \in [Nodes -> SUBSET (Nodes \union {None})]
        /\ {s.checking, s.busy, s.mortal, s.lost} \subseteq SUBSET Nodes
        /\ \A n \in Nodes : s.seeds[n] \intersect s.lost = {}
        /\ {s.starts, s.faults} \subseteq Nat

VARIABLES
    life,       \* off, pinging the seed, joining or running; or its address is taken
    table,      \* the contacts in the routing table
    seeds,      \* the seeds a node may be started with
    checking,   \* the nodes whose liveness interval runs out within the behaviour
    busy,       \* those that look things up, and ping, as often as they like
    mortal,     \* the nodes that may crash
    lost,       \* the nodes whose address another program may take
    seed,       \* the one it was started with
    look,       \* its lookup, if any
    round,      \* its round of check_liveness, if any
    calls,      \* FIND_NODE calls that have not ended
    late,       \* requests still under way whose call has ended: <<from, to>>
    starts, faults   \* bounds

budget == <<starts, faults>>
fixed == <<seeds, checking, busy, mortal, lost>>
vars == <<life, table, fixed, seed, look, round, calls, late, budget>>

idle == [on |-> FALSE, target |-> 0, candidates |-> {}, queried |-> {}, bucket |-> 0, last |-> 0]
asleep == [on |-> FALSE, left |-> {}, done |-> {}, dead |-> {}]

Init ==
    /\ \E s \in Scenarios :
        /\ life = [n \in Nodes |-> IF n \in s.running THEN "running" ELSE "off"]
        /\ table = s.knows /\ seeds = s.seeds /\ checking = s.checking /\ busy = s.busy
        /\ mortal = s.mortal /\ lost = s.lost /\ starts = s.starts /\ faults = s.faults
    /\ seed = [n \in Nodes |-> None]
    /\ look = [n \in Nodes |-> idle] /\ round = [n \in Nodes |-> asleep]
    /\ calls = {} /\ late = {}
-----------------------------------------------------------------------------
(* Calls *)

under_way(n) == {c \in calls : c.from = n}

\* The n nodes of S nearest to t.
nearest(S, t, n) == {x \in S : Cardinality({y \in S : xor_distance(y, t) < xor_distance(x, t)}) < n}

\* What close_nodes may answer at n, whose contacts are S: the buckets are read outwards from that
\* of t until there are K candidates or no more buckets, and the siblings join, which are any K
\* of the contacts once one was removed.
answers(n, S, t) ==
    LET bucket(x) == leading_zeros(xor_distance(x, n))
        near(w) == {x \in S : bucket(x) \in bucket(t) - w .. bucket(t) + w}
        width == CHOOSE w \in 0 .. IdBits : /\ w = IdBits \/ Cardinality(near(w)) >= K
                                            /\ \A v \in 0 .. w - 1 : Cardinality(near(v)) < K
        best == nearest(near(width), t, K) IN
    {nearest(best \union siblings, t, K) : siblings \in {R \in SUBSET S : Cardinality(R) <= K}}

close_nodes == [q \in Nodes \X (SUBSET Nodes) \X Ids |-> answers(q[1], q[2], q[3])]

\* maybe_add_contact, of each contact in S: never of ourselves.
learn(n, S) == table[n] \union (S \ {n})

\* A bug: the floor is not looked at.
forget_all(S, dead) == {S \ dead}

\* The tables forget may leave when it is called for each of the dead: one at a time, while
\* there are more than K.
forget(S, dead) ==
    {R \in SUBSET S : /\ S \ R \subseteq dead
                      /\ \/ R = S \ dead /\ (R = S \/ Cardinality(R) >= K)
                         \/ Cardinality(S \ dead) < K /\ Cardinality(S) > K /\ Cardinality(R) = K
                         \/ Cardinality(S) <= K /\ R = S}

\* A bug: nobody learns the sender of a request.
served_silently(n, m) == table

\* dispatch: the called node learns the sender.
served(n, m) == [table EXCEPT ![m] = learn(m, {n})]

gone(m) == life[m] \in {"off", "taken"}

\* Nobody answers at a node that is off; otherwise the request or the answer was lost.
no_answer(m) ==
    /\ faults' = IF life[m] = "off" THEN faults ELSE faults - 1
    /\ faults' >= 0
    /\ UNCHANGED starts

\* The request of a call that has ended still comes to its node.
ServeLate(r) ==
    /\ late' = late \ {r}
    /\ table' = IF gone(r[2]) THEN table ELSE served(r[1], r[2])
    /\ UNCHANGED <<life, fixed, seed, look, round, calls, budget>>
-----------------------------------------------------------------------------
(* main and bootstrap *)

Start(n) ==
    /\ life[n] = "off" /\ starts > 0 /\ starts' = starts - 1
    /\ \E s \in seeds[n] :
        /\ seed' = [seed EXCEPT ![n] = s]
        /\ life' = [life EXCEPT ![n] = IF s = None THEN "running" ELSE "pinging"]
    /\ UNCHANGED <<table, fixed, look, round, calls, late, faults>>

\* Another program, which answers requests under an id of its own and knows none of the nodes.
Take(n) ==
    /\ n \in lost /\ life[n] = "off" /\ starts > 0 /\ starts' = starts - 1
    /\ life' = [life EXCEPT ![n] = "taken"]
    /\ UNCHANGED <<table, fixed, seed, look, round, calls, late, faults>>

\* The process is gone, and all it knew.  A request it has sent may still arrive.
stop(n) ==
    /\ life' = [life EXCEPT ![n] = "off"]
    /\ table' = [table EXCEPT ![n] = {}]
    /\ seed' = [seed EXCEPT ![n] = None]
    /\ look' = [look EXCEPT ![n] = idle] /\ round' = [round EXCEPT ![n] = asleep]
    /\ calls' = calls \ under_way(n)

Crash(n) ==
    /\ n \in mortal /\ ~gone(n) /\ faults > 0 /\ faults' = faults - 1
    /\ stop(n)
    /\ late' = late \union {<<n, c.to>> : c \in {d \in under_way(n) : d.state = "sent"}}
    /\ UNCHANGED <<fixed, starts>>

\* The lookups n, whose contacts are S, may begin.
lookup(n, S, target) ==
    {[idle EXCEPT !.on = TRUE, !.target = target, !.candidates = C] : C \in close_nodes[n, S, target]}

\* The seed answers the PING, and we look up our own id.
SeedReply(n) ==
    /\ life[n] = "pinging" /\ seed[n] # n /\ ~gone(seed[n])
    /\ table' = [served(n, seed[n]) EXCEPT ![n] = learn(n, {seed[n]})]
    /\ life' = [life EXCEPT ![n] = "joining"]
    /\ \E begun \in lookup(n, table'[n], n) : look' = [look EXCEPT ![n] = begun]
    /\ UNCHANGED <<fixed, seed, round, calls, late, budget>>

\* SelfSeed: the answer is our own, and the program ends.
SeedIsSelf(n) ==
    /\ life[n] = "pinging" /\ seed[n] = n
    /\ stop(n)
    /\ UNCHANGED <<fixed, late, budget>>

\* Unreachable: the program ends.
SeedFails(n) ==
    /\ life[n] = "pinging" /\ seed[n] # n
    /\ no_answer(seed[n])
    /\ stop(n)
    /\ late' \in {late, late \union {<<n, seed[n]>>}}
    /\ UNCHANGED fixed
-----------------------------------------------------------------------------
(* lookup_node, and the shell *)

\* By the user or by the task that republishes.
Lookup(n) ==
    /\ life[n] = "running" /\ ~look[n].on /\ n \in busy
    /\ \E target \in Nodes : \E begun \in lookup(n, table[n], target) : look' = [look EXCEPT ![n] = begun]
    /\ UNCHANGED <<life, table, fixed, seed, round, calls, late, budget>>

\* The shell's ping: "A successful manual ping is useful routing knowledge."
PingCommand(n, m) ==
    /\ life[n] = "running" /\ ~gone(m) /\ n \in busy
    /\ table' = [served(n, m) EXCEPT ![n] = learn(n, {m})]
    /\ UNCHANGED <<life, fixed, seed, look, round, calls, late, budget>>

unqueried(n) == look[n].candidates \ look[n].queried

Probe(n) ==
    /\ look[n].on /\ Cardinality(under_way(n)) < ALPHA
    /\ \E m \in nearest(unqueried(n), look[n].target, 1) :
        /\ look' = [look EXCEPT ![n].queried = @ \union {m}]
        /\ calls' = calls \union {[from |-> n, to |-> m, state |-> "sent", answer |-> {}]}
    /\ UNCHANGED <<life, table, fixed, seed, round, late, budget>>

\* find_node::handle at the called node: close_nodes there, now.
Serve(c) ==
    /\ c.state = "sent" /\ ~gone(c.to)
    /\ table' = served(c.from, c.to)
    /\ \E answer \in close_nodes[c.to, table'[c.to], look[c.from].target] :
        calls' = (calls \ {c}) \union {[c EXCEPT !.state = "served", !.answer = answer]}
    /\ UNCHANGED <<life, fixed, seed, look, round, late, budget>>

\* The other program names nobody.
ServeTaken(c) ==
    /\ c.state = "sent" /\ life[c.to] = "taken"
    /\ calls' = (calls \ {c}) \union {[c EXCEPT !.state = "served"]}
    /\ UNCHANGED <<life, table, fixed, seed, look, round, late, budget>>

NodeReply(c) ==
    /\ c.state = "served"
    /\ calls' = calls \ {c}
    /\ table' = [table EXCEPT ![c.from] = learn(c.from, c.answer)]
    /\ look' = [look EXCEPT ![c.from].candidates = nearest(@ \union (c.answer \ {c.from}), look[c.from].target, K)]
    /\ UNCHANGED <<life, fixed, seed, round, late, budget>>

\* Rpc::call forgets the contact; it stays a candidate.
NodeFails(c) ==
    /\ c.state = "sent"
    /\ no_answer(c.to)
    /\ calls' = calls \ {c}
    /\ late' \in {late, late \union {<<c.from, c.to>>}}
    /\ \E T \in forget(table[c.from], {c.to}) : table' = [table EXCEPT ![c.from] = T]
    /\ UNCHANGED <<life, fixed, seed, look, round>>

settled(n) == look[n].on /\ unqueried(n) = {} /\ under_way(n) = {}

\* A bug: a bootstrap refreshes the same bucket over and over.
EndLookup_same(n) ==
    /\ settled(n)
    /\ LET closest == nearest(look[n].candidates, n, 1)
           last == IF look[n].target = n /\ closest # {}
                   THEN leading_zeros(xor_distance(CHOOSE m \in closest : TRUE, n)) ELSE look[n].last
           bucket == look[n].bucket IN
        IF life[n] = "joining" /\ bucket < last
        THEN /\ \E target \in {t \in Ids : leading_zeros(xor_distance(t, n)) = bucket} :
                \E begun \in lookup(n, table[n], target) :
                    look' = [look EXCEPT ![n] = [begun EXCEPT !.bucket = bucket, !.last = last]]
             /\ UNCHANGED life
        ELSE look' = [look EXCEPT ![n] = idle] /\ life' = [life EXCEPT ![n] = "running"]
    /\ UNCHANGED <<table, fixed, seed, round, calls, late, budget>>

\* The lookup returns.  A bootstrap goes on to the buckets farther away than the closest
\* neighbour, one after the other, each with a random id in it.
EndLookup(n) ==
    /\ settled(n)
    /\ LET closest == nearest(look[n].candidates, n, 1)
           last == IF look[n].target = n /\ closest # {}
                   THEN leading_zeros(xor_distance(CHOOSE m \in closest : TRUE, n)) ELSE look[n].last
           bucket == look[n].bucket IN
        IF life[n] = "joining" /\ bucket < last
        THEN /\ \E target \in {t \in Ids : leading_zeros(xor_distance(t, n)) = bucket} :
                \E begun \in lookup(n, table[n], target) :
                    look' = [look EXCEPT ![n] = [begun EXCEPT !.bucket = bucket + 1, !.last = last]]
             /\ UNCHANGED life
        ELSE look' = [look EXCEPT ![n] = idle] /\ life' = [life EXCEPT ![n] = "running"]
    /\ UNCHANGED <<table, fixed, seed, round, calls, late, budget>>
-----------------------------------------------------------------------------
(* check_liveness *)

\* The interval is over.  The table is read as the round goes.
BeginRound(n) ==
    /\ n \in checking /\ life[n] = "running" /\ ~round[n].on
    /\ round' = [round EXCEPT ![n] = [asleep EXCEPT !.on = TRUE, !.left = table[n]]]
    /\ UNCHANGED <<life, table, fixed, seed, look, calls, late, budget>>

\* The next contact of the round: one at a time, the siblings first.  Those learned meanwhile
\* come too if the iterator has yet to pass them.
next(n) == nearest(table[n] \ round[n].done, n, 1)

Ping(n) ==
    /\ round[n].on
    /\ \E m \in next(n) :
        /\ ~gone(m)
        /\ table' = served(n, m)
        /\ round' = [round EXCEPT ![n].done = @ \union {m}]
    /\ UNCHANGED <<life, fixed, seed, look, calls, late, budget>>

\* "answered with another id".
PingTaken(n) ==
    /\ round[n].on
    /\ \E m \in next(n) :
        /\ life[m] = "taken"
        /\ round' = [round EXCEPT ![n].done = @ \union {m}, ![n].dead = @ \union {m}]
    /\ UNCHANGED <<life, table, fixed, seed, look, calls, late, budget>>

PingFails(n) ==
    /\ round[n].on
    /\ \E m \in next(n) :
        /\ no_answer(m)
        /\ late' \in {late, late \union {<<n, m>>}}
        /\ round' = [round EXCEPT ![n].done = @ \union {m}, ![n].dead = @ \union {m}]
    /\ UNCHANGED <<life, table, fixed, seed, look, calls>>

\* A bug: who does not answer stays.
EndRound_kept(n) ==
    /\ round[n].on
    /\ (round[n].left \intersect table[n]) \subseteq round[n].done
    /\ round' = [round EXCEPT ![n] = asleep]
    /\ UNCHANGED <<life, table, fixed, seed, look, calls, late, budget>>

\* The dead are forgotten at the end, whatever has been heard of them since.
EndRound(n) ==
    /\ round[n].on
    /\ (round[n].left \intersect table[n]) \subseteq round[n].done
    /\ \E T \in forget(table[n], round[n].dead) : table' = [table EXCEPT ![n] = T]
    /\ round' = [round EXCEPT ![n] = asleep]
    /\ UNCHANGED <<life, fixed, seed, look, calls, late, budget>>
-----------------------------------------------------------------------------
LookStep(n) ==
    \/ SeedReply(n) \/ SeedIsSelf(n) \/ SeedFails(n) \/ Probe(n) \/ EndLookup(n)
    \/ \E c \in under_way(n) : Serve(c) \/ ServeTaken(c) \/ NodeReply(c) \/ NodeFails(c)
RoundStep(n) == BeginRound(n) \/ Ping(n) \/ PingTaken(n) \/ PingFails(n) \/ EndRound(n)

Next ==
    \/ \E n \in Nodes : Start(n) \/ Take(n) \/ Crash(n) \/ Lookup(n) \/ LookStep(n) \/ RoundStep(n)
    \/ \E n, m \in Nodes : PingCommand(n, m)
    \/ \E r \in late : ServeLate(r)

Spec == Init /\ [][Next]_vars

\* Tasks are scheduled, timers run out, calls end and requests arrive or are lost.
FairSpec ==
    /\ Spec
    /\ \A n \in Nodes : WF_vars(LookStep(n)) /\ WF_vars(RoundStep(n))
    /\ WF_vars(\E r \in late : ServeLate(r))
-----------------------------------------------------------------------------
(* Properties *)

\* Tables hold other nodes only, and only a process that runs has a table, a lookup, a round or
\* calls.
TypeOK ==
    /\ life \in [Nodes -> {"off", "pinging", "joining", "running", "taken"}]
    /\ seeds \in [Nodes -> SUBSET (Nodes \union {None})] /\ seed \in [Nodes -> Nodes \union {None}]
    /\ table \in [Nodes -> SUBSET Nodes] /\ \A n \in Nodes : n \notin table[n]
    /\ look \in [Nodes -> [on : BOOLEAN, target : Ids, candidates : SUBSET Nodes, queried : SUBSET Nodes,
                           bucket : Nat, last : Nat]]
    /\ round \in [Nodes -> [on : BOOLEAN, left : SUBSET Nodes, done : SUBSET Nodes, dead : SUBSET Nodes]]
    /\ calls \subseteq [from : Nodes, to : Nodes, state : {"sent", "served"}, answer : SUBSET Nodes]
    /\ late \subseteq Nodes \X Nodes
    /\ \A n \in Nodes : gone(n) => table[n] = {} /\ ~look[n].on /\ ~round[n].on
    /\ \A n \in Nodes : look[n].on => life[n] \in {"joining", "running"}
    /\ \A n \in Nodes : life[n] = "pinging" => seed[n] # None
    /\ \A c \in calls : ~gone(c.from)

\* Once it has joined, a node is never left without contacts, though all of them should fail to
\* answer: forget's floor.
NeverIsolated == \A n \in Nodes : life[n] = "running" /\ seed[n] # None => table[n] # {}

\* Already when its seed has answered.
NeverIsolatedJoining ==
    \A n \in Nodes : life[n] \in {"joining", "running"} /\ seed[n] # None => table[n] # {}

\* The inductive invariant behind NeverIsolated.
IndInv == TypeOK /\ NeverIsolatedJoining

\* A node that stays in another's table while both run is, in the end, known to it the other way
\* round: wrongly forgotten, by a round that found it down before it was back, it is learned again
\* from its next request.
KnowledgeIsMutual ==
    \A n, m \in Nodes :
        <>[](m \in checking /\ life[n] = "running" /\ life[m] = "running" /\ n \in table[m])
            => <>[](m \in table[n])

\* A node that is gone for good, its address taken or not, leaves the tables of those that run, but
\* for tables of K or fewer, after each time it is put back: whoever at its own floor goes on naming
\* it to our lookups (lookup_node offers the table all it hears of), and whenever its last requests
\* arrive.  That it stays away is not to be had.
DeadIsDropped ==
    \A n, m \in Nodes :
        <>[](n \in checking /\ life[n] = "running" /\ gone(m))
            => []<>(m \notin table[n] \/ Cardinality(table[n]) <= K)

\* A join ends: the node runs or the program has ended.
JoinEnds == \A n \in Nodes : []<>(life[n] \notin {"pinging", "joining"})
=============================================================================
