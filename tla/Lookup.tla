------------------------------- MODULE Lookup -------------------------------
(***************************************************************************)
(* Iterative lookups (lookup.rs): lookup_node, and what lookup_values      *)
(* and store_value_with_proof do with its result.  One call is followed.   *)
(* Calls to peers end in any order and any of them may fail.  What a node  *)
(* names for the target and holds is the environment's: close_nodes stops  *)
(* widening at K candidates, so a node need not name the nearest it knows. *)
(* A node is named by its XOR distance to the target, which no two nodes   *)
(* share: nearer is smaller.                                               *)
(***************************************************************************)
EXTENDS Integers, FiniteSets

CONSTANTS
    Peers, me,
    K, ALPHA,       \* 10 and 3 in the code
    Scenarios       \* the calls, and the networks they may meet

Nodes == Peers \union {me}

ASSUME NodeAssumption == Peers \subseteq Nat /\ me \in Nat \ Peers /\ IsFiniteSet(Peers)
ASSUME SizeAssumption == K \in Nat \ {0} /\ ALPHA \in Nat \ {0}
ASSUME EnvironmentAssumption ==
    \A s \in Scenarios :
        /\ s.kind \in {"node", "first", "all", "store"}
        /\ s.table \subseteq Peers /\ s.near \subseteq s.table
        /\ s.names \in [Peers -> SUBSET Nodes]
        /\ \A n \in Peers : Cardinality(s.names[n]) <= K
        /\ s.holds \in [Nodes -> {"valid", "invalid", "nothing"}]
        /\ s.unreliable \subseteq Nodes

VARIABLES
    kind,           \* lookup_node, lookup_value, get_latest or store_value
    names, holds,   \* what the peers name for the target, and the nodes have under the key
    unreliable,     \* the nodes a call may fail to reach
    table,          \* the contacts in our routing table
    phase,
    candidates,
    queried,        \* the nodes a find_node went to
    in_flight,
    rest,           \* the nodes the second half has yet to go to
    found,          \* the sources of the values accepted
    accepted,       \* how many acknowledged STORE
    \* history
    start,          \* the candidates found in the routing table
    heard,          \* the nodes named so far
    lost,           \* the nodes a call to which failed
    stored          \* the nodes that ran STORE

environment == <<kind, names, holds, unreliable, start>>
vars == <<environment, table, phase, candidates, queried, in_flight, rest, found, accepted, heard, lost, stored>>
-----------------------------------------------------------------------------
\* The n nodes of S nearest to the target: sort, dedup, truncate.
nearest(S, n) == {x \in S : Cardinality({y \in S : y < x}) < n}

\* A bug: the pipeline takes a candidate whose probe failed once more.
top_up_again(C, Q, F) == F \union nearest(C \ (Q \ lost), ALPHA - Cardinality(F))

\* The probes that join those in flight, nearest first, until there are ALPHA.
top_up(C, Q, F) == F \union nearest(C \ Q, ALPHA - Cardinality(F))

Init ==
    /\ \E s \in Scenarios : /\ kind = s.kind /\ table = s.table
                            /\ names = s.names /\ holds = s.holds /\ unreliable = s.unreliable
                            /\ candidates = nearest(s.near, K)
    /\ rest = {} /\ found = {} /\ accepted = 0 /\ lost = {} /\ stored = {}
    /\ in_flight = top_up(candidates, {}, {})
    /\ queried = in_flight
    /\ start = candidates /\ heard = candidates
    /\ phase = "closing"

\* find_node::handle: what the peer's close_nodes gathers for the target, at most K contacts.
find_node(n) == names[n]
-----------------------------------------------------------------------------
(* lookup_node *)

\* A bug: the pipeline is topped up before the reply is merged.
Merge_late(n, named) ==
    LET merged == nearest(candidates \union named, K)
        flying == top_up(candidates, queried, in_flight \ {n}) IN
    /\ candidates' = merged
    /\ in_flight' = flying
    /\ queried' = queried \union flying
    /\ heard' = heard \union named
    /\ UNCHANGED <<environment, phase, rest, found, accepted, stored>>

\* The rest of an iteration: merge what n named, then top up.
Merge(n, named) ==
    LET merged == nearest(candidates \union named, K)
        flying == top_up(merged, queried, in_flight \ {n}) IN
    /\ candidates' = merged
    /\ in_flight' = flying
    /\ queried' = queried \union flying
    /\ heard' = heard \union named
    /\ UNCHANGED <<environment, phase, rest, found, accepted, stored>>

NodeReply(n) ==
    /\ phase = "closing" /\ n \in in_flight
    /\ table' = table \union (find_node(n) \ {me})
    /\ Merge(n, find_node(n) \ {me})
    /\ UNCHANGED lost

\* find_node turns every failure into no contacts; forget may keep the peer.
NodeFails(n) ==
    /\ phase = "closing" /\ n \in in_flight /\ n \in unreliable
    /\ table' \in {table, table \ {n}}
    /\ Merge(n, {})
    /\ lost' = lost \union {n}

\* Ourselves among the K nearest: the nodes the second half goes to.
targets == nearest(candidates \union {me}, K)

\* lookup_node returns.  A STORE goes to one node at a time.
Settle ==
    /\ phase = "closing" /\ in_flight = {}
    /\ IF kind = "node"
       THEN phase' = "done" /\ UNCHANGED <<in_flight, rest>>
       ELSE /\ phase' = "asking"
            /\ in_flight' = nearest(targets, IF kind = "store" THEN 1 ELSE ALPHA)
            /\ rest' = targets \ in_flight'
    /\ UNCHANGED <<environment, table, candidates, queried, found, accepted, heard, lost, stored>>
-----------------------------------------------------------------------------
(* lookup_values, store_value_with_proof *)

\* n is through: go to the next, or end when there is none or one answer is enough.
Proceed(n, width) ==
    /\ in_flight' = (in_flight \ {n}) \union nearest(rest, width - Cardinality(in_flight \ {n}))
    /\ rest' = rest \ in_flight'
    /\ phase' = IF in_flight' = {} THEN "done" ELSE "asking"

\* A bug: get_latest, too, stops at the first pointer.
ValueReply_first(n) ==
    /\ phase = "asking" /\ kind \in {"first", "all"} /\ n \in in_flight
    /\ found' = IF holds[n] = "valid" THEN found \union {n} ELSE found
    /\ table' = IF holds[n] = "nothing" /\ n # me THEN table \union (find_node(n) \ {me}) ELSE table
    /\ IF holds[n] = "valid"
       THEN in_flight' = {} /\ phase' = "done" /\ UNCHANGED rest
       ELSE Proceed(n, ALPHA)
    /\ UNCHANGED <<environment, candidates, queried, accepted, heard, lost, stored>>

\* A value that accept passes is kept; a node without one names contacts, which the
\* routing table is offered and the lookup does not ask.
ValueReply(n) ==
    /\ phase = "asking" /\ kind \in {"first", "all"} /\ n \in in_flight
    /\ found' = IF holds[n] = "valid" THEN found \union {n} ELSE found
    /\ table' = IF holds[n] = "nothing" /\ n # me THEN table \union (find_node(n) \ {me}) ELSE table
    /\ IF holds[n] = "valid" /\ kind = "first"
       THEN in_flight' = {} /\ phase' = "done" /\ UNCHANGED rest
       ELSE Proceed(n, ALPHA)
    /\ UNCHANGED <<environment, candidates, queried, accepted, heard, lost, stored>>

ValueFails(n) ==
    /\ phase = "asking" /\ kind \in {"first", "all"} /\ n \in in_flight /\ n \in unreliable
    /\ table' \in {table, table \ {n}}
    /\ Proceed(n, ALPHA)
    /\ lost' = lost \union {n}
    /\ UNCHANGED <<environment, candidates, queried, found, accepted, heard, stored>>

\* A bug: any reply counts as an acknowledgement.
StoreReply_any(n, stores) ==
    /\ phase = "asking" /\ kind = "store" /\ n \in in_flight
    /\ stored' = IF stores THEN stored \union {n} ELSE stored
    /\ accepted' = accepted + 1
    /\ Proceed(n, 1)
    /\ UNCHANGED <<environment, table, candidates, queried, found, heard, lost>>

\* The node stores the value, or refuses it.
StoreReply(n, stores) ==
    /\ phase = "asking" /\ kind = "store" /\ n \in in_flight
    /\ stored' = IF stores THEN stored \union {n} ELSE stored
    /\ accepted' = IF stores THEN accepted + 1 ELSE accepted
    /\ Proceed(n, 1)
    /\ UNCHANGED <<environment, table, candidates, queried, found, heard, lost>>

\* No acknowledgement came: STORE may have run all the same.
StoreFails(n, stores) ==
    /\ phase = "asking" /\ kind = "store" /\ n \in in_flight /\ n \in unreliable
    /\ stored' = IF stores THEN stored \union {n} ELSE stored
    /\ table' \in {table, table \ {n}}
    /\ Proceed(n, 1)
    /\ lost' = lost \union {n}
    /\ UNCHANGED <<environment, candidates, queried, found, accepted, heard>>
-----------------------------------------------------------------------------
Done == phase = "done" /\ UNCHANGED vars

Next ==
    \/ \E n \in Nodes : NodeReply(n) \/ NodeFails(n) \/ ValueReply(n) \/ ValueFails(n)
    \/ \E n \in Nodes, stores \in BOOLEAN : StoreReply(n, stores) \/ StoreFails(n, stores)
    \/ Settle
    \/ Done

Spec == Init /\ [][Next]_vars

\* A call to a peer ends, by its reply or by the transport's deadline.
FairSpec == Spec /\ WF_vars(Next)
-----------------------------------------------------------------------------
(* Properties *)

\* At most K candidates and ALPHA probes, and we are never our own candidate.
TypeOK ==
    /\ kind \in {"node", "first", "all", "store"} /\ phase \in {"closing", "asking", "done"}
    /\ names \in [Peers -> SUBSET Nodes] /\ holds \in [Nodes -> {"valid", "invalid", "nothing"}]
    /\ table \subseteq Peers /\ candidates \subseteq Peers /\ Cardinality(candidates) <= K
    /\ in_flight \subseteq Nodes /\ Cardinality(in_flight) <= ALPHA
    /\ rest \subseteq Nodes /\ found \subseteq Nodes /\ stored \subseteq Nodes /\ lost \subseteq Nodes
    /\ queried \subseteq Peers /\ heard \subseteq Peers /\ start \subseteq heard /\ accepted \in Nat

\* "the K closest are settled": lookup_node returns the nearest of all the nodes it heard of,
\* and has asked every one of them, however the replies are ordered.
SettledOnNearest ==
    phase # "closing" => candidates = nearest(heard, K) /\ candidates \subseteq queried

\* Every peer but the nearest names one nearer than itself.
LeadsOn == \A n \in Peers : (\E m \in Peers : m < n) => \E m \in find_node(n) \ {me} : m < n

\* If no call fails and every peer leads on, lookup_node finds the nearest of all from any one
\* contact.  To know a nearer peer is not enough for a node to lead on: the contacts at which
\* its close_nodes stops widening may all be farther.
FindsNearest ==
    phase # "closing" /\ start # {} /\ lost = {} /\ LeadsOn =>
        \A n \in Peers : (\A m \in Peers : n <= m) => n \in candidates

\* get_latest hears every target that answers; lookup_value fails only if no target that
\* answers has a valid value.
ReplicasRead ==
    LET valid == {n \in targets : holds[n] = "valid"} IN
    phase = "done" /\ kind \in {"first", "all"} =>
        /\ found \subseteq valid
        /\ kind = "all" => valid \ lost \subseteq found
        /\ kind = "first" /\ found = {} => valid \subseteq lost

\* "how many nodes acknowledged STORE": never more than hold the value, and no fewer than
\* hold it and answered.
AcknowledgedStores ==
    Cardinality(stored \ lost) <= accepted /\ accepted <= Cardinality(stored)

\* While it closes in: the candidates are the nearest of all the nodes named so far, no probe is
\* due when none is in flight, and who was asked has failed or been heard.
ClosesIn ==
    /\ candidates = nearest(heard, K)
    /\ phase = "closing" =>
        in_flight \subseteq queried /\ rest = {} /\ found = {} /\ stored = {} /\ accepted = 0
    /\ phase # "closing" \/ in_flight = {} => candidates \subseteq queried
    /\ \A n \in queried \ lost : (phase = "closing" /\ n \in in_flight) \/ find_node(n) \ {me} \subseteq heard

\* The second half goes to every target once.
AsksOnce ==
    phase = "asking" =>
        /\ kind # "node" /\ in_flight \intersect rest = {} /\ in_flight \union rest \subseteq targets
        /\ kind = "store" => (in_flight \union rest) \intersect stored = {}

\* What a read has found, and what it has yet to see.
ReadsOn ==
    LET valid == {n \in targets : holds[n] = "valid"} IN
    phase # "closing" /\ kind \in {"first", "all"} =>
        /\ found \subseteq valid
        /\ phase = "asking" => valid \ (in_flight \union rest) \subseteq found \union lost
        /\ phase = "done" => valid \subseteq found \union lost \/ (kind = "first" /\ found # {})

\* The inductive invariant behind the safety properties.
IndInv == TypeOK /\ ClosesIn /\ AsksOnce /\ ReadsOn /\ AcknowledgedStores

\* Every lookup ends: no node is asked twice, dead or not.
LookupEnds == <>(phase = "done")
=============================================================================
