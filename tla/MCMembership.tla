---------------------------- MODULE MCMembership ----------------------------
(* Small instances of Membership: two pairs of neighbours, 0 and 1, 4 and 5. *)
EXTENDS Membership

Xor == [x, y \in Ids |->
    LET bit(z, b) == (z \div 2^b) % 2
        differ(b) == IF bit(x, b) = bit(y, b) THEN 0 ELSE 2^b
    IN differ(0) + differ(1) + differ(2)]
xor(x, y) == Xor[x, y]

\* It also has TLC tabulate close_nodes before it starts.
ASSUME AnswersAssumption == close_nodes \in [Nodes \X (SUBSET Nodes) \X Ids -> SUBSET SUBSET Nodes]

scenario(running, knows, sd, check, talk, die, taken, s, f) ==
    [running |-> running, knows |-> knows, seeds |-> sd, checking |-> check, busy |-> talk, mortal |-> die,
     lost |-> taken, starts |-> s, faults |-> f]

nobody == [n \in Nodes |-> {}]
mesh(S) == [n \in Nodes |-> IF n \in S THEN S \ {n} ELSE {}]
through(s) == [n \in Nodes |-> {s}]
pairs == [n \in Nodes |-> {IF n \in {0, 4} THEN n + 1 ELSE n - 1}]

Networks == {
    \* a network from nothing: one node founds it, two join
    scenario({}, nobody, [n \in Nodes |-> CASE n = 0 -> {None, 0} [] n = 5 -> {} [] OTHER -> {0}],
             {0}, {}, {}, {}, 3, 0),
    \* a node joins while its seed may crash
    scenario({0, 1, 4}, mesh({0, 1, 4}), through(0), {0, 5}, {}, {0, 5}, {}, 1, 1),
    \* a node crashes and comes back, or another program at its address, during the rounds of others
    scenario(Nodes, mesh(Nodes), through(0), {0, 5}, {}, {5}, {5}, 1, 2),
    \* a node is gone, and one that may not forget it goes on naming it
    scenario({0, 1, 4}, [n \in Nodes |-> CASE n = 0 -> {1, 4, 5} [] n = 5 -> {} [] OTHER -> {0, 5}],
             nobody, {0}, {0}, {}, {5}, 1, 0),
    \* two networks, until a user pings from one into the other
    scenario(Nodes, pairs, through(0), {0, 4}, {0}, {}, {}, 0, 0)
    }
=============================================================================
