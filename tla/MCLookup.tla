------------------------------ MODULE MCLookup ------------------------------
(* Lookup over small networks. *)
EXTENDS Lookup

Scenario(k, t, c, f, h, u) ==
    [kind |-> k, table |-> t, near |-> c, names |-> f, holds |-> h, unreliable |-> u]

Nothing == [n \in Nodes |-> "nothing"]
Complete == [n \in Peers |-> nearest(Nodes \ {n}, K)]

\* Whatever the peers name, themselves left out.
Topologies == {f \in [Peers -> SUBSET Peers] : \A n \in Peers : n \notin f[n]}

\* lookup_node from up to one contact in every network, where nobody or everybody knows us.
NodeScenarios ==
    {Scenario("node", t, t, [n \in Peers |-> nearest(f[n] \union us, K)], Nothing, {}) :
        t \in {{}} \union {{n} : n \in Peers}, f \in Topologies, us \in {{}, {me}}}

\* Reads of every distribution of values, and stores, where any call may fail.  Our close_nodes
\* stopped at the nearest K of a full table's contacts, or missed the nearest.
ValueScenarios ==
    {Scenario(k, Peers, c, Complete, h, Nodes) :
        k \in {"first", "all"}, c \in {Peers \ {1}, Peers \ {5}}, h \in [Nodes -> {"valid", "invalid", "nothing"}]}
    \union {Scenario("store", t, nearest(t, K), Complete, Nothing, Nodes) : t \in SUBSET Peers}

AllScenarios == NodeScenarios \union ValueScenarios
=============================================================================
