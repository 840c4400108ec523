---------------------------- MODULE DebugNetwork ----------------------------
(***************************************************************************)
(* The in-process network (rpc_transport/networked_debug_transport.rs):    *)
(* addresses bound to endpoints, datagrams that get lost or overtake each  *)
(* other, and connections that wait to be accepted.  An address is its     *)
(* port.  An endpoint outlives its binding: unbind() takes the address     *)
(* away from an endpoint that is still in use, and another may bind it.    *)
(***************************************************************************)
EXTENDS Naturals, Sequences

CONSTANTS
    Endpoints,
    PortCount,      \* 2^16 in the code
    FirstPort,      \* FIRST_EPHEMERAL_PORT, 49152 in the code
    Start,          \* the endpoints bound to begin with, by port
    MaxSent,        \* bound on the datagrams sent
    None

ASSUME PortAssumption == PortCount \in Nat /\ FirstPort \in 1 .. PortCount - 1
ASSUME NoneAssumption == None \notin Endpoints
ASSUME StartAssumption ==
    /\ Start \in [1 .. PortCount - 1 -> Endpoints \union {None}]
    /\ \A a, b \in DOMAIN Start : Start[a] = Start[b] => a = b \/ Start[a] = None

VARIABLES
    sockets,        \* Inner.sockets: the endpoint whose inbox stands under each port, or None
    next_port,      \* Inner.next_port
    address,        \* Endpoint.addr, or 0 before the endpoint is bound
    open,           \* the endpoints not yet dropped
    inbox,          \* Endpoint.inbox
    backlog,        \* Endpoint.connections
    wire,           \* datagrams that latency keeps back
    sent            \* how many datagrams have been sent

network == <<sockets, next_port, address, open, inbox, backlog, wire, sent>>

Ports == 1 .. PortCount - 1
bound(a) == sockets[a] # None

\* The senders in the map are all there are: once they are removed, the inboxes are closed.
closed(e) == \A a \in Ports : sockets[a] # e

NetworkInit ==
    /\ sockets = Start /\ next_port = FirstPort
    /\ address = [e \in Endpoints |-> IF closed(e) THEN 0 ELSE CHOOSE a \in Ports : Start[a] = e]
    /\ open = {e \in Endpoints : ~closed(e)}
    /\ inbox = [e \in Endpoints |-> <<>>] /\ backlog = [e \in Endpoints |-> <<>>]
    /\ wire = {} /\ sent = 0

\* How far next_port has to count, wrapping around, to come to a.
steps_to(a) == (a + PortCount - next_port) % PortCount

\* The first port from next_port on, 0 skipped, that nothing is bound to: the loops of
\* bind_any and connect around next_addr.
fresh == {a \in Ports : ~bound(a) /\ \A b \in Ports : ~bound(b) => steps_to(a) <= steps_to(b)}

take_port(a) == next_port' = (a + 1) % PortCount

\* Some(endpoint); with the address occupied it is None, and nothing happens.
bind(e, a) ==
    /\ address[e] = 0 /\ ~bound(a)
    /\ sockets' = [sockets EXCEPT ![a] = e]
    /\ address' = [address EXCEPT ![e] = a]
    /\ open' = open \union {e}
    /\ UNCHANGED <<inbox, backlog, wire, sent>>

Bind(e, a) == bind(e, a) /\ UNCHANGED next_port

bind_any(e) == \E a \in fresh : bind(e, a) /\ take_port(a)

unbind(a) ==
    /\ bound(a)
    /\ sockets' = [sockets EXCEPT ![a] = None]
    /\ UNCHANGED <<next_port, address, open, inbox, backlog, wire, sent>>

\* Endpoint::drop removes whatever is bound to its address.
drop(e) ==
    /\ e \in open
    /\ sockets' = [sockets EXCEPT ![address[e]] = None]
    /\ open' = open \ {e}
    /\ inbox' = [inbox EXCEPT ![e] = <<>>] /\ backlog' = [backlog EXCEPT ![e] = <<>>]
    /\ UNCHANGED <<next_port, address, wire, sent>>
-----------------------------------------------------------------------------
(* Datagrams *)

\* Held back by latency; lost if Deliver never comes to it.
send_to(e, a, payload) ==
    /\ e \in open /\ sent < MaxSent /\ sent' = sent + 1
    /\ wire' = wire \union {[from |-> address[e], to |-> a, payload |-> payload]}
    /\ UNCHANGED <<sockets, next_port, address, open, inbox, backlog>>

\* To whoever holds the address now, or nobody.
deliver(m) ==
    /\ wire' = wire \ {m}
    /\ inbox' = IF bound(m.to) THEN [inbox EXCEPT ![sockets[m.to]] = Append(@, m)] ELSE inbox
    /\ UNCHANGED <<sockets, next_port, address, open, backlog, sent>>

\* What was queued before an unbind is still received after it.
recv_from(e) ==
    /\ e \in open /\ inbox[e] # <<>>
    /\ inbox' = [inbox EXCEPT ![e] = Tail(@)]
    /\ UNCHANGED <<sockets, next_port, address, open, backlog, wire, sent>>
-----------------------------------------------------------------------------
(* Connections *)

\* The far end waits in the backlog, with the address the connection seems to come from.
connect(c, a) ==
    \E from \in fresh :
        /\ take_port(from)
        /\ bound(a)
        /\ backlog' = [backlog EXCEPT ![sockets[a]] = Append(@, [call |-> c, from |-> from])]
        /\ UNCHANGED <<sockets, address, open, inbox, wire, sent>>

connection_refused(a) ==
    \E from \in fresh :
        /\ take_port(from) /\ ~bound(a)
        /\ UNCHANGED <<sockets, address, open, inbox, backlog, wire, sent>>

accept(e) ==
    /\ e \in open /\ backlog[e] # <<>>
    /\ backlog' = [backlog EXCEPT ![e] = Tail(@)]
    /\ UNCHANGED <<sockets, next_port, address, open, inbox, wire, sent>>
=============================================================================
