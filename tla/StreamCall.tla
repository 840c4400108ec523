----------------------------- MODULE StreamCall -----------------------------
(***************************************************************************)
(* Requests over connections: the client (rpc_transport/stream_framing.rs, *)
(* tcp_transport.rs, Rpc::call), serve_streams and dispatch                *)
(* (handle_rpc.rs), over the in-process network.  There is no length       *)
(* prefix: a message ends where its sender closes, also when the sender    *)
(* gave up half-way or died; what there is of it then goes the same way    *)
(* as a whole one, until something misses what is not there.  The calls    *)
(* are STOREs.  A node's id is the hash of its address and is written as   *)
(* that address.  PINGs show what dispatch learns from a datagram and not  *)
(* from a connection.                                                      *)
(***************************************************************************)
EXTENDS DebugNetwork

CONSTANTS
    Calls,
    Src,            \* the endpoint of the node that makes each call
    Dst,            \* the address it calls
    Size            \* how long the value it stores is, and how many records prove it

ASSUME CallAssumption ==
    Src \in [Calls -> Endpoints] /\ Dst \in [Calls -> Ports] /\ Size \in [Calls -> [value : Nat, proof : Nat]]

VARIABLES
    phase,          \* where dial_and_send is in each call
    up, up_closed,  \* how much of the request has been written, and whether its end is
    server,         \* where the task of the connection is in serve_streams
    conn,           \* the endpoint that accepted it, and where it seems to come from
    down, down_closed,  \* what has been written of the reply, and whether its end is
    error,          \* the io::ErrorKind of a failed call, or None
    table,          \* the routing table of each node
    \* history
    executed,       \* the calls whose handler ran
    refused,        \* those that were refused, or answered under another id
    forgotten       \* those whose failure took the peer out of the table

stream == <<phase, up, up_closed, server, conn, down, down_closed, error>>
history == <<executed, refused, forgotten>>
vars == <<network, stream, table, history>>

Contacts == [id : Ports, address : Ports]
contact(a) == [id |-> a, address |-> a]

\* A request is a sequence of cells: the request id, the sender's id and the method's tag ...
FRAMING == 3

\* ... then the StoreRequest as bincode writes it: the key, the value behind its length, and the
\* records of the proof behind their number.  Cells that are no lengths are written as 0.
encode_request_with_proof(c) ==
    LET n == Size[c].value
        m == Size[c].proof IN
    [i \in 1 .. n + m + 3 |-> IF i = 2 THEN n ELSE IF i = n + 3 THEN m ELSE 0]

length(c) == FRAMING + Len(encode_request_with_proof(c))

Init ==
    /\ NetworkInit
    /\ phase = [c \in Calls |-> "idle"] /\ server = [c \in Calls |-> "none"]
    /\ up = [c \in Calls |-> 0] /\ up_closed = [c \in Calls |-> FALSE]
    /\ down = [c \in Calls |-> "nothing"] /\ down_closed = [c \in Calls |-> FALSE]
    /\ conn = [c \in Calls |-> [by |-> None, from |-> 0]]
    /\ error = [c \in Calls |-> None]
    /\ table = [e \in Endpoints |-> {contact(a) : a \in {b \in Ports : bound(b) /\ sockets[b] # e}}]
    /\ executed = {} /\ refused = {} /\ forgotten = {}
-----------------------------------------------------------------------------
(* The caller *)

\* A bug: a peer that closes without an answer is taken for dead.
peer_is_gone_eof(kind) == kind \in {"TimedOut", "ConnectionRefused", "ConnectionReset", "UnexpectedEof"}

peer_is_gone(kind) == kind \in {"TimedOut", "ConnectionRefused", "ConnectionReset"}

\* Rpc::call: the stream is dropped, and forget may take the peer out of the table.
Fail(c, kind) ==
    /\ phase' = [phase EXCEPT ![c] = "failed"]
    /\ error' = [error EXCEPT ![c] = kind]
    /\ up_closed' = [up_closed EXCEPT ![c] = TRUE]
    /\ \/ UNCHANGED <<table, forgotten>>
       \/ /\ peer_is_gone(kind)
          /\ table' = [table EXCEPT ![Src[c]] = @ \ {contact(Dst[c])}]
          /\ forgotten' = forgotten \union {c}

\* send_receive: the deadline runs from here.
Call(c) ==
    /\ phase[c] = "idle" /\ Src[c] \in open
    /\ phase' = [phase EXCEPT ![c] = "dialling"]
    /\ UNCHANGED <<network, up, up_closed, server, conn, down, down_closed, error, table, history>>

Dial(c) ==
    /\ phase[c] = "dialling"
    /\ connect(c, Dst[c])
    /\ phase' = [phase EXCEPT ![c] = "writing"]
    /\ UNCHANGED <<up, up_closed, server, conn, down, down_closed, error, table, history>>

DialFails(c) ==
    /\ phase[c] = "dialling"
    /\ connection_refused(Dst[c])
    /\ Fail(c, "ConnectionRefused")
    /\ UNCHANGED <<up, server, conn, down, down_closed, executed, refused>>

\* The id and the payload, as much at a time as the connection takes, then shutdown.
Write(c) ==
    /\ phase[c] = "writing" /\ ~down_closed[c]
    /\ \E n \in up[c] + 1 .. length(c) :
        /\ up' = [up EXCEPT ![c] = n]
        /\ up_closed' = [up_closed EXCEPT ![c] = n = length(c)]
        /\ phase' = [phase EXCEPT ![c] = IF n = length(c) THEN "reading" ELSE @]
    /\ UNCHANGED <<network, server, conn, down, down_closed, error, table, history>>

WriteFails(c) ==
    /\ phase[c] = "writing" /\ down_closed[c]
    /\ \E kind \in {"BrokenPipe", "ConnectionReset"} : Fail(c, kind)
    /\ UNCHANGED <<network, up, server, conn, down, down_closed, executed, refused>>

\* A reply that ends within its id is an error, and so is one under another id; what follows the
\* id is the reply, cut off or not.
Read(c) ==
    /\ phase[c] = "reading" /\ down_closed[c]
    /\ \/ /\ down[c] \in {"part", "whole"}
          /\ phase' = [phase EXCEPT ![c] = "done"]
          /\ UNCHANGED <<up_closed, error, table, forgotten>>
       \/ down[c] = "nothing" /\ Fail(c, "UnexpectedEof")
       \/ down[c] = "other" /\ Fail(c, "InvalidData")
       \/ server[c] = "dead" /\ Fail(c, "ConnectionReset")
    /\ UNCHANGED <<network, up, server, conn, down, down_closed, executed, refused>>

\* STREAM_DEADLINE passes, while dialling too; what was written so far is all there will be.
Deadline(c) ==
    /\ phase[c] \in {"dialling", "writing", "reading"}
    /\ Fail(c, "TimedOut")
    /\ UNCHANGED <<network, up, server, conn, down, down_closed, executed, refused>>

\* Rpc::store_with_proof: true if the reply is STORED.
store(c) == phase[c] = "done" /\ down[c] = "whole"
-----------------------------------------------------------------------------
(* The server *)

\* The task of c is over and its stream closed.
end_task(c, label, reply) ==
    /\ server' = [server EXCEPT ![c] = label]
    /\ down' = [down EXCEPT ![c] = reply]
    /\ down_closed' = [down_closed EXCEPT ![c] = TRUE]

Accept(e) ==
    /\ accept(e)
    /\ server' = [server EXCEPT ![Head(backlog[e]).call] = "reading"]
    /\ conn' = [conn EXCEPT ![Head(backlog[e]).call] = [by |-> e, from |-> Head(backlog[e]).from]]
    /\ UNCHANGED <<phase, up, up_closed, down, down_closed, error, table, history>>

\* from_connection and parse_framed: there is an id, a sender and a method.
framed(c) == up[c] >= FRAMING

\* What has arrived behind the framing.
body(c) == SubSeq(encode_request_with_proof(c), 1, up[c] - FRAMING)

\* A bug: a request that ends before the proof is one without a proof.
deserialize_lenient(b) ==
    /\ Len(b) >= 2 /\ Len(b) >= b[2] + 2
    /\ Len(b) >= b[2] + 3 => Len(b) >= b[2] + 3 + b[b[2] + 3]

\* bincode::deserialize: it reads the fields in their order, as many cells as the lengths call
\* for, fails if it runs out of them, and does not mind what is left over.
deserialize(b) == Len(b) >= 2 /\ Len(b) >= b[2] + 3 /\ Len(b) >= b[2] + 3 + b[b[2] + 3]

\* A bug: the sender of every request is learned.
learn_always(c) ==
    table' = [table EXCEPT ![conn[c].by] = @ \union {[id |-> address[Src[c]], address |-> conn[c].from]}]

\* dispatch, off a connection: from_is_reachable is false.
learn(c) == UNCHANGED table

\* The request has been read to its end, wherever that is.
ReadRequest(c) ==
    /\ server[c] = "reading" /\ up_closed[c]
    /\ IF framed(c)
       THEN learn(c) /\ server' = [server EXCEPT ![c] = "handling"] /\ UNCHANGED <<down, down_closed>>
       ELSE end_task(c, "over", "nothing") /\ UNCHANGED table
    /\ UNCHANGED <<network, phase, up, up_closed, conn, error, history>>

\* store::handle carries it out.
Handle(c) ==
    /\ server[c] = "handling" /\ deserialize(body(c))
    /\ executed' = executed \union {c}
    /\ server' = [server EXCEPT ![c] = "replying"]
    /\ UNCHANGED <<network, phase, up, up_closed, conn, down, down_closed, error, table, refused, forgotten>>

\* A bug: a request that is declined is acknowledged.
RefuseRequest_stored(c) ==
    /\ server[c] = "handling"
    /\ refused' = refused \union {c}
    /\ end_task(c, "over", "whole")
    /\ UNCHANGED <<network, phase, up, up_closed, conn, error, table, executed, forgotten>>

\* The handler returns None, because the body does not decode or it will not have the value: the
\* stream is shut down with no reply on it.
RefuseRequest(c) ==
    /\ server[c] = "handling"
    /\ refused' = refused \union {c}
    /\ end_task(c, "over", "nothing")
    /\ UNCHANGED <<network, phase, up, up_closed, conn, error, table, executed, forgotten>>

\* What listens is no node, and answers under an id of its own.
Misanswer(c) ==
    /\ server[c] = "reading" /\ up_closed[c]
    /\ refused' = refused \union {c}
    /\ end_task(c, "over", "other")
    /\ UNCHANGED <<network, phase, up, up_closed, conn, error, table, executed, forgotten>>

\* Nobody reads the reply of a call that was given up.
Reply(c) ==
    /\ server[c] = "replying"
    /\ end_task(c, "over", IF phase[c] = "failed" THEN "nothing" ELSE "whole")
    /\ UNCHANGED <<network, phase, up, up_closed, conn, error, table, history>>

\* The process of the server dies, perhaps in the middle of the reply.
Die(c) ==
    /\ server[c] \in {"reading", "handling", "replying"}
    /\ \E reply \in {"nothing", "part"} :
        /\ reply = "part" => server[c] = "replying"
        /\ end_task(c, "dead", reply)
    /\ UNCHANGED <<network, phase, up, up_closed, conn, error, table, history>>
-----------------------------------------------------------------------------
(* Endpoints come and go, and PING each other *)

Open(e) ==
    /\ \/ bind_any(e)
       \/ \E a \in Ports : Bind(e, a)
    /\ UNCHANGED <<stream, table, history>>

Unbind(a) == unbind(a) /\ UNCHANGED <<stream, table, history>>

\* The connections in the backlog are dropped with it.
Drop(e) ==
    /\ drop(e)
    /\ down_closed' = [c \in Calls |-> down_closed[c] \/ \E i \in DOMAIN backlog[e] : backlog[e][i].call = c]
    /\ UNCHANGED <<phase, up, up_closed, server, conn, down, error, table, history>>

Ping(e, a) == send_to(e, a, address[e]) /\ UNCHANGED <<stream, table, history>>

Deliver(m) == deliver(m) /\ UNCHANGED <<stream, table, history>>

\* dispatch: "An arriving request is evidence its sender is alive".
Receive(e) ==
    /\ recv_from(e)
    /\ table' = [table EXCEPT ![e] = @ \union {[id |-> Head(inbox[e]).payload, address |-> Head(inbox[e]).from]}]
    /\ UNCHANGED <<stream, history>>
-----------------------------------------------------------------------------
CallerStep(c) == Call(c) \/ Dial(c) \/ DialFails(c) \/ Write(c) \/ WriteFails(c) \/ Read(c) \/ Deadline(c)
TaskStep(c) == ReadRequest(c) \/ Handle(c) \/ RefuseRequest(c) \/ Misanswer(c) \/ Reply(c) \/ Die(c)
EndpointStep(e) ==
    \/ Open(e) \/ Drop(e) \/ Accept(e) \/ Receive(e)
    \/ \E a \in Ports : Ping(e, a)

Next ==
    \/ \E c \in Calls : CallerStep(c) \/ TaskStep(c)
    \/ \E e \in Endpoints : EndpointStep(e)
    \/ \E a \in Ports : Unbind(a)
    \/ \E m \in wire : Deliver(m)

Spec == Init /\ [][Next]_vars

\* A call that has begun goes on or runs into its deadline.
FairSpec == Spec /\ \A c \in Calls : WF_vars(phase[c] # "idle" /\ CallerStep(c))
-----------------------------------------------------------------------------
(* Properties *)

Datagrams == {[from |-> a, to |-> b, payload |-> a] : a \in Ports, b \in Ports}
Connections == [call : Calls, from : Ports]

\* Every binding is that of an open endpoint at its own address, and PINGs carry the id of the
\* address they come from.
TypeOK ==
    /\ sockets \in [Ports -> Endpoints \union {None}] /\ next_port \in 0 .. PortCount - 1
    /\ address \in [Endpoints -> Ports \union {0}] /\ open \subseteq Endpoints
    /\ \A a \in Ports : bound(a) => sockets[a] \in open /\ address[sockets[a]] = a
    /\ \A e \in open : address[e] \in Ports
    /\ inbox \in [Endpoints -> Seq(Datagrams)] /\ wire \subseteq Datagrams
    /\ backlog \in [Endpoints -> Seq(Connections)]
    /\ phase \in [Calls -> {"idle", "dialling", "writing", "reading", "done", "failed"}]
    /\ server \in [Calls -> {"none", "reading", "handling", "replying", "over", "dead"}]
    /\ up \in [Calls -> Nat] /\ down \in [Calls -> {"nothing", "part", "whole", "other"}]
    /\ conn \in [Calls -> [by : Endpoints \union {None}, from : Ports \union {0}]]
    /\ error \in [Calls -> {"TimedOut", "ConnectionRefused", "ConnectionReset", "BrokenPipe", "UnexpectedEof",
                            "InvalidData", None}]
    /\ up_closed \in [Calls -> BOOLEAN] /\ down_closed \in [Calls -> BOOLEAN]
    /\ table \in [Endpoints -> SUBSET Contacts]
    /\ executed \subseteq Calls /\ refused \subseteq Calls /\ forgotten \subseteq Calls

\* A request that was cut off anywhere, by the deadline or by a crash, is never carried out,
\* though its end looks like the end of a whole one and it reaches the handler: no part of what
\* encode_request_with_proof writes but the whole decodes.
WholeRequestsOnly == \A c \in executed : up[c] = length(c)

\* A peer that refuses a request, or answers it under another id, is not taken for dead: over a
\* connection the caller can tell.  One whose refusal comes after STREAM_DEADLINE may be: the
\* call has ended with TimedOut before.
RefusalIsNotDeath == \A c \in refused \intersect forgotten : error[c] = "TimedOut"

\* Routing tables only learn addresses that their node was bound to, never the port a connection
\* came from, however often ports wrap around.
LearnedIsReachable == \A e \in Endpoints : \A k \in table[e] : k.id = k.address

waiting(c) == \E e \in Endpoints : \E i \in 1 .. Len(backlog[e]) : backlog[e][i].call = c

\* A connection waits in one place, and until somebody accepts it or drops the endpoint it is
\* neither served nor closed.
BacklogInOrder ==
    /\ \A e \in Endpoints : \A i \in 1 .. Len(backlog[e]) :
        LET c == backlog[e][i].call IN
        phase[c] \notin {"idle", "dialling"} /\ server[c] = "none" /\ ~down_closed[c]
    /\ \A e, f \in Endpoints : \A i \in 1 .. Len(backlog[e]), j \in 1 .. Len(backlog[f]) :
        backlog[e][i].call = backlog[f][j].call => e = f /\ i = j

\* The two ends of a connection keep step: the server is not ahead of the caller, nor the
\* caller of what the server has done.
EndsInStep ==
    \A c \in Calls :
        /\ up[c] <= length(c)
        /\ phase[c] \in {"idle", "dialling"} => server[c] = "none" /\ ~down_closed[c]
        /\ phase[c] \in {"idle", "dialling", "writing"} => ~up_closed[c]
        /\ server[c] \in {"handling", "replying"} \/ c \in refused => up_closed[c]
        /\ phase[c] = "done" => down_closed[c]
        /\ server[c] = "replying" => c \in executed
        /\ down[c] = "whole" => c \in executed
        /\ down_closed[c] => server[c] \in {"none", "over", "dead"}

\* A refusal is the last thing a server does, and a call lost for any reason but time has no
\* server any more that could refuse it.
RefusalsAreLast ==
    \A c \in Calls :
        /\ c \in refused => server[c] = "over"
        /\ c \in forgotten => phase[c] = "failed"
        /\ c \in forgotten /\ error[c] # "TimedOut" =>
            c \notin refused /\ ~waiting(c) /\ server[c] \in {"none", "over", "dead"}

\* The inductive invariant behind the properties and the refinement.
IndInv == TypeOK /\ LearnedIsReachable /\ BacklogInOrder /\ EndsInStep /\ WholeRequestsOnly /\ RefusalsAreLast

outcome_of(c) ==
    CASE phase[c] = "idle" -> "idle"
      [] store(c) -> "answered"
      [] phase[c] \in {"failed", "done"} /\ ~store(c) -> "failed"
      [] phase[c] \in {"dialling", "writing", "reading"} -> "pending"

outcome == [c \in Calls |-> outcome_of(c)]

\* Nothing but its own reply comes back on a connection.
answered == {<<c, c>> : c \in {d \in Calls : store(d)}}

Service == INSTANCE RpcService WITH outcome <- outcome, answered <- answered, executed <- executed

\* A connection keeps the promises of a transport: an answer is that of the called node, which has
\* run the request, and every call ends.
ImplementsService == Service!Spec
=============================================================================
