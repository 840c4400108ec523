--------------------------- MODULE RetryTransport ---------------------------
(***************************************************************************)
(* The datagram request/reply transport of a set of nodes: the table of    *)
(* calls in flight (pending.rs), send_receive and the receive loop         *)
(* (rpc_transport/retry_transport.rs), the reply tag (rpc_transport.rs)    *)
(* and the datagram server (handle_rpc.rs).  Every node both calls and     *)
(* serves over one socket.  A call's payload is the call itself, so the    *)
(* answer to call c is "c" and a mixed-up reply is visible.                *)
(***************************************************************************)
EXTENDS Naturals, Sequences

CONSTANTS
    Nodes,
    Calls,          \* invocations of send_receive
    Src, Dst,       \* the node that makes a call, and the node it is made to
    Ids,            \* request ids: 63 bits in the code
    MaxAttempts,    \* MAX_ATTEMPTS, 5 in the code
    QueueCapacity,  \* capacity of the request channel, 64 in the code
    FreshIds,       \* TRUE: a node's random 63-bit draws never repeat
    None

ASSUME EndpointsAssumption == Src \in [Calls -> Nodes] /\ Dst \in [Calls -> Nodes]
ASSUME BoundsAssumption == MaxAttempts \in Nat \ {0} /\ QueueCapacity \in Nat \ {0}
ASSUME FreshAssumption == FreshIds \in BOOLEAN
ASSUME NoneAssumption == None \notin Calls /\ None \notin Ids

VARIABLES
    pc,         \* where send_receive stands, per call
    id,         \* the id a call is registered under
    attempt,    \* datagrams a call has sent
    inbox,      \* the value in a call's oneshot channel, or None
    slots,      \* Pending.slots per node: the call holding the receiver, or None
    drawn,      \* history: the ids a node has drawn
    wire,       \* every datagram ever sent: it may arrive late, often or never
    queue,      \* the request channel of a node
    tasks,      \* the handler tasks a node has spawned
    listening,  \* whether a node's receive loop still runs
    executed    \* history: the calls whose handler has run

callVars == <<pc, id, attempt>>
serverVars == <<queue, tasks, listening, executed>>
vars == <<pc, id, attempt, inbox, slots, drawn, wire, queue, tasks, listening, executed>>

Running == {"sending", "waiting"}
Failed == {"timed_out", "io_error", "panicked", "cancelled"}
Done == {"ok"} \union Failed
Datagrams == [from : Nodes, to : Nodes, id : Ids, reply : BOOLEAN, body : Calls]

\* The request and the reply as framed on the wire: request_id clears the tag,
\* reply_id sets it, so both carry the number the caller drew.
request(c) == [from |-> Src[c], to |-> Dst[c], id |-> id[c], reply |-> FALSE, body |-> c]
reply_to(r) == [from |-> r.to, to |-> r.from, id |-> r.id, reply |-> TRUE, body |-> r.body]

TypeOK ==
    /\ pc \in [Calls -> {"idle"} \union Running \union Done]
    /\ id \in [Calls -> Ids \union {None}]
    /\ attempt \in [Calls -> 0..MaxAttempts]
    /\ inbox \in [Calls -> Calls \union {None}]
    /\ slots \in [Nodes -> [Ids -> Calls \union {None}]]
    /\ drawn \in [Nodes -> SUBSET Ids]
    /\ wire \subseteq Datagrams
    /\ queue \in [Nodes -> Seq(Datagrams)]
    /\ \A n \in Nodes : Len(queue[n]) <= QueueCapacity
    /\ tasks \in [Nodes -> SUBSET Datagrams]
    /\ listening \in [Nodes -> BOOLEAN]
    /\ executed \subseteq Calls

Init ==
    /\ pc = [c \in Calls |-> "idle"]
    /\ id = [c \in Calls |-> None]
    /\ attempt = [c \in Calls |-> 0]
    /\ inbox = [c \in Calls |-> None]
    /\ slots = [n \in Nodes |-> [i \in Ids |-> None]]
    /\ drawn = [n \in Nodes |-> {}]
    /\ wire = {}
    /\ queue = [n \in Nodes |-> <<>>]
    /\ tasks = [n \in Nodes |-> {}]
    /\ listening = [n \in Nodes |-> TRUE]
    /\ executed = {}
-----------------------------------------------------------------------------
(* send_receive *)

\* The loop draws until Pending::register finds the id vacant.
Register(c) ==
    /\ pc[c] = "idle"
    /\ \E i \in Ids :
        /\ slots[Src[c]][i] = None
        /\ FreshIds => i \notin drawn[Src[c]]
        /\ id' = [id EXCEPT ![c] = i]
        /\ slots' = [slots EXCEPT ![Src[c]][i] = c]
        /\ drawn' = [drawn EXCEPT ![Src[c]] = @ \union {i}]
    /\ pc' = [pc EXCEPT ![c] = "sending"]
    /\ UNCHANGED <<attempt, inbox, wire, serverVars>>

SendAttempt(c) ==
    /\ pc[c] = "sending"
    /\ attempt' = [attempt EXCEPT ![c] = @ + 1]
    /\ wire' = wire \union {request(c)}
    /\ pc' = [pc EXCEPT ![c] = "waiting"]
    /\ UNCHANGED <<id, inbox, slots, drawn, serverVars>>

\* Mutant of drop: an abandoned call leaves its slot behind.
drop_forgotten(c) == slots' = IF inbox[c] = None THEN slots ELSE [slots EXCEPT ![Src[c]][id[c]] = None]

\* PendingResponse::drop removes whatever slot stands under the call's id.
drop(c) == slots' = [slots EXCEPT ![Src[c]][id[c]] = None]

End(c, how) ==
    /\ pc' = [pc EXCEPT ![c] = how]
    /\ drop(c)
    /\ UNCHANGED <<id, attempt, inbox, drawn, wire, serverVars>>

SendFails(c) ==
    /\ pc[c] = "sending"
    /\ End(c, "io_error")

\* The reply arm of the select!.
Return(c) ==
    /\ pc[c] = "waiting"
    /\ inbox[c] # None
    /\ End(c, "ok")

\* The same arm when the sender half is gone: poll gives None, unwrap panics.
Panic(c) ==
    /\ pc[c] = "waiting"
    /\ inbox[c] = None
    /\ slots[Src[c]][id[c]] # c
    /\ End(c, "panicked")

\* Mutant of Resend: the timed-out attempt drops the PendingResponse.
Resend_drops(c) ==
    /\ pc[c] = "waiting"
    /\ attempt[c] < MaxAttempts
    /\ pc' = [pc EXCEPT ![c] = "sending"]
    /\ drop(c)
    /\ UNCHANGED <<id, attempt, inbox, drawn, wire, serverVars>>

\* The sleep arm; it may win although a reply is ready.
Resend(c) ==
    /\ pc[c] = "waiting"
    /\ attempt[c] < MaxAttempts
    /\ pc' = [pc EXCEPT ![c] = "sending"]
    /\ UNCHANGED <<id, attempt, inbox, slots, drawn, wire, serverVars>>

TimeOut(c) ==
    /\ pc[c] = "waiting"
    /\ attempt[c] = MaxAttempts
    /\ End(c, "timed_out")

\* The caller drops the future, as lookup_values does with probes it no longer needs.
Cancel(c) ==
    /\ pc[c] \in Running
    /\ End(c, "cancelled")
-----------------------------------------------------------------------------
(* The receive loop.  A datagram it drops changes nothing. *)

\* Mutant of ReceiveReply: any datagram with a pending id is taken for its reply.
ReceiveReply_untagged(n, m) ==
    /\ listening[n]
    /\ m.to = n
    /\ LET c == slots[n][m.id] IN
        /\ c # None
        /\ Dst[c] = m.from
        /\ inbox' = [inbox EXCEPT ![c] = m.body]
    /\ slots' = [slots EXCEPT ![n][m.id] = None]
    /\ UNCHANGED <<callVars, drawn, wire, serverVars>>

\* Mutant of ReceiveReply: the sender of the reply is not compared.
ReceiveReply_any_peer(n, m) ==
    /\ listening[n]
    /\ m.to = n /\ m.reply
    /\ LET c == slots[n][m.id] IN
        /\ c # None
        /\ inbox' = [inbox EXCEPT ![c] = m.body]
    /\ slots' = [slots EXCEPT ![n][m.id] = None]
    /\ UNCHANGED <<callVars, drawn, wire, serverVars>>

\* Pending::deliver.  Taking the slot and sending into the oneshot is one step:
\* in between, the caller can only do what it could do just after.
ReceiveReply(n, m) ==
    /\ listening[n]
    /\ m.to = n /\ m.reply
    /\ LET c == slots[n][m.id] IN
        /\ c # None
        /\ Dst[c] = m.from
        /\ inbox' = [inbox EXCEPT ![c] = m.body]
    /\ slots' = [slots EXCEPT ![n][m.id] = None]
    /\ UNCHANGED <<callVars, drawn, wire, serverVars>>

\* try_send: a full channel sheds the request.
ReceiveRequest(n, m) ==
    /\ listening[n]
    /\ m.to = n /\ ~m.reply
    /\ Len(queue[n]) < QueueCapacity
    /\ queue' = [queue EXCEPT ![n] = Append(@, m)]
    /\ UNCHANGED <<callVars, inbox, slots, drawn, wire, tasks, listening, executed>>

\* receive_packet fails: the loop breaks and never resumes.
StopListening(n) ==
    /\ listening[n]
    /\ listening' = [listening EXCEPT ![n] = FALSE]
    /\ UNCHANGED <<callVars, inbox, slots, drawn, wire, queue, tasks, executed>>
-----------------------------------------------------------------------------
(* serve_datagrams: one task per request. *)

Spawn(n) ==
    /\ queue[n] # <<>>
    /\ tasks' = [tasks EXCEPT ![n] = @ \union {Head(queue[n])}]
    /\ queue' = [queue EXCEPT ![n] = Tail(@)]
    /\ UNCHANGED <<callVars, inbox, slots, drawn, wire, listening, executed>>

\* Mutant of Handle: the reply leaves before the handler has run.
Handle_replies_early(n, r) ==
    /\ r \in tasks[n]
    /\ tasks' = [tasks EXCEPT ![n] = @ \ {r}]
    /\ \/ wire' = wire \union {reply_to(r)} /\ UNCHANGED executed
       \/ wire' = wire /\ executed' = executed \union {r.body}
    /\ UNCHANGED <<callVars, inbox, slots, drawn, queue, listening>>

\* dispatch runs the handler; no reply leaves when it returns None or the send fails.
Handle(n, r) ==
    /\ r \in tasks[n]
    /\ tasks' = [tasks EXCEPT ![n] = @ \ {r}]
    /\ executed' = executed \union {r.body}
    /\ \/ wire' = wire \union {reply_to(r)}
       \/ wire' = wire
    /\ UNCHANGED <<callVars, inbox, slots, drawn, queue, listening>>
-----------------------------------------------------------------------------
CallerStep(c) ==
    SendAttempt(c) \/ SendFails(c) \/ Return(c) \/ Panic(c) \/ Resend(c) \/ TimeOut(c)

Next ==
    \/ \E c \in Calls : Register(c) \/ CallerStep(c) \/ Cancel(c)
    \/ \E n \in Nodes, m \in wire : ReceiveReply(n, m) \/ ReceiveRequest(n, m)
    \/ \E n \in Nodes : StopListening(n) \/ Spawn(n)
    \/ \E n \in Nodes : \E r \in tasks[n] : Handle(n, r)

Spec == Init /\ [][Next]_vars

\* The runtime polls a ready task and fires an elapsed timer; nothing is assumed
\* of the network, of the server or of the callers' own decisions.
FairSpec == Spec /\ \A c \in Calls : WF_vars(CallerStep(c))
-----------------------------------------------------------------------------
(* Properties *)

\* "only ever hands back a response that carried it": a call that returns was
\* answered under its own id, by the peer it asked, from a handler that has run.
\* Holds even when ids repeat: a late reply to an abandoned call can only reach a
\* later call from the same node to the same peer (Pending::deliver).
AnswerFromPeer ==
    \A c \in Calls : pc[c] = "ok" =>
        /\ inbox[c] \in executed
        /\ <<Src[inbox[c]], Dst[inbox[c]], id[inbox[c]]>> = <<Src[c], Dst[c], id[c]>>

\* A call never returns the answer to another call: not a late reply to an
\* abandoned one, and not a request that happens to carry the id awaited here
\* (REPLY_TAG).  Needs ids that do not repeat.
OwnAnswer == \A c \in Calls : pc[c] = "ok" => inbox[c] = c

\* "the slot outlives this await" (send_receive): while a call runs, through every
\* resend, either its slot is registered or its answer has been delivered.
SlotOutlivesAwait ==
    \A c \in Calls : pc[c] \in Running =>
        slots[Src[c]][id[c]] = c \/ inbox[c] # None

\* "Dropping it deregisters the id": a slot belongs to a call still running, so
\* neither a timeout nor an error nor a cancelled caller leaks one.
NoLeakedSlot ==
    \A n \in Nodes : \A i \in Ids : slots[n][i] # None =>
        /\ pc[slots[n][i]] \in Running
        /\ Src[slots[n][i]] = n
        /\ id[slots[n][i]] = i

\* A call that is about to send has an attempt left; it holds an id from the moment
\* it registers, one its node drew; its oneshot is empty until then and full once it
\* has returned.
CallsInOrder ==
    \A c \in Calls :
        /\ pc[c] \in {"idle", "sending"} => attempt[c] < MaxAttempts
        /\ pc[c] = "ok" => inbox[c] # None
        /\ IF pc[c] = "idle" THEN id[c] = None /\ inbox[c] = None
                             ELSE id[c] \in drawn[Src[c]]

\* Every datagram, on the wire or inside a server, was framed for the call it
\* carries: its id and its ends are that call's, and a reply means the handler ran.
Faithful(m) ==
    LET c == m.body IN
    /\ pc[c] # "idle"
    /\ m.id = id[c]
    /\ IF m.reply THEN m.from = Dst[c] /\ m.to = Src[c] /\ c \in executed
                  ELSE m.from = Src[c] /\ m.to = Dst[c]

DatagramsFaithful ==
    /\ \A m \in wire : Faithful(m)
    /\ \A n \in Nodes : \A k \in DOMAIN queue[n] : Faithful(queue[n][k]) /\ ~queue[n][k].reply
    /\ \A n \in Nodes : \A m \in tasks[n] : Faithful(m) /\ ~m.reply

\* What has been delivered to a call carries its id, from its peer (deliver).
DeliveredFaithful ==
    \A c \in Calls : inbox[c] # None =>
        /\ pc[c] # "idle"
        /\ inbox[c] \in executed
        /\ <<Src[inbox[c]], Dst[inbox[c]], id[inbox[c]]>> = <<Src[c], Dst[c], id[c]>>

\* With ids that never repeat, a node and an id name one call.
IdsUnique ==
    \A c, d \in Calls :
        pc[c] # "idle" /\ pc[d] # "idle" /\ Src[c] = Src[d] /\ id[c] = id[d] => c = d

\* The inductive invariant behind AnswerFromPeer and NoLeakedSlot.
IndInv ==
    TypeOK /\ CallsInOrder /\ NoLeakedSlot /\ DatagramsFaithful /\ DeliveredFaithful

\* The inductive invariant behind OwnAnswer, SlotOutlivesAwait and the refinement.
IndInvFresh == IndInv /\ (FreshIds => IdsUnique /\ SlotOutlivesAwait)

outcome == [c \in Calls |->
    CASE pc[c] = "idle" -> "idle"
      [] pc[c] \in Running -> "pending"
      [] pc[c] = "ok" -> "answered"
      [] pc[c] \in Failed -> "failed"]

answered == {<<c, inbox[c]>> : c \in {d \in Calls : pc[d] = "ok"}}

Service == INSTANCE RpcService WITH outcome <- outcome, answered <- answered, executed <- executed

\* The transport implements the promise of RpcService: at-least-once execution,
\* an answer only after execution and only to the call that asked, every call ends.
ImplementsService == Service!Spec
=============================================================================
