-------------------------- MODULE StreamCallProofs --------------------------
(***************************************************************************)
(* StreamCall for any number of endpoints, ports and calls: bindings are   *)
(* consistent, requests cut off are never carried out, a refusal is not    *)
(* taken for death, ephemeral ports are never learned, and a connection    *)
(* implements RpcService.                                                  *)
(***************************************************************************)
EXTENDS StreamCall, SequenceTheorems, TLAPS

\* What the two ends of the connections depend on, besides the network.
ends == <<phase, up, up_closed, server, down, down_closed, error, refused, executed, forgotten>>

\* A step that touches neither connections nor their backlog keeps their invariants.
LEMMA EndsUntouched ==
    ASSUME IndInv, UNCHANGED <<ends, backlog>>
    PROVE  BacklogInOrder' /\ EndsInStep' /\ WholeRequestsOnly' /\ RefusalsAreLast'
<1> USE DEF IndInv, ends
<1>1. BacklogInOrder'
  BY DEF BacklogInOrder
<1>2. EndsInStep'
  BY Zenon DEF EndsInStep
<1>3. WholeRequestsOnly'
  BY Zenon DEF WholeRequestsOnly
<1>4. RefusalsAreLast'
  BY Zenon DEF RefusalsAreLast, waiting
<1> QED  BY <1>1, <1>2, <1>3, <1>4, Zenon

\* A bound port is an endpoint's, and all ports are numbers.
LEMMA PortFacts ==
    ASSUME TypeOK
    PROVE  /\ PortCount \in Nat /\ 0 \notin Ports /\ Ports \subseteq Nat
           /\ \A a \in Ports : bound(a) => sockets[a] \in Endpoints
           /\ \A a \in fresh : a \in Ports /\ (a + 1) % PortCount \in 0 .. PortCount - 1
BY PortAssumption DEF TypeOK, Ports, bound, fresh

\* A request is as long as its framing, the key, the two lengths, the value and the proof.
LEMMA LengthFacts ==
    ASSUME NEW c \in Calls
    PROVE  /\ Size[c].value \in Nat /\ Size[c].proof \in Nat
           /\ encode_request_with_proof(c) \in Seq(Nat)
           /\ Len(encode_request_with_proof(c)) = Size[c].value + Size[c].proof + 3
           /\ length(c) = Size[c].value + Size[c].proof + 6 /\ length(c) \in Nat
<1> DEFINE n == Size[c].value
           m == Size[c].proof
           e == encode_request_with_proof(c)
<1>1. n \in Nat /\ m \in Nat
  BY CallAssumption
<1>2. n + m + 3 \in Nat /\ \A i \in 1 .. n + m + 3 : (IF i = 2 THEN n ELSE IF i = n + 3 THEN m ELSE 0) \in Nat
  BY <1>1
<1>3. e = [i \in 1 .. n + m + 3 |-> IF i = 2 THEN n ELSE IF i = n + 3 THEN m ELSE 0]
  BY Zenon DEF encode_request_with_proof
<1> HIDE DEF n, m, e
<1>4. e \in Seq(Nat) /\ Len(e) = n + m + 3
  BY <1>2, <1>3
<1>5. length(c) = n + m + 6
  BY <1>1, <1>4 DEF length, FRAMING, e
<1> QED  BY <1>1, <1>4, <1>5 DEF n, m, e

\* Of what encode_request_with_proof writes only the whole decodes: the lengths say how much is
\* missing from a part.
LEMMA PartsDoNotDecode ==
    ASSUME NEW c \in Calls, up[c] \in Nat, up[c] <= length(c), deserialize(body(c))
    PROVE  up[c] = length(c)
<1> DEFINE n == Size[c].value
           m == Size[c].proof
           k == up[c] - FRAMING
           e == encode_request_with_proof(c)
           b == body(c)
<1>1. /\ n \in Nat /\ m \in Nat /\ k \in Int /\ k <= n + m + 3 /\ up[c] = k + 3 /\ length(c) = n + m + 6
      /\ e \in Seq(Nat) /\ Len(e) = n + m + 3
  <2>1. n \in Nat /\ m \in Nat /\ length(c) = n + m + 6 /\ e \in Seq(Nat) /\ Len(e) = n + m + 3
    BY LengthFacts, Zenon
  <2>2. k = up[c] - 3
    BY Zenon DEF FRAMING
  <2> HIDE DEF n, m, k, e, b
  <2> QED  BY <2>1, <2>2
<1>2. e = [i \in 1 .. n + m + 3 |-> IF i = 2 THEN n ELSE IF i = n + 3 THEN m ELSE 0] /\ b = SubSeq(e, 1, k)
  BY Zenon DEF encode_request_with_proof, body
<1>3. deserialize(b)
  OBVIOUS
<1> HIDE DEF n, m, k, e, b
<1>4. Len(b) = (IF 1 <= k THEN k ELSE 0) /\ \A i \in 1 .. k : b[i] = e[i]
  <2>1. \A i \in 1 .. k : e[i] \in Nat
    BY <1>1
  <2>2. /\ Len(SubSeq(e, 1, k)) = IF 1 <= k THEN k - 1 + 1 ELSE 0
        /\ \A i \in 1 .. k - 1 + 1 : SubSeq(e, 1, k)[i] = e[1 + i - 1]
    BY <1>1, <2>1, SubSeqProperties, 1 \in Int
  <2> QED  BY <1>1, <1>2, <2>2
<1>5. k >= 2 /\ k >= b[2] + 3 /\ k >= b[2] + 3 + b[b[2] + 3]
  BY <1>1, <1>3, <1>4 DEF deserialize
<1>6. b[2] = n
  BY <1>1, <1>2, <1>4, <1>5
<1>7. b[n + 3] = m
  BY <1>1, <1>2, <1>4, <1>5, <1>6
<1> QED  BY <1>1, <1>5, <1>6, <1>7

LEMMA InitInv == Init => IndInv
<1> SUFFICES ASSUME Init
             PROVE  IndInv
  BY Zenon
<1> USE DEF Init, NetworkInit
<1>1. /\ \A e \in Endpoints : ~closed(e) => address[e] \in Ports /\ sockets[address[e]] = e
      /\ \A e \in Endpoints : closed(e) => address[e] = 0
  BY StartAssumption, PortAssumption, Zenon DEF closed, Ports
<1>2. /\ sockets \in [Ports -> Endpoints \union {None}] /\ next_port \in 0 .. PortCount - 1
      /\ address \in [Endpoints -> Ports \union {0}] /\ open \subseteq Endpoints
      /\ \A e \in open : address[e] \in Ports
  BY <1>1, StartAssumption, PortAssumption DEF Ports
<1>3. \A a \in Ports : bound(a) => sockets[a] \in open /\ address[sockets[a]] = a
  BY <1>1, <1>2, StartAssumption DEF bound, closed, Ports
<1>4. inbox \in [Endpoints -> Seq(Datagrams)] /\ backlog \in [Endpoints -> Seq(Connections)] /\ wire \subseteq Datagrams
  BY EmptySeq, Zenon
<1>5. table \in [Endpoints -> SUBSET Contacts]
  BY DEF Contacts, contact
<1>6. conn \in [Calls -> [by : Endpoints \union {None}, from : Ports \union {0}]]
  BY Zenon
<1>7. TypeOK
  BY <1>2, <1>3, <1>4, <1>5, <1>6, Zenon DEF TypeOK
<1>8. LearnedIsReachable
  BY DEF LearnedIsReachable, contact
<1>9. \A e \in Endpoints : Len(backlog[e]) = 0
  BY Zenon
<1>10. BacklogInOrder
  BY <1>9 DEF BacklogInOrder
<1>11. \A c \in Calls : up[c] = 0 /\ 0 <= length(c)
  BY LengthFacts
<1>12. EndsInStep /\ WholeRequestsOnly /\ RefusalsAreLast
  BY <1>11, Zenon DEF EndsInStep, WholeRequestsOnly, RefusalsAreLast
<1> QED  BY <1>7, <1>8, <1>10, <1>12, Zenon DEF IndInv
-----------------------------------------------------------------------------
(* Endpoints and datagrams *)

\* A binding that begins: at a free port, of an endpoint that had none.
LEMMA OpenInv ==
    ASSUME IndInv, NEW e \in Endpoints, Open(e)
    PROVE  IndInv'
<1>a. /\ TypeOK /\ next_port \in 0 .. PortCount - 1
      /\ \A a \in fresh : a \in Ports /\ (a + 1) % PortCount \in 0 .. PortCount - 1
  BY PortFacts, Zenon DEF IndInv, TypeOK
<1>b. (\E a \in Ports : Bind(e, a)) => \E a \in Ports : bind(e, a) /\ next_port' \in 0 .. PortCount - 1
  BY <1>a, Zenon DEF Bind
<1>c. bind_any(e) => \E a \in Ports : bind(e, a) /\ next_port' \in 0 .. PortCount - 1
  BY <1>a, Zenon DEF bind_any, take_port
<1>1. PICK a \in Ports : bind(e, a) /\ next_port' \in 0 .. PortCount - 1
  BY <1>b, <1>c, Zenon DEF Open
<1>2. UNCHANGED <<stream, table, history, backlog, inbox, wire>>
  BY <1>1, Zenon DEF Open, bind
<1>3. UNCHANGED <<ends, backlog>>
  BY <1>2, Zenon DEF stream, history, ends
<1>4. e \notin open
  BY <1>1, PortFacts, Zenon DEF bind, IndInv, TypeOK
<1>5. /\ sockets' \in [Ports -> Endpoints \union {None}]
      /\ address' \in [Endpoints -> Ports \union {0}] /\ open' \subseteq Endpoints
      /\ \A b \in Ports : sockets'[b] # None => sockets'[b] \in open' /\ address'[sockets'[b]] = b
      /\ \A f \in open' : address'[f] \in Ports
  BY <1>1, <1>4, NoneAssumption, PortFacts DEF bind, bound, IndInv, TypeOK
<1>6. TypeOK'
  BY <1>1, <1>2, <1>5, Zenon DEF IndInv, TypeOK, bound, stream, history
<1>7. LearnedIsReachable'
  BY <1>2, Zenon DEF IndInv, LearnedIsReachable
<1> QED  BY <1>3, <1>6, <1>7, EndsUntouched, Zenon DEF IndInv

LEMMA UnbindInv ==
    ASSUME IndInv, NEW a \in Ports, Unbind(a)
    PROVE  IndInv'
<1>1. sockets' = [sockets EXCEPT ![a] = None] /\ UNCHANGED <<next_port, address, open, inbox, backlog, wire>>
  BY Zenon DEF Unbind, unbind
<1>2. UNCHANGED <<stream, table, history>>
  BY Zenon DEF Unbind
<1>3. TypeOK'
  BY <1>1, <1>2, Zenon DEF IndInv, TypeOK, bound, stream, history
<1>4. UNCHANGED <<ends, backlog>> /\ LearnedIsReachable'
  BY <1>1, <1>2, Zenon DEF stream, history, ends, IndInv, LearnedIsReachable
<1> QED  BY <1>3, <1>4, EndsUntouched, Zenon DEF IndInv

LEMMA PingInv ==
    ASSUME IndInv, NEW e \in Endpoints, NEW a \in Ports, Ping(e, a)
    PROVE  IndInv'
<1>1. /\ wire' = wire \union {[from |-> address[e], to |-> a, payload |-> address[e]]} /\ e \in open
      /\ UNCHANGED <<sockets, next_port, address, open, inbox, backlog, stream, table, history>>
  BY Zenon DEF Ping, send_to
<1>2. wire' \subseteq Datagrams
  BY <1>1 DEF Datagrams, IndInv, TypeOK
<1>3. TypeOK'
  BY <1>1, <1>2, Zenon DEF IndInv, TypeOK, bound, stream, history
<1>4. UNCHANGED <<ends, backlog>> /\ LearnedIsReachable'
  BY <1>1, Zenon DEF stream, history, ends, IndInv, LearnedIsReachable
<1> QED  BY <1>3, <1>4, EndsUntouched, Zenon DEF IndInv

LEMMA DeliverInv ==
    ASSUME IndInv, NEW m \in wire, Deliver(m)
    PROVE  IndInv'
<1>1. /\ wire' = wire \ {m}
      /\ inbox' = IF bound(m.to) THEN [inbox EXCEPT ![sockets[m.to]] = Append(@, m)] ELSE inbox
      /\ UNCHANGED <<sockets, next_port, address, open, backlog, stream, table, history>>
  BY Zenon DEF Deliver, deliver
<1>2. m \in Datagrams /\ m.to \in Ports
  BY DEF Datagrams, IndInv, TypeOK
<1>3. inbox' \in [Endpoints -> Seq(Datagrams)]
  BY <1>1, <1>2 DEF IndInv, TypeOK
<1>4. TypeOK'
  BY <1>1, <1>3, Zenon DEF IndInv, TypeOK, bound, stream, history
<1>5. UNCHANGED <<ends, backlog>> /\ LearnedIsReachable'
  BY <1>1, Zenon DEF stream, history, ends, IndInv, LearnedIsReachable
<1> QED  BY <1>4, <1>5, EndsUntouched, Zenon DEF IndInv

\* What is learned from a PING is the address it came from, under the id of that address.
LEMMA ReceiveInv ==
    ASSUME IndInv, NEW e \in Endpoints, Receive(e)
    PROVE  IndInv'
<1> DEFINE m == Head(inbox[e])
<1>1. /\ inbox[e] # <<>> /\ inbox' = [inbox EXCEPT ![e] = Tail(@)]
      /\ table' = [table EXCEPT ![e] = @ \union {[id |-> m.payload, address |-> m.from]}]
      /\ UNCHANGED <<sockets, next_port, address, open, backlog, wire, stream, history>>
  BY Zenon DEF Receive, recv_from
<1>2. inbox[e] \in Seq(Datagrams)
  BY Zenon DEF IndInv, TypeOK
<1>3. m \in Datagrams /\ Tail(inbox[e]) \in Seq(Datagrams)
  BY <1>1, <1>2, HeadTailProperties, Zenon
<1>4. m.payload = m.from /\ m.from \in Ports
  BY <1>3 DEF Datagrams
<1>5. inbox' \in [Endpoints -> Seq(Datagrams)] /\ table' \in [Endpoints -> SUBSET Contacts]
  BY <1>1, <1>3, <1>4 DEF IndInv, TypeOK, Contacts
<1>6. TypeOK'
  BY <1>1, <1>5, Zenon DEF IndInv, TypeOK, bound, stream, history
<1>7. LearnedIsReachable'
  BY <1>1, <1>4 DEF IndInv, TypeOK, LearnedIsReachable
<1>8. UNCHANGED <<ends, backlog>>
  BY <1>1, Zenon DEF stream, history, ends
<1> QED  BY <1>6, <1>7, <1>8, EndsUntouched, Zenon DEF IndInv
-----------------------------------------------------------------------------
(* The caller *)

\* What a step of one call owes when it leaves bindings and backlogs alone.
LEMMA NetworkKept ==
    ASSUME IndInv, UNCHANGED <<sockets, address, open, inbox, wire, backlog>>, next_port' \in 0 .. PortCount - 1,
           phase' \in [Calls -> {"idle", "dialling", "writing", "reading", "done", "failed"}],
           server' \in [Calls -> {"none", "reading", "handling", "replying", "over", "dead"}],
           up' \in [Calls -> Nat], down' \in [Calls -> {"nothing", "part", "whole", "other"}],
           error' \in [Calls -> {"TimedOut", "ConnectionRefused", "ConnectionReset", "BrokenPipe", "UnexpectedEof",
                                 "InvalidData", None}],
           up_closed' \in [Calls -> BOOLEAN], down_closed' \in [Calls -> BOOLEAN], conn' = conn,
           table' \in [Endpoints -> SUBSET Contacts],
           executed' \subseteq Calls, refused' \subseteq Calls, forgotten' \subseteq Calls
    PROVE  TypeOK'
BY Zenon DEF IndInv, TypeOK, bound

\* The calls in the backlogs are calls.
LEMMA WaitingCalls ==
    ASSUME IndInv
    PROVE  \A e \in Endpoints : /\ backlog[e] \in Seq(Connections)
                               /\ \A i \in 1 .. Len(backlog[e]) : backlog[e][i].call \in Calls
<1> SUFFICES ASSUME NEW e \in Endpoints
             PROVE  /\ backlog[e] \in Seq(Connections)
                    /\ \A i \in 1 .. Len(backlog[e]) : backlog[e][i].call \in Calls
  BY Zenon
<1>1. backlog[e] \in Seq(Connections)
  BY Zenon DEF IndInv, TypeOK
<1>2. \A i \in 1 .. Len(backlog[e]) : backlog[e][i] \in Connections
  BY <1>1, ElementOfSeq, Zenon
<1> QED  BY <1>1, <1>2, Zenon DEF Connections

\* While the backlogs stay the same, they stay in order if no waiting call is served or closed.
LEMMA BacklogKept ==
    ASSUME IndInv, UNCHANGED backlog,
           \A d \in Calls : waiting(d) => phase'[d] \notin {"idle", "dialling"} /\ server'[d] = "none" /\ ~down_closed'[d]
    PROVE  BacklogInOrder'
<1>1. \A e \in Endpoints : \A i \in 1 .. Len(backlog[e]) : backlog[e][i].call \in Calls /\ waiting(backlog[e][i].call)
  BY WaitingCalls, Zenon DEF waiting
<1>2. \A e \in Endpoints : \A i \in 1 .. Len(backlog'[e]) :
        LET c == backlog'[e][i].call IN
        phase'[c] \notin {"idle", "dialling"} /\ server'[c] = "none" /\ ~down_closed'[c]
  BY <1>1, Zenon
<1>3. \A e, f \in Endpoints : \A i \in 1 .. Len(backlog'[e]), j \in 1 .. Len(backlog'[f]) :
        backlog'[e][i].call = backlog'[f][j].call => e = f /\ i = j
  BY DEF IndInv, BacklogInOrder
<1> QED  BY <1>2, <1>3, Zenon DEF BacklogInOrder

\* Of a waiting call the server's end has done nothing, and the caller's is past connect.
LEMMA WaitingIsFresh ==
    ASSUME IndInv, NEW d \in Calls, waiting(d)
    PROVE  phase[d] \notin {"idle", "dialling"} /\ server[d] = "none" /\ ~down_closed[d]
BY DEF IndInv, BacklogInOrder, waiting

\* A call in progress fails, for a reason that is not taken for death unless nobody is there to
\* answer or time ran out.
LEMMA FailInv ==
    ASSUME IndInv, NEW c \in Calls, phase[c] \in {"dialling", "writing", "reading"},
           NEW kind \in {"TimedOut", "ConnectionRefused", "ConnectionReset", "BrokenPipe", "UnexpectedEof", "InvalidData"},
           Fail(c, kind), UNCHANGED <<sockets, address, open, inbox, wire, backlog>>, next_port' \in 0 .. PortCount - 1,
           UNCHANGED <<up, server, conn, down, down_closed, executed, refused>>,
           peer_is_gone(kind) /\ kind # "TimedOut" =>
                c \notin refused /\ ~waiting(c) /\ server[c] \in {"none", "over", "dead"}
    PROVE  IndInv'
<1>1. /\ phase' = [phase EXCEPT ![c] = "failed"] /\ error' = [error EXCEPT ![c] = kind]
      /\ up_closed' = [up_closed EXCEPT ![c] = TRUE]
      /\ forgotten' = forgotten \/ (forgotten' = forgotten \union {c} /\ peer_is_gone(kind))
      /\ table' = table \/ table' = [table EXCEPT ![Src[c]] = @ \ {contact(Dst[c])}]
  BY Zenon DEF Fail
<1>2. \A e \in Endpoints : table[e] \subseteq Contacts /\ table'[e] \subseteq table[e]
  <2>1. table \in [Endpoints -> SUBSET Contacts]
    BY Zenon DEF IndInv, TypeOK
  <2>2. CASE table' = table
    BY <2>1, <2>2, Zenon
  <2>3. CASE table' = [table EXCEPT ![Src[c]] = @ \ {contact(Dst[c])}]
    BY <2>1, <2>3, Zenon
  <2> QED  BY <1>1, <2>2, <2>3, Zenon
<1>3. table' \in [Endpoints -> SUBSET Contacts] /\ LearnedIsReachable'
  BY <1>1, <1>2, Zenon DEF IndInv, TypeOK, LearnedIsReachable
<1>4. TypeOK'
  <2>1. /\ phase' \in [Calls -> {"idle", "dialling", "writing", "reading", "done", "failed"}]
        /\ error' \in [Calls -> {"TimedOut", "ConnectionRefused", "ConnectionReset", "BrokenPipe", "UnexpectedEof",
                                  "InvalidData", None}]
        /\ up_closed' \in [Calls -> BOOLEAN] /\ forgotten' \subseteq Calls
    BY <1>1, Zenon DEF IndInv, TypeOK
  <2>2. /\ server' \in [Calls -> {"none", "reading", "handling", "replying", "over", "dead"}]
        /\ up' \in [Calls -> Nat] /\ down' \in [Calls -> {"nothing", "part", "whole", "other"}]
        /\ down_closed' \in [Calls -> BOOLEAN] /\ executed' \subseteq Calls /\ refused' \subseteq Calls
    BY Zenon DEF IndInv, TypeOK
  <2> QED  BY <1>3, <2>1, <2>2, NetworkKept, Zenon
<1>5. BacklogInOrder'
  BY <1>1, WaitingIsFresh, BacklogKept, Zenon DEF IndInv, TypeOK
<1>6. EndsInStep'
  BY <1>1 DEF IndInv, TypeOK, EndsInStep
<1>7. WholeRequestsOnly'
  BY Zenon DEF IndInv, WholeRequestsOnly
<1>8. RefusalsAreLast'
  BY <1>1 DEF IndInv, TypeOK, RefusalsAreLast, waiting
<1> QED  BY <1>3, <1>4, <1>5, <1>6, <1>7, <1>8, Zenon DEF IndInv

\* A connection whose far end is closed, or that was never made, waits nowhere.
LEMMA ClosedIsNotWaiting ==
    ASSUME IndInv, NEW c \in Calls, down_closed[c] \/ phase[c] \in {"idle", "dialling"} \/ server[c] # "none"
    PROVE  ~waiting(c)
BY DEF IndInv, BacklogInOrder, waiting

LEMMA DialFailsInv ==
    ASSUME IndInv, NEW c \in Calls, DialFails(c)
    PROVE  IndInv'
<1>1. next_port' \in 0 .. PortCount - 1
  BY PortFacts, Zenon DEF DialFails, connection_refused, take_port, IndInv
<1>2. ~waiting(c) /\ server[c] = "none" /\ c \notin refused
  BY ClosedIsNotWaiting, Zenon DEF DialFails, IndInv, EndsInStep, RefusalsAreLast
<1> QED  BY <1>1, <1>2, FailInv, Zenon DEF DialFails, connection_refused

LEMMA WriteFailsInv ==
    ASSUME IndInv, NEW c \in Calls, WriteFails(c)
    PROVE  IndInv'
<1>1. next_port' \in 0 .. PortCount - 1
  BY Zenon DEF WriteFails, network, IndInv, TypeOK
<1>2. ~waiting(c) /\ server[c] \in {"none", "over", "dead"}
  BY ClosedIsNotWaiting, Zenon DEF WriteFails, IndInv, EndsInStep
<1>3. c \notin refused
  BY Zenon DEF WriteFails, IndInv, EndsInStep
<1> QED  BY <1>1, <1>2, <1>3, FailInv, Zenon DEF WriteFails, network

LEMMA DeadlineInv ==
    ASSUME IndInv, NEW c \in Calls, Deadline(c)
    PROVE  IndInv'
<1>1. next_port' \in 0 .. PortCount - 1
  BY Zenon DEF Deadline, network, IndInv, TypeOK
<1> QED  BY <1>1, FailInv, Zenon DEF Deadline, network

LEMMA ReadInv ==
    ASSUME IndInv, NEW c \in Calls, Read(c)
    PROVE  IndInv'
<1>1. /\ next_port' \in 0 .. PortCount - 1 /\ UNCHANGED <<sockets, address, open, inbox, wire, backlog>>
      /\ UNCHANGED <<up, server, conn, down, down_closed, executed, refused>>
      /\ phase[c] = "reading" /\ down_closed[c]
  BY Zenon DEF Read, network, IndInv, TypeOK
<1>2. CASE Fail(c, "UnexpectedEof") \/ Fail(c, "InvalidData")
  BY <1>1, <1>2, FailInv, Zenon DEF peer_is_gone
<1>3. CASE server[c] = "dead" /\ Fail(c, "ConnectionReset")
  <2>1. ~waiting(c) /\ c \notin refused
    BY <1>1, <1>3, ClosedIsNotWaiting, Zenon DEF IndInv, RefusalsAreLast
  <2> QED  BY <1>1, <1>3, <2>1, FailInv, Zenon
<1>4. CASE phase' = [phase EXCEPT ![c] = "done"] /\ UNCHANGED <<up_closed, error, table, forgotten>>
  <2>1. TypeOK'
    BY <1>1, <1>4, Zenon DEF IndInv, TypeOK, bound
  <2>2. BacklogInOrder'
    BY <1>1, <1>4, WaitingIsFresh, BacklogKept, Zenon DEF IndInv, TypeOK
  <2>3. EndsInStep'
    BY <1>1, <1>4 DEF IndInv, TypeOK, EndsInStep
  <2>4. WholeRequestsOnly' /\ LearnedIsReachable'
    BY <1>1, <1>4, Zenon DEF IndInv, WholeRequestsOnly, LearnedIsReachable
  <2>5. RefusalsAreLast'
    BY <1>1, <1>4 DEF IndInv, TypeOK, RefusalsAreLast, waiting
  <2> QED  BY <2>1, <2>2, <2>3, <2>4, <2>5, Zenon DEF IndInv
<1> QED  BY <1>2, <1>3, <1>4, Zenon DEF Read

LEMMA CallInv ==
    ASSUME IndInv, NEW c \in Calls, Call(c)
    PROVE  IndInv'
<1>1. /\ phase[c] = "idle" /\ phase' = [phase EXCEPT ![c] = "dialling"]
      /\ UNCHANGED <<sockets, next_port, address, open, inbox, wire, backlog>>
      /\ UNCHANGED <<up, up_closed, server, conn, down, down_closed, error, table, executed, refused, forgotten>>
  BY Zenon DEF Call, network, history
<1>2. TypeOK'
  BY <1>1, Zenon DEF IndInv, TypeOK, bound
<1>3. BacklogInOrder'
  BY <1>1, WaitingIsFresh, BacklogKept, Zenon DEF IndInv, TypeOK
<1>4. EndsInStep'
  BY <1>1 DEF IndInv, TypeOK, EndsInStep
<1>5. WholeRequestsOnly' /\ LearnedIsReachable'
  BY <1>1, Zenon DEF IndInv, WholeRequestsOnly, LearnedIsReachable
<1>6. RefusalsAreLast'
  BY <1>1 DEF IndInv, TypeOK, RefusalsAreLast, waiting
<1> QED  BY <1>2, <1>3, <1>4, <1>5, <1>6, Zenon DEF IndInv

LEMMA WriteInv ==
    ASSUME IndInv, NEW c \in Calls, Write(c)
    PROVE  IndInv'
<1>1. PICK n \in up[c] + 1 .. length(c) :
        /\ up' = [up EXCEPT ![c] = n]
        /\ up_closed' = [up_closed EXCEPT ![c] = n = length(c)]
        /\ phase' = [phase EXCEPT ![c] = IF n = length(c) THEN "reading" ELSE @]
  BY Zenon DEF Write
<1>2. /\ phase[c] = "writing" /\ ~down_closed[c]
      /\ UNCHANGED <<sockets, next_port, address, open, inbox, wire, backlog>>
      /\ UNCHANGED <<server, conn, down, down_closed, error, table, executed, refused, forgotten>>
  BY Zenon DEF Write, network, history
<1>3. n \in Nat /\ n <= length(c) /\ n # up[c] /\ up[c] # length(c)
  BY LengthFacts DEF IndInv, TypeOK
<1>4. TypeOK'
  <2>1. phase' \in [Calls -> {"idle", "dialling", "writing", "reading", "done", "failed"}]
    BY <1>1, Zenon DEF IndInv, TypeOK
  <2>2. up' \in [Calls -> Nat] /\ up_closed' \in [Calls -> BOOLEAN]
    BY <1>1, <1>3, Zenon DEF IndInv, TypeOK
  <2> QED  BY <1>2, <2>1, <2>2, Zenon DEF IndInv, TypeOK, bound
<1>5. BacklogInOrder'
  BY <1>1, <1>2, WaitingIsFresh, BacklogKept, Zenon DEF IndInv, TypeOK
<1>6. ~up_closed[c] /\ c \notin refused /\ c \notin executed /\ server[c] \notin {"handling", "replying"}
  BY <1>2, <1>3, Zenon DEF IndInv, EndsInStep, WholeRequestsOnly
<1>7. /\ up'[c] = n /\ phase'[c] \in {"writing", "reading"} /\ (phase'[c] = "writing" => ~up_closed'[c])
      /\ \A d \in Calls : d # c => up'[d] = up[d] /\ phase'[d] = phase[d] /\ up_closed'[d] = up_closed[d]
  BY <1>1, <1>2, Zenon DEF IndInv, TypeOK
<1>8. EndsInStep'
  BY <1>2, <1>3, <1>6, <1>7, Zenon DEF IndInv, EndsInStep
<1>9. WholeRequestsOnly' /\ LearnedIsReachable'
  BY <1>2, <1>6, <1>7, Zenon DEF IndInv, TypeOK, WholeRequestsOnly, LearnedIsReachable
<1>10. RefusalsAreLast'
  BY <1>1, <1>2 DEF IndInv, TypeOK, RefusalsAreLast, waiting
<1> QED  BY <1>4, <1>5, <1>8, <1>9, <1>10, Zenon DEF IndInv

\* The connection queues up behind the others at the endpoint that holds the address.
LEMMA DialInv ==
    ASSUME IndInv, NEW c \in Calls, Dial(c)
    PROVE  IndInv'
<1>1. PICK from \in fresh :
        /\ take_port(from) /\ bound(Dst[c])
        /\ backlog' = [backlog EXCEPT ![sockets[Dst[c]]] = Append(@, [call |-> c, from |-> from])]
        /\ UNCHANGED <<sockets, address, open, inbox, wire>>
  BY Zenon DEF Dial, connect
<1>2. /\ phase[c] = "dialling" /\ phase' = [phase EXCEPT ![c] = "writing"]
      /\ UNCHANGED <<up, up_closed, server, conn, down, down_closed, error, table, executed, refused, forgotten>>
  BY Zenon DEF Dial, history
<1>3. from \in Ports /\ next_port' \in 0 .. PortCount - 1 /\ sockets[Dst[c]] \in Endpoints
  BY <1>1, PortFacts, CallAssumption, Zenon DEF IndInv, take_port
<1> DEFINE s == sockets[Dst[c]]
           new == [call |-> c, from |-> from]
<1> HIDE DEF s, new
<1>4. s \in Endpoints /\ new \in Connections /\ new.call = c /\ backlog' = [backlog EXCEPT ![s] = Append(@, new)]
  BY <1>1, <1>3, Zenon DEF s, new, Connections
<1>5. \A e \in Endpoints :
        /\ backlog'[e] \in Seq(Connections)
        /\ \A i \in 1 .. Len(backlog'[e]) :
            \/ i \in 1 .. Len(backlog[e]) /\ backlog'[e][i] = backlog[e][i]
            \/ e = s /\ i = Len(backlog[e]) + 1 /\ backlog'[e][i].call = c
  <2> SUFFICES ASSUME NEW e \in Endpoints
               PROVE  /\ backlog'[e] \in Seq(Connections)
                      /\ \A i \in 1 .. Len(backlog'[e]) :
                          \/ i \in 1 .. Len(backlog[e]) /\ backlog'[e][i] = backlog[e][i]
                          \/ e = s /\ i = Len(backlog[e]) + 1 /\ backlog'[e][i].call = c
    BY Zenon
  <2>1. backlog[e] \in Seq(Connections) /\ backlog \in [Endpoints -> Seq(Connections)]
    BY Zenon DEF IndInv, TypeOK
  <2>2. CASE e = s
    BY <2>1, <2>2, <1>4, AppendProperties
  <2>3. CASE e # s
    BY <2>1, <2>3, <1>4, Zenon
  <2> QED  BY <2>2, <2>3, Zenon
<1>6. TypeOK'
  <2>1. backlog' \in [Endpoints -> Seq(Connections)]
    BY <1>4, <1>5, Zenon DEF IndInv, TypeOK
  <2>2. phase' \in [Calls -> {"idle", "dialling", "writing", "reading", "done", "failed"}]
    BY <1>2, Zenon DEF IndInv, TypeOK
  <2> QED  BY <1>1, <1>2, <1>3, <2>1, <2>2, Zenon DEF IndInv, TypeOK, bound
<1>7. server[c] = "none" /\ ~down_closed[c] /\ ~waiting(c) /\ c \notin forgotten
  BY <1>2, ClosedIsNotWaiting, Zenon DEF IndInv, EndsInStep, RefusalsAreLast
<1>8. phase'[c] = "writing" /\ \A d \in Calls : d # c => phase'[d] = phase[d]
  BY <1>2, Zenon DEF IndInv, TypeOK
<1>9. BacklogInOrder'
  <2>1. \A e \in Endpoints : \A i \in 1 .. Len(backlog[e]) : backlog[e][i].call \in Calls \ {c}
    BY <1>7, WaitingCalls, Zenon DEF waiting
  <2>2. \A e \in Endpoints : \A i \in 1 .. Len(backlog'[e]) :
          LET d == backlog'[e][i].call IN
          phase'[d] \notin {"idle", "dialling"} /\ server'[d] = "none" /\ ~down_closed'[d]
    BY <1>2, <1>5, <1>7, <1>8, <2>1 DEF IndInv, BacklogInOrder
  <2>3. \A e, f \in Endpoints : \A i \in 1 .. Len(backlog'[e]), j \in 1 .. Len(backlog'[f]) :
          backlog'[e][i].call = backlog'[f][j].call => e = f /\ i = j
    <3> SUFFICES ASSUME NEW e \in Endpoints, NEW f \in Endpoints,
                        NEW i \in 1 .. Len(backlog'[e]), NEW j \in 1 .. Len(backlog'[f]),
                        backlog'[e][i].call = backlog'[f][j].call
                 PROVE  e = f /\ i = j
      BY Zenon
    <3>1. CASE i \in 1 .. Len(backlog[e]) /\ backlog'[e][i] = backlog[e][i]
      <4>1. j \in 1 .. Len(backlog[f]) /\ backlog'[f][j] = backlog[f][j]
        BY <1>5, <2>1, <3>1, Zenon
      <4> QED  BY <3>1, <4>1 DEF IndInv, BacklogInOrder
    <3>2. CASE e = s /\ i = Len(backlog[e]) + 1 /\ backlog'[e][i].call = c
      BY <1>5, <2>1, <3>2, SMTT(20)
    <3> QED  BY <1>5, <3>1, <3>2, Zenon
  <2> QED  BY <2>2, <2>3, Zenon DEF BacklogInOrder
<1>10. EndsInStep'
  BY <1>2, <1>7, <1>8, Zenon DEF IndInv, EndsInStep
<1>11. WholeRequestsOnly' /\ LearnedIsReachable'
  BY <1>2, Zenon DEF IndInv, WholeRequestsOnly, LearnedIsReachable
<1>12. \A d \in Calls : waiting(d)' => waiting(d) \/ d = c
  BY <1>5, Zenon DEF waiting
<1>13. RefusalsAreLast'
  BY <1>2, <1>7, <1>8, <1>12, Zenon DEF IndInv, RefusalsAreLast
<1> QED  BY <1>6, <1>9, <1>10, <1>11, <1>13, Zenon DEF IndInv
-----------------------------------------------------------------------------
(* The server *)

\* The head of a backlog leaves it, and its task begins.
LEMMA AcceptInv ==
    ASSUME IndInv, NEW e \in Endpoints, Accept(e)
    PROVE  IndInv'
<1> DEFINE c == backlog[e][1].call
<1>1. /\ backlog[e] # <<>> /\ backlog' = [backlog EXCEPT ![e] = Tail(@)]
      /\ UNCHANGED <<sockets, next_port, address, open, inbox, wire>>
      /\ UNCHANGED <<phase, up, up_closed, down, down_closed, error, table, executed, refused, forgotten>>
  BY Zenon DEF Accept, accept, history
<1>2. backlog[e] \in Seq(Connections) /\ backlog \in [Endpoints -> Seq(Connections)]
  BY Zenon DEF IndInv, TypeOK
<1>3. /\ Tail(backlog[e]) \in Seq(Connections) /\ Len(Tail(backlog[e])) = Len(backlog[e]) - 1 /\ Len(backlog[e]) \in Nat
      /\ \A i \in 1 .. Len(Tail(backlog[e])) : Tail(backlog[e])[i] = backlog[e][i + 1]
      /\ Head(backlog[e]) = backlog[e][1] /\ 1 \in 1 .. Len(backlog[e]) /\ backlog[e][1] \in Connections
  BY <1>1, <1>2, HeadTailProperties, EmptySeq, LenProperties, ElementOfSeq
<1>4. /\ server' = [server EXCEPT ![c] = "reading"] /\ conn' = [conn EXCEPT ![c] = [by |-> e, from |-> backlog[e][1].from]]
      /\ c \in Calls /\ waiting(c)
  BY <1>3, Zenon DEF Accept, Connections, waiting
<1>5. phase[c] \notin {"idle", "dialling"} /\ server[c] = "none" /\ ~down_closed[c]
  BY <1>4, WaitingIsFresh, Zenon
<1>6. \A f \in Endpoints : \A i \in 1 .. Len(backlog'[f]) :
        \E k \in 1 .. Len(backlog[f]) :
            k = (IF f = e THEN i + 1 ELSE i) /\ backlog'[f][i] = backlog[f][k] /\ backlog[f][k].call \in Calls \ {c}
  <2> SUFFICES ASSUME NEW f \in Endpoints, NEW i \in 1 .. Len(backlog'[f])
               PROVE  \E k \in 1 .. Len(backlog[f]) :
                        k = (IF f = e THEN i + 1 ELSE i) /\ backlog'[f][i] = backlog[f][k] /\ backlog[f][k].call \in Calls \ {c}
    BY Zenon
  <2>1. \A k \in 1 .. Len(backlog[f]) : backlog[f][k].call = c => f = e /\ k = 1
    BY <1>3 DEF IndInv, BacklogInOrder
  <2>2. CASE f = e
    <3>1. i + 1 \in 1 .. Len(backlog[f]) /\ backlog'[f][i] = backlog[f][i + 1] /\ i + 1 # 1
      BY <1>1, <1>2, <1>3, <2>2
    <3> QED  BY <2>1, <2>2, <3>1, WaitingCalls, Zenon
  <2>3. CASE f # e
    <3>1. backlog'[f] = backlog[f]
      BY <1>1, <1>2, <2>3, Zenon
    <3> QED  BY <2>1, <2>3, <3>1, WaitingCalls, Zenon
  <2> QED  BY <2>2, <2>3, Zenon
<1> HIDE DEF c
<1>7. TypeOK'
  <2>1. backlog' \in [Endpoints -> Seq(Connections)]
    BY <1>1, <1>2, <1>3, Zenon
  <2>2. server' \in [Calls -> {"none", "reading", "handling", "replying", "over", "dead"}]
    BY <1>4, Zenon DEF IndInv, TypeOK
  <2>3. conn' \in [Calls -> [by : Endpoints \union {None}, from : Ports \union {0}]]
    BY <1>3, <1>4, Zenon DEF IndInv, TypeOK, Connections
  <2> QED  BY <1>1, <2>1, <2>2, <2>3, Zenon DEF IndInv, TypeOK, bound
<1>8. server'[c] = "reading" /\ \A d \in Calls : d # c => server'[d] = server[d]
  BY <1>4, Zenon DEF IndInv, TypeOK
<1>9. BacklogInOrder'
  <2>1. \A f \in Endpoints : \A i \in 1 .. Len(backlog'[f]) :
          LET d == backlog'[f][i].call IN
          phase'[d] \notin {"idle", "dialling"} /\ server'[d] = "none" /\ ~down_closed'[d]
    <3>1. \A f \in Endpoints : \A k \in 1 .. Len(backlog[f]) : waiting(backlog[f][k].call)
      BY Zenon DEF waiting
    <3>2. \A f \in Endpoints : \A i \in 1 .. Len(backlog'[f]) :
            backlog'[f][i].call \in Calls \ {c} /\ waiting(backlog'[f][i].call)
      BY <1>6, <3>1
    <3> QED  BY <1>1, <1>8, <3>2, WaitingIsFresh, Zenon
  <2>2. \A f, g \in Endpoints : \A i \in 1 .. Len(backlog'[f]), j \in 1 .. Len(backlog'[g]) :
          backlog'[f][i].call = backlog'[g][j].call => f = g /\ i = j
    <3> SUFFICES ASSUME NEW f \in Endpoints, NEW g \in Endpoints,
                        NEW i \in 1 .. Len(backlog'[f]), NEW j \in 1 .. Len(backlog'[g]),
                        backlog'[f][i].call = backlog'[g][j].call
                 PROVE  f = g /\ i = j
      BY Zenon
    <3>1. PICK k \in 1 .. Len(backlog[f]) : k = (IF f = e THEN i + 1 ELSE i) /\ backlog'[f][i] = backlog[f][k]
      BY <1>6
    <3>2. PICK l \in 1 .. Len(backlog[g]) : l = (IF g = e THEN j + 1 ELSE j) /\ backlog'[g][j] = backlog[g][l]
      BY <1>6
    <3>3. f = g /\ k = l
      BY <3>1, <3>2 DEF IndInv, BacklogInOrder
    <3> QED  BY <3>1, <3>2, <3>3
  <2> QED  BY <2>1, <2>2, Zenon DEF BacklogInOrder
<1>10. EndsInStep'
  BY <1>1, <1>5, <1>8, Zenon DEF IndInv, EndsInStep
<1>11. WholeRequestsOnly' /\ LearnedIsReachable'
  BY <1>1, Zenon DEF IndInv, WholeRequestsOnly, LearnedIsReachable
<1>12. \A d \in Calls : waiting(d)' => waiting(d)
  BY <1>6 DEF waiting
<1>13. RefusalsAreLast'
  BY <1>1, <1>4, <1>5, <1>8, <1>12, Zenon DEF IndInv, RefusalsAreLast
<1> QED  BY <1>7, <1>9, <1>10, <1>11, <1>13, Zenon DEF IndInv

\* The task of a connection ends: with a whole reply only if the handler ran.
LEMMA EndTaskInv ==
    ASSUME IndInv, NEW c \in Calls, server[c] \in {"reading", "handling", "replying"},
           NEW label \in {"over", "dead"}, NEW reply \in {"nothing", "part", "whole", "other"}, end_task(c, label, reply),
           reply = "whole" => c \in executed,
           refused' = refused \/ (refused' = refused \union {c} /\ label = "over" /\ up_closed[c]),
           UNCHANGED <<network, phase, up, up_closed, conn, error, table, executed, forgotten>>
    PROVE  IndInv'
<1>1. /\ server' = [server EXCEPT ![c] = label] /\ down' = [down EXCEPT ![c] = reply]
      /\ down_closed' = [down_closed EXCEPT ![c] = TRUE]
      /\ UNCHANGED <<sockets, next_port, address, open, inbox, wire, backlog>>
      /\ UNCHANGED <<phase, up, up_closed, conn, error, table, executed, forgotten>>
  BY Zenon DEF end_task, network
<1>2. TypeOK'
  <2>1. /\ server' \in [Calls -> {"none", "reading", "handling", "replying", "over", "dead"}]
        /\ down' \in [Calls -> {"nothing", "part", "whole", "other"}]
        /\ down_closed' \in [Calls -> BOOLEAN] /\ refused' \subseteq Calls
    BY <1>1, Zenon DEF IndInv, TypeOK
  <2> QED  BY <1>1, <2>1 DEF IndInv, TypeOK, bound
<1>3. BacklogInOrder'
  BY <1>1, WaitingIsFresh, BacklogKept DEF IndInv, TypeOK
<1>4. EndsInStep'
  BY <1>1 DEF IndInv, TypeOK, EndsInStep
<1>5. WholeRequestsOnly' /\ LearnedIsReachable'
  BY <1>1, Zenon DEF IndInv, WholeRequestsOnly, LearnedIsReachable
<1>6. c \in forgotten => error[c] = "TimedOut"
  BY Zenon DEF IndInv, RefusalsAreLast
<1>7. RefusalsAreLast'
  BY <1>1, <1>6 DEF IndInv, TypeOK, RefusalsAreLast, waiting
<1> QED  BY <1>2, <1>3, <1>4, <1>5, <1>7, Zenon DEF IndInv

\* The task of a connection goes on, the request having ended, and carries out a whole one.
LEMMA TaskGoesOnInv ==
    ASSUME IndInv, NEW c \in Calls, up_closed[c],
           NEW label \in {"handling", "replying"}, server[c] \in {"reading", "handling"},
           server' = [server EXCEPT ![c] = label],
           \/ executed' = executed /\ label = "handling"
           \/ executed' = executed \union {c} /\ up[c] = length(c),
           UNCHANGED <<network, phase, up, up_closed, conn, down, down_closed, error, table, refused, forgotten>>
    PROVE  IndInv'
<1>1. UNCHANGED <<sockets, next_port, address, open, inbox, wire, backlog>>
  BY Zenon DEF network
<1>2. TypeOK'
  <2>1. server' \in [Calls -> {"none", "reading", "handling", "replying", "over", "dead"}] /\ executed' \subseteq Calls
    BY Zenon DEF IndInv, TypeOK
  <2> QED  BY <1>1, <2>1, Zenon DEF IndInv, TypeOK, bound
<1>3. BacklogInOrder'
  BY <1>1, WaitingIsFresh, BacklogKept, Zenon DEF IndInv, TypeOK
<1>4. EndsInStep'
  BY DEF IndInv, TypeOK, EndsInStep
<1>5. WholeRequestsOnly' /\ LearnedIsReachable'
  BY Zenon DEF IndInv, WholeRequestsOnly, LearnedIsReachable
<1>6. c \in forgotten => error[c] = "TimedOut"
  BY Zenon DEF IndInv, RefusalsAreLast
<1>7. RefusalsAreLast'
  BY <1>1, <1>6 DEF IndInv, TypeOK, RefusalsAreLast, waiting
<1> QED  BY <1>2, <1>3, <1>4, <1>5, <1>7, Zenon DEF IndInv

LEMMA TaskStepInv ==
    ASSUME IndInv, NEW c \in Calls, TaskStep(c)
    PROVE  IndInv'
<1>1. CASE ReadRequest(c) /\ framed(c)
  BY <1>1, TaskGoesOnInv, Zenon DEF ReadRequest, learn, history
<1>2. CASE ReadRequest(c) /\ ~framed(c)
  BY <1>2, EndTaskInv, Zenon DEF ReadRequest, history
<1>3. CASE Handle(c)
  <2>1. up[c] = length(c)
    BY <1>3, PartsDoNotDecode, Zenon DEF Handle, IndInv, TypeOK, EndsInStep
  <2> QED  BY <1>3, <2>1, TaskGoesOnInv, Zenon DEF Handle, IndInv, EndsInStep
<1>4. CASE RefuseRequest(c)
  BY <1>4, EndTaskInv, Zenon DEF RefuseRequest, IndInv, EndsInStep
<1>5. CASE Reply(c)
  BY <1>5, EndTaskInv, Zenon DEF Reply, history, IndInv, EndsInStep
<1>6. CASE Die(c)
  BY <1>6, EndTaskInv, Zenon DEF Die, history
<1>7. CASE Misanswer(c)
  BY <1>7, EndTaskInv, Zenon DEF Misanswer
<1> QED  BY <1>1, <1>2, <1>3, <1>4, <1>5, <1>6, <1>7, Zenon DEF TaskStep

\* An endpoint takes its backlog with it, and whatever is bound to its address.
LEMMA DropInv ==
    ASSUME IndInv, NEW e \in Endpoints, Drop(e)
    PROVE  IndInv'
<1>1. /\ e \in open /\ sockets' = [sockets EXCEPT ![address[e]] = None] /\ open' = open \ {e}
      /\ inbox' = [inbox EXCEPT ![e] = <<>>] /\ backlog' = [backlog EXCEPT ![e] = <<>>]
      /\ UNCHANGED <<next_port, address, wire>>
      /\ UNCHANGED <<phase, up, up_closed, server, conn, down, error, table, executed, refused, forgotten>>
      /\ down_closed' = [c \in Calls |-> down_closed[c] \/ \E i \in DOMAIN backlog[e] : backlog[e][i].call = c]
  BY Zenon DEF Drop, drop, history
<1>2. \A a \in Ports : sockets'[a] # None => sockets'[a] \in open' /\ address'[sockets'[a]] = a
  BY <1>1, Zenon DEF IndInv, TypeOK, bound
<1>3. /\ sockets' \in [Ports -> Endpoints \union {None}] /\ inbox' \in [Endpoints -> Seq(Datagrams)]
      /\ backlog' \in [Endpoints -> Seq(Connections)] /\ down_closed' \in [Calls -> BOOLEAN]
  BY <1>1, EmptySeq, Zenon DEF IndInv, TypeOK
<1>4. TypeOK'
  BY <1>1, <1>2, <1>3, Zenon DEF IndInv, TypeOK, bound
<1>5. \A f \in Endpoints : \A i \in 1 .. Len(backlog'[f]) : f # e /\ backlog'[f] = backlog[f]
  BY <1>1 DEF IndInv, TypeOK
<1>6. DOMAIN backlog[e] = 1 .. Len(backlog[e])
  BY WaitingCalls, LenProperties, Zenon
<1>7. \A c \in Calls : down_closed'[c] => down_closed[c] \/ waiting(c)
  BY <1>1, <1>6, Zenon DEF waiting
<1>8. \A f \in Endpoints : \A i \in 1 .. Len(backlog'[f]) :
        /\ backlog'[f][i].call \in Calls /\ waiting(backlog'[f][i].call)
        /\ ~down_closed'[backlog'[f][i].call]
  <2> SUFFICES ASSUME NEW f \in Endpoints, NEW i \in 1 .. Len(backlog'[f])
               PROVE  /\ backlog[f][i].call \in Calls /\ waiting(backlog[f][i].call)
                      /\ ~down_closed'[backlog[f][i].call]
    BY <1>5, Zenon
  <2>1. i \in 1 .. Len(backlog[f]) /\ f # e
    BY <1>5, Zenon
  <2>2. backlog[f][i].call \in Calls /\ waiting(backlog[f][i].call)
    BY <2>1, WaitingCalls, Zenon DEF waiting
  <2>3. \A j \in 1 .. Len(backlog[e]) : backlog[e][j].call # backlog[f][i].call
    BY <2>1, Zenon DEF IndInv, BacklogInOrder
  <2> QED  BY <1>1, <1>6, <2>2, <2>3, WaitingIsFresh, Zenon
<1>9. BacklogInOrder'
  <2>1. \A f \in Endpoints : \A i \in 1 .. Len(backlog'[f]) :
          LET d == backlog'[f][i].call IN
          phase'[d] \notin {"idle", "dialling"} /\ server'[d] = "none" /\ ~down_closed'[d]
    BY <1>1, <1>8, WaitingIsFresh, Zenon
  <2>2. \A f, g \in Endpoints : \A i \in 1 .. Len(backlog'[f]), j \in 1 .. Len(backlog'[g]) :
          backlog'[f][i].call = backlog'[g][j].call => f = g /\ i = j
    BY <1>5 DEF IndInv, BacklogInOrder
  <2> QED  BY <2>1, <2>2, Zenon DEF BacklogInOrder
<1>10. EndsInStep'
  BY <1>1, <1>7, WaitingIsFresh, Zenon DEF IndInv, EndsInStep
<1>11. WholeRequestsOnly' /\ LearnedIsReachable'
  BY <1>1, Zenon DEF IndInv, WholeRequestsOnly, LearnedIsReachable
<1>12. RefusalsAreLast'
  <2>1. \A c \in Calls : waiting(c)' => waiting(c)
    BY <1>5, Zenon DEF waiting
  <2> QED  BY <1>1, <2>1, Zenon DEF IndInv, RefusalsAreLast
<1> QED  BY <1>4, <1>9, <1>10, <1>11, <1>12, Zenon DEF IndInv
-----------------------------------------------------------------------------
(* The theorems *)

LEMMA StepInv == IndInv /\ [Next]_vars => IndInv'
<1> SUFFICES ASSUME IndInv, [Next]_vars
             PROVE  IndInv'
  BY Zenon
<1>1. ASSUME NEW c \in Calls, CallerStep(c)
      PROVE  IndInv'
  BY <1>1, CallInv, DialInv, DialFailsInv, WriteInv, WriteFailsInv, ReadInv, DeadlineInv, Zenon DEF CallerStep
<1>2. ASSUME NEW c \in Calls, TaskStep(c)
      PROVE  IndInv'
  BY <1>2, TaskStepInv, Zenon
<1>3. ASSUME NEW e \in Endpoints, EndpointStep(e)
      PROVE  IndInv'
  BY <1>3, OpenInv, DropInv, AcceptInv, ReceiveInv, PingInv, Zenon DEF EndpointStep
<1>4. ASSUME NEW a \in Ports, Unbind(a)
      PROVE  IndInv'
  BY <1>4, UnbindInv, Zenon
<1>5. ASSUME NEW m \in wire, Deliver(m)
      PROVE  IndInv'
  BY <1>5, DeliverInv, Zenon
<1>6. CASE UNCHANGED vars
  <2>1. UNCHANGED <<sockets, next_port, address, open, inbox, wire, backlog, stream, table, history>>
    BY <1>6, Zenon DEF vars, network
  <2>2. TypeOK'
    BY <2>1, Zenon DEF IndInv, TypeOK, bound, stream, history
  <2>3. UNCHANGED <<ends, backlog>> /\ LearnedIsReachable'
    BY <2>1, Zenon DEF stream, history, ends, IndInv, LearnedIsReachable
  <2> QED  BY <2>2, <2>3, EndsUntouched, Zenon DEF IndInv
<1> QED  BY <1>1, <1>2, <1>3, <1>4, <1>5, <1>6, Zenon DEF Next

LEMMA Inductive == Spec => []IndInv
BY InitInv, StepInv, PTL DEF Spec

\* Every binding is that of an open endpoint at its own address (DebugNetwork in
\* networked_debug_transport.rs), however endpoints are bound, unbound and dropped.
THEOREM TypeCorrect == Spec => []TypeOK
<1>1. IndInv => TypeOK
  BY Zenon DEF IndInv
<1> QED  BY <1>1, Inductive, PTL

\* A request cut off anywhere by its sender's deadline, or a crash, is never carried out, though
\* serve_streams and dispatch hand it to store::handle like any other: bincode::deserialize runs
\* out of bytes on every part of what encode_request_with_proof wrote but the whole, for values
\* and proofs of any length.
THEOREM OnlyWholeRequests == Spec => []WholeRequestsOnly
<1>1. IndInv => WholeRequestsOnly
  BY Zenon DEF IndInv
<1> QED  BY <1>1, Inductive, PTL

\* Rpc::call never forgets a peer for refusing a request, or for answering under another id, unless
\* time ran out on it.
THEOREM RefusalIsNeverDeath == Spec => []RefusalIsNotDeath
<1>1. IndInv => RefusalIsNotDeath
  BY Zenon DEF IndInv, TypeOK, RefusalsAreLast, RefusalIsNotDeath
<1> QED  BY <1>1, Inductive, PTL

\* dispatch learns no contact from a connection, so no ephemeral port enters a routing table.
THEOREM OnlyReachableLearned == Spec => []LearnedIsReachable
<1>1. IndInv => LearnedIsReachable
  BY Zenon DEF IndInv
<1> QED  BY <1>1, Inductive, PTL
-----------------------------------------------------------------------------
(* The refinement *)

\* What the outcome of a call is, in terms of where its caller is.
LEMMA OutcomeFacts ==
    ASSUME TypeOK, NEW c \in Calls
    PROVE  /\ phase[c] = "idle" => outcome[c] = "idle"
           /\ phase[c] \in {"dialling", "writing", "reading"} => outcome[c] = "pending"
           /\ phase[c] = "failed" => outcome[c] = "failed"
           /\ phase[c] = "done" => outcome[c] = IF down[c] = "whole" THEN "answered" ELSE "failed"
BY Zenon DEF TypeOK, outcome, outcome_of, store

\* A step that changes neither the caller nor the reply of a finished call changes nothing.
LEMMA ServiceStutters ==
    ASSUME UNCHANGED <<phase, executed>>, \A d \in Calls : phase[d] = "done" => down'[d] = down[d]
    PROVE  UNCHANGED Service!vars
<1>1. \A d \in Calls : store(d)' <=> store(d)
  BY Zenon DEF store
<1>2. outcome' = outcome
  BY <1>1 DEF outcome, outcome_of
<1>3. answered' = answered
  BY <1>1, Zenon DEF answered
<1> QED  BY <1>2, <1>3, Zenon DEF Service!vars

\* A step of one caller that leaves its outcome alone changes nothing either.
LEMMA ServiceUnmoved ==
    ASSUME IndInv, IndInv', NEW c \in Calls, UNCHANGED <<executed, down>>,
           phase[c] \in {"dialling", "writing", "reading"}, phase'[c] \in {"dialling", "writing", "reading"},
           phase' = [phase EXCEPT ![c] = phase'[c]]
    PROVE  UNCHANGED Service!vars
<1>0. TypeOK /\ phase \in [Calls -> {"idle", "dialling", "writing", "reading", "done", "failed"}]
  BY Zenon DEF IndInv, TypeOK
<1>1. \A d \in Calls : store(d)' <=> store(d)
  BY <1>0, Zenon DEF store
<1>2. outcome' = outcome
  BY <1>0, <1>1 DEF outcome, outcome_of
<1>3. answered' = answered
  BY <1>1, Zenon DEF answered
<1> QED  BY <1>2, <1>3, Zenon DEF Service!vars

\* A caller moves to another outcome: the calls of the others keep theirs.
LEMMA OutcomeMoves ==
    ASSUME IndInv, IndInv', NEW c \in Calls, NEW to, UNCHANGED <<executed, down>>, phase[c] # "done",
           phase' = [phase EXCEPT ![c] = to]
    PROVE  /\ outcome' = [outcome EXCEPT ![c] = outcome'[c]]
           /\ store(c)' => answered' = answered \union {<<c, c>>}
           /\ ~store(c)' => answered' = answered
<1>0. phase \in [Calls -> {"idle", "dialling", "writing", "reading", "done", "failed"}] /\ ~store(c)
  BY Zenon DEF IndInv, TypeOK, store
<1>1. \A d \in Calls \ {c} : (store(d)' <=> store(d)) /\ phase'[d] = phase[d]
  BY <1>0, Zenon DEF store
<1>2. outcome' = [outcome EXCEPT ![c] = outcome'[c]]
  <2>1. \A d \in Calls \ {c} : outcome'[d] = outcome[d]
    <3>1. \A d \in Calls \ {c} : outcome_of(d)' = outcome_of(d)
      BY <1>0, <1>1, Zenon DEF outcome_of, store
    <3> QED  BY <3>1, Zenon DEF outcome
  <2>2. outcome = [d \in Calls |-> outcome[d]] /\ outcome' = [d \in Calls |-> outcome'[d]]
    BY Zenon DEF outcome
  <2> QED  BY <2>1, <2>2, Zenon
<1>3. store(c)' => answered' = answered \union {<<c, c>>}
  BY <1>1, Zenon DEF answered
<1>4. ~store(c)' => answered' = answered
  BY <1>0, <1>1, Zenon DEF answered
<1> QED  BY <1>2, <1>3, <1>4, Zenon

LEMMA FailRefines ==
    ASSUME IndInv, IndInv', NEW c \in Calls, NEW kind, Fail(c, kind), UNCHANGED <<executed, down>>,
           phase[c] \in {"dialling", "writing", "reading"}
    PROVE  Service!Fail(c)
<1>1. phase' = [phase EXCEPT ![c] = "failed"] /\ phase'[c] = "failed"
  BY DEF Fail, IndInv, TypeOK
<1>2. outcome[c] = "pending" /\ outcome'[c] = "failed"
  <2>1. TypeOK /\ TypeOK'
    BY Zenon DEF IndInv
  <2>2. outcome[c] = "pending"
    BY <2>1, OutcomeFacts, Zenon
  <2>3. outcome'[c] = "failed"
    BY <1>1, Zenon DEF outcome, outcome_of, store
  <2> QED  BY <2>2, <2>3, Zenon
<1>3. ~store(c)'
  BY <1>1, Zenon DEF store
<1> QED  BY <1>1, <1>2, <1>3, OutcomeMoves, Zenon DEF Service!Fail

LEMMA CallerRefines ==
    ASSUME IndInv, IndInv', NEW c \in Calls, CallerStep(c)
    PROVE  Service!Next \/ UNCHANGED Service!vars
<1>0. TypeOK
  BY Zenon DEF IndInv
<1>1. CASE Call(c)
  <2>1. phase[c] = "idle" /\ phase' = [phase EXCEPT ![c] = "dialling"] /\ UNCHANGED <<executed, down>>
    BY <1>1, Zenon DEF Call, history
  <2>2. phase'[c] = "dialling" /\ outcome[c] = "idle"
    BY <1>0, <2>1, OutcomeFacts DEF TypeOK
  <2>3. outcome'[c] = "pending" /\ ~store(c)'
    BY <2>2, Zenon DEF outcome, outcome_of, store
  <2>4. Service!Begin(c)
    BY <2>1, <2>2, <2>3, OutcomeMoves, Zenon DEF Service!Begin
  <2> QED  BY <2>4, Zenon DEF Service!Next
<1>2. CASE Dial(c)
  BY <1>0, <1>2, ServiceUnmoved, Zenon DEF Dial, history, TypeOK
<1>3. CASE Write(c)
  <2>1. PICK n \in up[c] + 1 .. length(c) : phase' = [phase EXCEPT ![c] = IF n = length(c) THEN "reading" ELSE @]
    BY <1>3, Zenon DEF Write
  <2>2. phase[c] = "writing" /\ phase'[c] \in {"writing", "reading"} /\ phase' = [phase EXCEPT ![c] = phase'[c]]
    BY <1>0, <1>3, <2>1, Zenon DEF Write, TypeOK
  <2> QED  BY <1>3, <2>2, ServiceUnmoved, Zenon DEF Write, history
<1>4. CASE \/ DialFails(c) \/ WriteFails(c) \/ Deadline(c)
           \/ Read(c) /\ (Fail(c, "UnexpectedEof") \/ Fail(c, "InvalidData") \/ Fail(c, "ConnectionReset"))
  <2>1. Service!Fail(c)
    BY <1>4, FailRefines, Zenon DEF DialFails, WriteFails, Deadline, Read
  <2> QED  BY <2>1, Zenon DEF Service!Next
<1>5. CASE Read(c) /\ phase' = [phase EXCEPT ![c] = "done"]
  <2>1. phase[c] = "reading" /\ phase' = [phase EXCEPT ![c] = "done"] /\ UNCHANGED <<executed, down>> /\ phase'[c] = "done"
    BY <1>0, <1>5, Zenon DEF Read, TypeOK
  <2>2. outcome[c] = "pending"
    BY <1>0, <2>1, OutcomeFacts, Zenon
  <2>3. CASE down[c] = "whole"
    <3>1. outcome'[c] = "answered" /\ store(c)' /\ c \in executed
      BY <2>1, <2>3, Zenon DEF outcome, outcome_of, store, IndInv, EndsInStep
    <3>2. Service!Answer(c)
      BY <2>1, <2>2, <3>1, OutcomeMoves, Zenon DEF Service!Answer
    <3> QED  BY <3>2, Zenon DEF Service!Next
  <2>4. CASE down[c] # "whole"
    <3>1. outcome'[c] = "failed" /\ ~store(c)'
      BY <2>1, <2>4, Zenon DEF outcome, outcome_of, store
    <3>2. Service!Fail(c)
      BY <2>1, <2>2, <3>1, OutcomeMoves, Zenon DEF Service!Fail
    <3> QED  BY <3>2, Zenon DEF Service!Next
  <2> QED  BY <2>3, <2>4, Zenon
<1>6. Read(c) => 
        \/ phase' = [phase EXCEPT ![c] = "done"]
        \/ Fail(c, "UnexpectedEof") \/ Fail(c, "InvalidData") \/ Fail(c, "ConnectionReset")
  BY Zenon DEF Read
<1> QED  BY <1>1, <1>2, <1>3, <1>4, <1>5, <1>6, Zenon DEF CallerStep

\* The server runs the handler of a call that was made, and does nothing else to a caller that
\* has finished: a connection closes once.
LEMMA TaskRefines ==
    ASSUME IndInv, NEW c \in Calls, TaskStep(c)
    PROVE  Service!Next \/ UNCHANGED Service!vars
<1>1. CASE Handle(c)
  <2>1. server[c] = "handling" /\ executed' = executed \union {c} /\ UNCHANGED <<phase, down>>
    BY <1>1, Zenon DEF Handle
  <2>2. phase[c] # "idle"
    BY <2>1, Zenon DEF IndInv, EndsInStep
  <2>3. outcome[c] # "idle"
    BY <2>2, Zenon DEF IndInv, TypeOK, outcome, outcome_of, store
  <2>4. outcome' = outcome /\ answered' = answered
    BY <2>1 DEF outcome, outcome_of, answered, store
  <2>5. Service!Execute(c)
    BY <2>1, <2>3, <2>4, Zenon DEF Service!Execute
  <2> QED  BY <2>5, Zenon DEF Service!Next
<1>2. CASE ReadRequest(c) \/ RefuseRequest(c) \/ Misanswer(c) \/ Reply(c) \/ Die(c)
  <2>1. /\ UNCHANGED <<phase, executed>> /\ server[c] \in {"reading", "handling", "replying"}
        /\ down' = down \/ \E reply : down' = [down EXCEPT ![c] = reply]
    BY <1>2, Zenon DEF ReadRequest, RefuseRequest, Misanswer, Reply, Die, end_task, history
  <2>2. phase[c] # "done"
    BY <2>1, Zenon DEF IndInv, EndsInStep
  <2>3. \A d \in Calls : phase[d] = "done" => down'[d] = down[d]
    BY <2>1, <2>2, Zenon DEF IndInv, TypeOK
  <2> QED  BY <2>1, <2>3, ServiceStutters, Zenon
<1> QED  BY <1>1, <1>2, Zenon DEF TaskStep

\* A call over a connection (tcp_transport.rs, serve_streams) keeps what RpcTransport promises:
\* an answer means that the called node's handler ran for this very call.
THEOREM Refinement == Spec => Service!Safety
<1>1. Init => Service!Init
  <2> SUFFICES ASSUME Init
               PROVE  Service!Init
    BY Zenon
  <2>1. \A c \in Calls : outcome_of(c) = "idle" /\ ~store(c)
    BY Zenon DEF Init, outcome_of, store
  <2>2. outcome = [c \in Calls |-> "idle"] /\ answered = {} /\ executed = {}
    BY <2>1, Zenon DEF Init, outcome, answered
  <2> QED  BY <2>2, Zenon DEF Service!Init
<1>2. IndInv /\ IndInv' /\ [Next]_vars => [Service!Next]_(Service!vars)
  <2> SUFFICES ASSUME IndInv, IndInv', [Next]_vars
               PROVE  Service!Next \/ UNCHANGED Service!vars
    BY Zenon
  <2>1. ASSUME NEW c \in Calls, CallerStep(c) \/ TaskStep(c)
        PROVE  Service!Next \/ UNCHANGED Service!vars
    BY <2>1, CallerRefines, TaskRefines, Zenon
  <2>2. ASSUME NEW e \in Endpoints, EndpointStep(e)
        PROVE  UNCHANGED <<phase, executed, down>>
    BY <2>2, Zenon DEF EndpointStep, Open, Drop, Accept, Receive, Ping, stream, history
  <2>3. ASSUME NEW a \in Ports, Unbind(a)
        PROVE  UNCHANGED <<phase, executed, down>>
    BY <2>3, Zenon DEF Unbind, stream, history
  <2>4. ASSUME NEW m \in wire, Deliver(m)
        PROVE  UNCHANGED <<phase, executed, down>>
    BY <2>4, Zenon DEF Deliver, stream, history
  <2>5. UNCHANGED vars => UNCHANGED <<phase, executed, down>>
    BY Zenon DEF vars, stream, history
  <2> QED  BY <2>1, <2>2, <2>3, <2>4, <2>5, ServiceStutters, Zenon DEF Next
<1> QED  BY <1>1, <1>2, Inductive, PTL DEF Spec, Service!Safety
=============================================================================
