------------------------ MODULE RetryTransportProofs ------------------------
(***************************************************************************)
(* Proofs about RetryTransport, for every set of nodes and calls, every    *)
(* number of attempts and every capacity of the request channel.           *)
(***************************************************************************)
EXTENDS RetryTransport, TLAPS

\* Every step of a caller keeps the types (send_receive, PendingResponse::drop).
LEMMA CallerTypes ==
    ASSUME TypeOK, CallsInOrder, NEW c \in Calls,
           Register(c) \/ CallerStep(c) \/ Cancel(c)
    PROVE  TypeOK'
<1> USE EndpointsAssumption, BoundsAssumption, NoneAssumption DEF TypeOK, Running, Done, Failed
<1>1. CASE Register(c)
  BY <1>1 DEF Register, serverVars
<1>2. CASE SendAttempt(c)
  <2>1. request(c) \in Datagrams
    BY <1>2, CallsInOrder, Zenon DEF SendAttempt, CallsInOrder, request, Datagrams
  <2>2. attempt[c] + 1 \in 0..MaxAttempts
    BY <1>2 DEF SendAttempt, CallsInOrder
  <2> QED  BY <1>2, <2>1, <2>2, Zenon DEF SendAttempt, serverVars
<1>3. ASSUME NEW how \in Done, End(c, how)
      PROVE  TypeOK'
  BY <1>3, Zenon DEF End, drop, serverVars
<1>4. CASE Resend(c)
  BY <1>4, Zenon DEF Resend, serverVars
<1> QED
  BY <1>1, <1>2, <1>3, <1>4, Zenon
     DEF CallerStep, SendFails, Return, Panic, TimeOut, Cancel

\* Every step of the receive loop and of the server keeps the types.
LEMMA ServerTypes ==
    ASSUME TypeOK, NEW n \in Nodes,
           \/ \E m \in wire : ReceiveReply(n, m) \/ ReceiveRequest(n, m)
           \/ StopListening(n) \/ Spawn(n)
           \/ \E r \in tasks[n] : Handle(n, r)
    PROVE  TypeOK'
<1> USE BoundsAssumption DEF TypeOK
<1>1. ASSUME NEW m \in wire, ReceiveReply(n, m)
      PROVE  TypeOK'
  BY <1>1, Zenon DEF ReceiveReply, callVars, serverVars, Datagrams
<1>2. ASSUME NEW m \in wire, ReceiveRequest(n, m)
      PROVE  TypeOK'
  BY <1>2 DEF ReceiveRequest, callVars
<1>3. CASE StopListening(n)
  BY <1>3, Zenon DEF StopListening, callVars
<1>4. CASE Spawn(n)
  BY <1>4 DEF Spawn, callVars
<1>5. ASSUME NEW r \in tasks[n], Handle(n, r)
      PROVE  TypeOK'
  <2>1. r \in Datagrams /\ reply_to(r) \in Datagrams
    BY <1>5, Zenon DEF reply_to, Datagrams
  <2> QED  BY <1>5, <2>1, Zenon DEF Handle, callVars, Datagrams
<1> QED  BY <1>1, <1>2, <1>3, <1>4, <1>5, Zenon

\* Every datagram in the system carries a call.
LEMMA BodiesAreCalls ==
    ASSUME TypeOK
    PROVE  /\ \A m \in wire : m.body \in Calls
           /\ \A n \in Nodes : \A k \in DOMAIN queue[n] : queue[n][k].body \in Calls
           /\ \A n \in Nodes : \A m \in tasks[n] : m.body \in Calls
<1>1. \A m \in Datagrams : m.body \in Calls
  BY Zenon DEF Datagrams
<1>2. \A n \in Nodes : \A k \in DOMAIN queue[n] : queue[n][k] \in Datagrams
  BY DEF TypeOK
<1> QED  BY <1>1, <1>2, Zenon DEF TypeOK

\* The call in a slot is running, and the slot is its own.
LEMMA SlotOwner ==
    ASSUME NoLeakedSlot, NEW n \in Nodes, NEW i \in Ids, NEW c \in Calls, slots[n][i] = c
    PROVE  pc[c] \in Running /\ Src[c] = n /\ id[c] = i
BY NoneAssumption, Zenon DEF NoLeakedSlot

\* A call that registers takes a vacant slot; nothing on the wire, in a server or in
\* a oneshot can be about it yet.
LEMMA RegisterStep ==
    ASSUME IndInvFresh, NEW c \in Calls, Register(c), TypeOK'
    PROVE  IndInvFresh'
<1> USE EndpointsAssumption, BoundsAssumption, NoneAssumption DEF IndInvFresh, IndInv, TypeOK
<1>1. PICK i \in Ids :
        /\ slots[Src[c]][i] = None
        /\ FreshIds => i \notin drawn[Src[c]]
        /\ id' = [id EXCEPT ![c] = i]
        /\ slots' = [slots EXCEPT ![Src[c]][i] = c]
        /\ drawn' = [drawn EXCEPT ![Src[c]] = @ \union {i}]
  BY Zenon DEF Register
<1>2. /\ pc[c] = "idle" /\ pc' = [pc EXCEPT ![c] = "sending"]
      /\ UNCHANGED <<attempt, inbox, wire, queue, tasks, listening, executed>>
  BY Zenon DEF Register, serverVars
<1>3. CallsInOrder'
  BY <1>1, <1>2 DEF CallsInOrder
<1>4. NoLeakedSlot'
  <2> SUFFICES ASSUME NEW n \in Nodes, NEW j \in Ids, NEW d \in Calls, slots'[n][j] = d
               PROVE  pc'[d] \in Running /\ Src[d] = n /\ id'[d] = j
    BY <1>1 DEF NoLeakedSlot
  <2>1. CASE n = Src[c] /\ j = i
    BY <1>1, <1>2, <2>1 DEF Running
  <2>2. CASE ~(n = Src[c] /\ j = i)
    <3>1. slots[n][j] = d
      BY <1>1, <2>2
    <3>2. pc[d] \in Running /\ Src[d] = n /\ id[d] = j
      <4>1. NoLeakedSlot
        BY Zenon
      <4> HIDE DEF IndInvFresh, IndInv, TypeOK
      <4> QED  BY <3>1, <4>1, SlotOwner
    <3>3. d # c
      BY <1>2, <3>2, Zenon DEF Running
    <3> QED  BY <1>1, <1>2, <3>2, <3>3, Zenon
  <2> QED  BY <2>1, <2>2, Zenon
<1>5. \A m : Faithful(m) /\ m.body \in Calls => Faithful(m)'
  BY <1>1, <1>2 DEF Faithful
<1>6. DatagramsFaithful'
  BY <1>2, <1>5, BodiesAreCalls, Zenon DEF DatagramsFaithful
<1>7. DeliveredFaithful'
  BY <1>1, <1>2 DEF DeliveredFaithful, CallsInOrder
<1>8. FreshIds => IdsUnique'
  BY <1>1, <1>2 DEF IdsUnique, CallsInOrder
<1>9. FreshIds => SlotOutlivesAwait'
  BY <1>1, <1>2 DEF SlotOutlivesAwait, CallsInOrder, Running
<1> QED  BY <1>3, <1>4, <1>6, <1>7, <1>8, <1>9, Zenon

\* A call that ends, however it ends, removes the slot under its id: with ids that
\* never repeat that is no other call's.
LEMMA EndStep ==
    ASSUME IndInvFresh, NEW c \in Calls, NEW how \in Done, pc[c] \in Running,
           how = "ok" => inbox[c] # None, End(c, how), TypeOK'
    PROVE  IndInvFresh'
<1> USE EndpointsAssumption, BoundsAssumption, NoneAssumption
    DEF IndInvFresh, IndInv, TypeOK, Running, Done, Failed
<1>1. /\ pc' = [pc EXCEPT ![c] = how]
      /\ slots' = [slots EXCEPT ![Src[c]][id[c]] = None]
      /\ UNCHANGED <<id, attempt, inbox, drawn, wire, queue, tasks, listening, executed>>
  BY Zenon DEF End, drop, serverVars
<1>2. id[c] \in Ids
  BY Zenon DEF CallsInOrder
<1>3. CallsInOrder'
  BY <1>1, Zenon DEF CallsInOrder
<1>4. NoLeakedSlot'
  <2> SUFFICES ASSUME NEW n \in Nodes, NEW j \in Ids, NEW d \in Calls, slots'[n][j] = d
               PROVE  pc'[d] \in Running /\ Src[d] = n /\ id'[d] = j
    BY <1>1 DEF NoLeakedSlot
  <2>1. slots[n][j] = d /\ ~(n = Src[c] /\ j = id[c])
    BY <1>1, <1>2
  <2>2. pc[d] \in Running /\ Src[d] = n /\ id[d] = j
    <3>1. NoLeakedSlot
      BY Zenon
    <3> HIDE DEF IndInvFresh, IndInv, TypeOK
    <3> QED  BY <2>1, <3>1, SlotOwner
  <2>3. d # c
    BY <2>1, <2>2, Zenon
  <2> QED  BY <1>1, <2>2, <2>3, Zenon
<1>5. \A m : Faithful(m) /\ m.body \in Calls => Faithful(m)'
  BY <1>1, Zenon DEF Faithful
<1>6. DatagramsFaithful'
  BY <1>1, <1>5, BodiesAreCalls, Zenon DEF DatagramsFaithful
<1>7. DeliveredFaithful'
  BY <1>1, Zenon DEF DeliveredFaithful
<1>8. FreshIds => IdsUnique'
  BY <1>1 DEF IdsUnique
<1>9. FreshIds => SlotOutlivesAwait'
  BY <1>1, <1>2 DEF SlotOutlivesAwait, IdsUnique, CallsInOrder
<1> QED  BY <1>3, <1>4, <1>6, <1>7, <1>8, <1>9, Zenon

\* Sending, and sending again, changes neither the slot nor the oneshot.
LEMMA SendStep ==
    ASSUME IndInvFresh, NEW c \in Calls, SendAttempt(c) \/ Resend(c), TypeOK'
    PROVE  IndInvFresh'
<1> USE EndpointsAssumption, BoundsAssumption, NoneAssumption
    DEF IndInvFresh, IndInv, TypeOK, Running, Done, Failed
<1>1. /\ pc[c] \in Running /\ \E p \in Running : pc' = [pc EXCEPT ![c] = p]
      /\ wire' = wire \/ wire' = wire \union {request(c)}
      /\ UNCHANGED <<id, inbox, slots, drawn, queue, tasks, listening, executed>>
  BY Zenon DEF SendAttempt, Resend, serverVars
<1>2. CallsInOrder'
  BY DEF CallsInOrder, SendAttempt, Resend, serverVars
<1>3. NoLeakedSlot'
  BY <1>1 DEF NoLeakedSlot
<1>4. \A m : Faithful(m) /\ m.body \in Calls => Faithful(m)'
  BY <1>1, Zenon DEF Faithful
<1>5. \A m : m = request(c) => Faithful(m)'
  BY <1>1 DEF Faithful, request
<1>6. DatagramsFaithful'
  BY <1>1, <1>4, <1>5, BodiesAreCalls, Zenon DEF DatagramsFaithful
<1>7. DeliveredFaithful'
  BY <1>1, Zenon DEF DeliveredFaithful
<1>8. FreshIds => IdsUnique' /\ SlotOutlivesAwait'
  BY <1>1, SMTT(30) DEF IdsUnique, SlotOutlivesAwait
<1> QED  BY <1>2, <1>3, <1>6, <1>7, <1>8, Zenon

\* A reply is handed over only to the call whose slot it names and whose peer sent
\* it (Pending::deliver); it takes that slot and no other.
LEMMA ReceiveReplyStep ==
    ASSUME IndInvFresh, NEW n \in Nodes, NEW m \in wire, ReceiveReply(n, m), TypeOK'
    PROVE  IndInvFresh'
<1> USE EndpointsAssumption, NoneAssumption DEF IndInvFresh, IndInv, TypeOK
<1> DEFINE c == slots[n][m.id]
<1>1. m \in Datagrams /\ m.id \in Ids /\ m.body \in Calls
  BY Zenon DEF Datagrams
<1>2. c \in Calls /\ pc[c] \in Running /\ Src[c] = n /\ id[c] = m.id
  BY <1>1 DEF ReceiveReply, NoLeakedSlot
<1>3. /\ m.to = n /\ m.reply /\ Dst[c] = m.from
      /\ inbox' = [inbox EXCEPT ![c] = m.body]
      /\ slots' = [slots EXCEPT ![n][m.id] = None]
      /\ UNCHANGED <<pc, id, attempt, drawn, wire, queue, tasks, listening, executed>>
  BY Zenon DEF ReceiveReply, callVars, serverVars
<1>4. Faithful(m)
  BY Zenon DEF DatagramsFaithful
<1> HIDE DEF c
<1>5. CallsInOrder'
  BY <1>2, <1>3, Zenon DEF CallsInOrder, Running
<1>6. NoLeakedSlot'
  BY <1>1, <1>3 DEF NoLeakedSlot
<1>7. DatagramsFaithful'
  BY <1>3, SMTT(30) DEF DatagramsFaithful, Faithful
<1>8. DeliveredFaithful'
  BY <1>1, <1>2, <1>3, <1>4 DEF DeliveredFaithful, Faithful, Running
<1>9. FreshIds => IdsUnique'
  BY <1>3, Zenon DEF IdsUnique
<1>10. FreshIds => SlotOutlivesAwait'
  BY <1>1, <1>2, <1>3 DEF SlotOutlivesAwait, c
<1> QED  BY <1>5, <1>6, <1>7, <1>8, <1>9, <1>10, Zenon

\* Queueing, spawning and handling a request moves faithful datagrams about; a
\* handler's reply is faithful because its request was.
LEMMA ServeStep ==
    ASSUME IndInvFresh, NEW n \in Nodes, TypeOK',
           \/ \E m \in wire : ReceiveRequest(n, m)
           \/ StopListening(n) \/ Spawn(n)
           \/ \E r \in tasks[n] : Handle(n, r)
    PROVE  IndInvFresh'
<1> USE EndpointsAssumption, NoneAssumption DEF IndInvFresh, IndInv, TypeOK
<1>1. /\ UNCHANGED <<pc, id, attempt, inbox, slots, drawn>>
      /\ executed \subseteq executed'
  BY Zenon DEF ReceiveRequest, StopListening, Spawn, Handle, callVars
<1>2. CallsInOrder' /\ NoLeakedSlot'
  BY <1>1, Zenon DEF CallsInOrder, NoLeakedSlot
<1>3. DeliveredFaithful'
  BY <1>1, Zenon DEF DeliveredFaithful
<1>4. FreshIds => IdsUnique' /\ SlotOutlivesAwait'
  BY <1>1, Zenon DEF IdsUnique, SlotOutlivesAwait
<1>5. \A m : Faithful(m) => Faithful(m)'
  BY <1>1, Zenon DEF Faithful
<1>6. DatagramsFaithful'
  <2>1. ASSUME NEW m \in wire, ReceiveRequest(n, m)
        PROVE  DatagramsFaithful'
    <3>1. Faithful(m) /\ ~m.reply /\ queue' = [queue EXCEPT ![n] = Append(@, m)]
      BY <2>1, Zenon DEF ReceiveRequest, DatagramsFaithful
    <3>2. ASSUME NEW q \in Nodes, NEW k \in DOMAIN queue'[q]
          PROVE  (Faithful(queue[q][k]) /\ ~queue[q][k].reply)'
      <4>1. CASE q = n /\ k = Len(queue[n]) + 1
        <5>1. queue'[q][k] = m
          BY <3>1, <4>1
        <5> QED  BY <1>5, <3>1, <5>1, Zenon DEF Faithful
      <4>2. CASE ~(q = n /\ k = Len(queue[n]) + 1)
        <5>1. k \in DOMAIN queue[q] /\ queue'[q][k] = queue[q][k]
          BY <3>1, <4>2
        <5>2. Faithful(queue[q][k]) /\ ~queue[q][k].reply
          BY <5>1, Zenon DEF DatagramsFaithful
        <5> QED  BY <1>1, <5>1, <5>2, SMTT(30) DEF Faithful
      <4> QED  BY <4>1, <4>2, Zenon
    <3> QED  BY <1>5, <2>1, <3>2, Zenon DEF ReceiveRequest, DatagramsFaithful
  <2>2. CASE StopListening(n)
    BY <1>5, <2>2, Zenon DEF StopListening, DatagramsFaithful
  <2>3. CASE Spawn(n)
    <3>1. /\ queue[n] # <<>> /\ queue' = [queue EXCEPT ![n] = Tail(@)]
          /\ tasks' = [tasks EXCEPT ![n] = @ \union {queue[n][1]}]
          /\ wire' = wire
      BY <2>3 DEF Spawn
    <3>2. 1 \in DOMAIN queue[n] /\ Faithful(queue[n][1]) /\ ~queue[n][1].reply
      BY <3>1 DEF DatagramsFaithful
    <3>3. ASSUME NEW q \in Nodes, NEW k \in DOMAIN queue'[q]
          PROVE  (Faithful(queue[q][k]) /\ ~queue[q][k].reply)'
      <4>1. \E j \in DOMAIN queue[q] : queue'[q][k] = queue[q][j]
        <5>1. CASE q = n
          <6>1. queue'[q] = Tail(queue[q]) /\ queue[q] \in Seq(Datagrams) /\ queue[q] # <<>>
            BY <3>1, <5>1, Zenon
          <6>2. k + 1 \in DOMAIN queue[q] /\ queue'[q][k] = queue[q][k + 1]
            BY <6>1
          <6> QED  BY <6>2, Zenon
        <5>2. CASE q # n
          BY <3>1, <5>2, Zenon
        <5> QED  BY <5>1, <5>2, Zenon
      <4>2. PICK j \in DOMAIN queue[q] : queue'[q][k] = queue[q][j]
        BY <4>1, Zenon
      <4>3. Faithful(queue[q][j]) /\ ~queue[q][j].reply
        BY Zenon DEF DatagramsFaithful
      <4> QED  BY <1>1, <4>2, <4>3, SMTT(30) DEF Faithful
    <3> QED  BY <1>5, <3>1, <3>2, <3>3 DEF DatagramsFaithful
  <2>4. ASSUME NEW r \in tasks[n], Handle(n, r)
        PROVE  DatagramsFaithful'
    <3>1. Faithful(r) /\ ~r.reply /\ r \in Datagrams
      BY Zenon DEF DatagramsFaithful
    <3>2. \A m : m = reply_to(r) => Faithful(m)'
      BY <1>1, <2>4, <3>1 DEF Handle, Faithful, reply_to, Datagrams
    <3> QED  BY <1>5, <2>4, <3>2, Zenon DEF Handle, callVars, DatagramsFaithful
  <2> QED  BY <2>1, <2>2, <2>3, <2>4, Zenon
<1> QED  BY <1>2, <1>3, <1>4, <1>6, Zenon

\* The invariant holds initially and every step of the system preserves it.
LEMMA Invariance == Spec => []IndInvFresh
<1>1. Init => IndInvFresh
  BY EndpointsAssumption, BoundsAssumption, NoneAssumption
     DEF Init, IndInvFresh, IndInv, TypeOK, CallsInOrder, NoLeakedSlot, DatagramsFaithful,
         DeliveredFaithful, IdsUnique, SlotOutlivesAwait, Running, Done
<1>2. IndInvFresh /\ [Next]_vars => IndInvFresh'
  <2> SUFFICES ASSUME IndInvFresh, [Next]_vars
               PROVE  IndInvFresh'
    BY Zenon
  <2>1. ASSUME NEW c \in Calls, Register(c) \/ CallerStep(c) \/ Cancel(c)
        PROVE  IndInvFresh'
    <3>1. TypeOK'
      BY <2>1, CallerTypes, Zenon DEF IndInvFresh, IndInv
    <3>2. CASE Register(c)
      BY <3>1, <3>2, RegisterStep, Zenon
    <3>3. CASE SendAttempt(c) \/ Resend(c)
      BY <3>1, <3>3, SendStep, Zenon
    <3>4. CASE SendFails(c) \/ Return(c) \/ Panic(c) \/ TimeOut(c) \/ Cancel(c)
      <4>1. \E how \in Done : End(c, how) /\ pc[c] \in Running /\ (how = "ok" => inbox[c] # None)
        BY <3>4 DEF SendFails, Return, Panic, TimeOut, Cancel, Done, Failed, Running
      <4> QED  BY <3>1, <4>1, EndStep, Zenon
    <3> QED  BY <2>1, <3>2, <3>3, <3>4, Zenon DEF CallerStep
  <2>2. ASSUME NEW n \in Nodes, NEW m \in wire, ReceiveReply(n, m)
        PROVE  IndInvFresh'
    BY <2>2, ServerTypes, ReceiveReplyStep, Zenon DEF IndInvFresh, IndInv
  <2>3. ASSUME NEW n \in Nodes,
               \/ \E m \in wire : ReceiveRequest(n, m)
               \/ StopListening(n) \/ Spawn(n)
               \/ \E r \in tasks[n] : Handle(n, r)
        PROVE  IndInvFresh'
    BY <2>3, ServerTypes, ServeStep, Zenon DEF IndInvFresh, IndInv
  <2>4. CASE UNCHANGED vars
    <3> USE <2>4 DEF vars
    <3>1. TypeOK'
      BY Zenon DEF IndInvFresh, IndInv, TypeOK
    <3>2. CallsInOrder' /\ NoLeakedSlot'
      BY Zenon DEF IndInvFresh, IndInv, CallsInOrder, NoLeakedSlot
    <3>3. DatagramsFaithful'
      BY DEF IndInvFresh, IndInv, DatagramsFaithful, Faithful
    <3>4. DeliveredFaithful'
      BY Zenon DEF IndInvFresh, IndInv, DeliveredFaithful
    <3>5. FreshIds => IdsUnique' /\ SlotOutlivesAwait'
      BY Zenon DEF IndInvFresh, IdsUnique, SlotOutlivesAwait
    <3> QED  BY <3>1, <3>2, <3>3, <3>4, <3>5, Zenon DEF IndInvFresh, IndInv
  <2> QED  BY <2>1, <2>2, <2>3, <2>4, Zenon DEF Next
<1> QED  BY <1>1, <1>2, PTL DEF Spec

\* The transport is type-correct, for any number of nodes, calls and attempts; in
\* particular no call sends more than MaxAttempts datagrams and the request channel
\* never exceeds its capacity.
THEOREM TypeCorrect == Spec => []TypeOK
BY Invariance, PTL DEF IndInvFresh, IndInv

\* Whatever ids are drawn, repeated or not, a reply reaches only a call that waits for
\* that id from that peer (Pending::deliver).
THEOREM AnswersComeFromThePeer == Spec => []AnswerFromPeer
<1>1. IndInvFresh => AnswerFromPeer
  BY NoneAssumption, Zenon DEF IndInvFresh, IndInv, TypeOK, AnswerFromPeer, DeliveredFaithful, CallsInOrder
<1> QED  BY <1>1, Invariance, PTL

\* No path out of send_receive leaves a slot behind.
THEOREM SlotsAreReleased == Spec => []NoLeakedSlot
BY Invariance, PTL DEF IndInvFresh, IndInv

\* Under ids that never repeat, what is delivered to a call is its own answer.
LEMMA DeliveredIsOwn ==
    ASSUME IndInvFresh, FreshIds, NEW c \in Calls, inbox[c] # None
    PROVE  inbox[c] = c
<1>1. /\ inbox[c] \in Calls /\ pc[c] # "idle"
      /\ Src[inbox[c]] = Src[c] /\ id[inbox[c]] = id[c]
  BY Zenon DEF IndInvFresh, IndInv, DeliveredFaithful, TypeOK
<1>2. pc[inbox[c]] # "idle"
  BY <1>1, NoneAssumption, EndpointsAssumption DEF IndInvFresh, IndInv, CallsInOrder, TypeOK
<1> QED  BY <1>1, <1>2, Zenon DEF IndInvFresh, IdsUnique

\* If the random draws never repeat, no call returns another call's answer.
THEOREM OwnAnswersOnly == FreshIds => (Spec => []OwnAnswer)
<1> SUFFICES ASSUME FreshIds
             PROVE  Spec => []OwnAnswer
  BY Zenon
<1>1. IndInvFresh => OwnAnswer
  BY DeliveredIsOwn, Zenon DEF IndInvFresh, IndInv, OwnAnswer, CallsInOrder
<1> QED  BY <1>1, Invariance, PTL

\* If the random draws never repeat, the slot outlives every await of send_receive, so that
\* its unwrap cannot panic.
THEOREM SlotsOutliveAwaits == FreshIds => (Spec => []SlotOutlivesAwait)
<1> SUFFICES ASSUME FreshIds
             PROVE  Spec => []SlotOutlivesAwait
  BY Zenon
<1>1. IndInvFresh => SlotOutlivesAwait
  BY Zenon DEF IndInvFresh
<1> QED  BY <1>1, Invariance, PTL

\* If the random draws never repeat, every behaviour of the transport is one RpcService
\* allows: at-least-once execution, answers only after execution, to the right call.
THEOREM Refinement == FreshIds => (Spec => Service!Safety)
<1> SUFFICES ASSUME FreshIds
             PROVE  Spec => Service!Safety
  BY Zenon
<1> USE DEF Running, Failed, Done
<1>1. Init => Service!Init
  BY Zenon DEF Init, Service!Init, outcome, answered
<1>2. IndInvFresh /\ [Next]_vars => [Service!Next]_(Service!vars)
  <2> SUFFICES ASSUME IndInvFresh, [Next]_vars
               PROVE  Service!Next \/ UNCHANGED Service!vars
    BY Zenon
  <2> USE DEF TypeOK
  <2>0. TypeOK
    BY Zenon DEF IndInvFresh, IndInv
  <2>1. ASSUME NEW c \in Calls, Register(c)
        PROVE  Service!Begin(c)
    <3>1. /\ pc[c] = "idle" /\ pc' = [pc EXCEPT ![c] = "sending"]
          /\ inbox' = inbox /\ executed' = executed
      BY <2>1, Zenon DEF Register, serverVars
    <3>2. answered' = answered
      BY <2>0, <3>1, Zenon DEF answered
    <3>3. outcome[c] = "idle" /\ outcome' = [outcome EXCEPT ![c] = "pending"]
      BY <2>0, <3>1, Zenon DEF outcome
    <3> QED  BY <3>1, <3>2, <3>3, Zenon DEF Service!Begin
  <2>2. ASSUME NEW c \in Calls, SendAttempt(c) \/ Resend(c)
        PROVE  UNCHANGED Service!vars
    BY <2>0, <2>2 DEF SendAttempt, Resend, serverVars, Service!vars, outcome, answered
  <2>3. ASSUME NEW c \in Calls, Return(c)
        PROVE  Service!Answer(c)
    <3>1. pc[c] = "waiting" /\ inbox[c] = c /\ c \in executed
      BY <2>3, DeliveredIsOwn, Zenon DEF Return, IndInvFresh, IndInv, DeliveredFaithful
    <3>2. pc' = [pc EXCEPT ![c] = "ok"] /\ inbox' = inbox /\ executed' = executed
      BY <2>3, Zenon DEF Return, End, serverVars
    <3>3. answered' = answered \union {<<c, c>>}
      BY <2>0, <3>1, <3>2 DEF answered
    <3>4. outcome[c] = "pending" /\ outcome' = [outcome EXCEPT ![c] = "answered"]
      BY <2>0, <3>1, <3>2, Zenon DEF outcome
    <3> QED  BY <3>1, <3>2, <3>3, <3>4, Zenon DEF Service!Answer
  <2>4. ASSUME NEW c \in Calls, SendFails(c) \/ Panic(c) \/ TimeOut(c) \/ Cancel(c)
        PROVE  Service!Fail(c)
    <3>1. PICK how \in Failed : pc[c] \in Running /\ End(c, how)
      BY <2>4, Zenon DEF SendFails, Panic, TimeOut, Cancel
    <3>2. pc' = [pc EXCEPT ![c] = how] /\ inbox' = inbox /\ executed' = executed
      BY <3>1, Zenon DEF End, serverVars
    <3>3. answered' = answered
      BY <2>0, <3>1, <3>2, Zenon DEF answered
    <3>4. outcome[c] = "pending" /\ outcome' = [outcome EXCEPT ![c] = "failed"]
      BY <2>0, <3>1, <3>2, Zenon DEF outcome
    <3> QED  BY <3>2, <3>3, <3>4, Zenon DEF Service!Fail
  <2>5. ASSUME NEW n \in Nodes, NEW m \in wire, ReceiveReply(n, m)
        PROVE  UNCHANGED Service!vars
    <3>1. pc' = pc /\ executed' = executed
      BY <2>5, Zenon DEF ReceiveReply, callVars, serverVars
    <3>2. slots[n][m.id] \in Calls /\ pc[slots[n][m.id]] \in Running
      BY <2>0, <2>5 DEF ReceiveReply, IndInvFresh, IndInv, NoLeakedSlot, Datagrams
    <3>3. \A d \in Calls : pc[d] = "ok" => inbox'[d] = inbox[d]
      BY <2>0, <2>5, <3>2, Zenon DEF ReceiveReply
    <3> QED  BY <3>1, <3>3 DEF Service!vars, outcome, answered
  <2>6. ASSUME NEW n \in Nodes,
               (\E m \in wire : ReceiveRequest(n, m)) \/ StopListening(n) \/ Spawn(n)
        PROVE  UNCHANGED Service!vars
    <3>1. pc' = pc /\ inbox' = inbox /\ executed' = executed
      BY <2>6, Zenon DEF ReceiveRequest, StopListening, Spawn, callVars
    <3> QED  BY <3>1 DEF Service!vars, outcome, answered
  <2>7. ASSUME NEW n \in Nodes, NEW r \in tasks[n], Handle(n, r)
        PROVE  Service!Execute(r.body)
    <3>1. r.body \in Calls /\ pc[r.body] # "idle"
      BY <2>0, BodiesAreCalls, Zenon DEF IndInvFresh, IndInv, DatagramsFaithful, Faithful
    <3> QED  BY <2>0, <2>7, <3>1, Zenon DEF Handle, callVars, Service!Execute, outcome, answered
  <2>8. CASE UNCHANGED vars
    BY <2>8 DEF vars, Service!vars, outcome, answered
  <2>9. \A n \in Nodes : \A r \in tasks[n] : r.body \in Calls
    BY <2>0, BodiesAreCalls, Zenon
  <2> QED
    BY <2>1, <2>2, <2>3, <2>4, <2>5, <2>6, <2>7, <2>8, <2>9, Zenon DEF Next, CallerStep, Service!Next
<1> QED  BY <1>1, <1>2, Invariance, PTL DEF Spec, Service!Safety
=============================================================================
