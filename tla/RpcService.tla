----------------------------- MODULE RpcService -----------------------------
(***************************************************************************)
(* What both transports, datagrams and connections, promise their callers  *)
(* (trait RpcTransport, rpc_transport.rs): a call that returns a payload   *)
(* returns the answer the called node computed for that very call, so its  *)
(* handler has run; a call that fails says nothing about whether the       *)
(* handler ran, and the handler may run after the caller has given up.  No *)
(* handler runs for a call nobody made.  Every call ends.                  *)
(***************************************************************************)
CONSTANTS Calls

VARIABLES
    outcome,    \* [Calls -> {"idle", "pending", "answered", "failed"}]
    answered,   \* the pairs <<caller, call whose answer it was handed>>
    executed    \* the calls whose handler has run at the called node

vars == <<outcome, answered, executed>>

Init ==
    /\ outcome = [c \in Calls |-> "idle"]
    /\ answered = {}
    /\ executed = {}

Begin(c) ==
    /\ outcome[c] = "idle"
    /\ outcome' = [outcome EXCEPT ![c] = "pending"]
    /\ UNCHANGED <<answered, executed>>

Execute(c) ==
    /\ outcome[c] # "idle"
    /\ executed' = executed \union {c}
    /\ UNCHANGED <<outcome, answered>>

Answer(c) ==
    /\ outcome[c] = "pending"
    /\ c \in executed
    /\ outcome' = [outcome EXCEPT ![c] = "answered"]
    /\ answered' = answered \union {<<c, c>>}
    /\ UNCHANGED executed

Fail(c) ==
    /\ outcome[c] = "pending"
    /\ outcome' = [outcome EXCEPT ![c] = "failed"]
    /\ UNCHANGED <<answered, executed>>

Next == \E c \in Calls : Begin(c) \/ Execute(c) \/ Answer(c) \/ Fail(c)

Safety == Init /\ [][Next]_vars

\* Whatever is pending ends, one way or the other.
Spec == Safety /\ \A c \in Calls : WF_vars(Answer(c) \/ Fail(c))
=============================================================================
