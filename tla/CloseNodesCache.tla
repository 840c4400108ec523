-------------------------- MODULE CloseNodesCache --------------------------
(***************************************************************************)
(* CachedCloseNodes (close_nodes/cache.rs): answers of close_nodes kept    *)
(* per target and checked against a generation counter on the way out.     *)
(* The layers below are a set of contacts, and an answer is that set:      *)
(* which contacts an answer holds, and which an addition drops, is theirs  *)
(* to decide.  A call is cut wherever another thread can come in between;  *)
(* each call of the map (get, len, retain, clear, insert) is one step.     *)
(***************************************************************************)
EXTENDS Integers, FiniteSets

CONSTANTS
    Contacts, Targets, Threads,
    Capacity,           \* CACHE_CAPACITY, 64 in the code
    MaxGeneration,      \* bounds the writes of a run; the counter has 64 bits
    None

ASSUME CapacityAssumption == Capacity \in Nat \ {0}
ASSUME FiniteAssumption == IsFiniteSet(Targets) /\ IsFiniteSet(Threads)
ASSUME NoneAssumption == None \notin Int \union Contacts \union Targets

VARIABLES
    members,    \* the contacts in the layers below
    generation,
    invalidate_on_write,    \* TRUE: CachedCloseNodes::new; FALSE: ttl_only
    entries,    \* the cached answer of each target, or None
    pc, op,     \* what each thread does, and with which target or changed contacts
    loaded,     \* the generation close_nodes read first
    found,      \* the answer close_nodes is to store and return
    settled     \* history: the generation from which the last write of a contact must
                \* show, None while the write runs or if it is left to the TTL

vars == <<members, generation, invalidate_on_write, entries, pc, op, loaded, found, settled>>

Entry == [contacts : SUBSET Contacts, generation : 0..generation, expired : BOOLEAN]

\* entries.len()
len == Cardinality({t \in Targets : entries[t] # None})

\* Where a query stands once it has its answer.
Answered == {"filled", "retain", "retained", "clear", "insert", "done"}

\* What an operation is about.
Subjects == Targets \union (SUBSET Contacts) \union {None}

TypeOK ==
    /\ members \subseteq Contacts
    /\ generation \in Nat
    /\ entries \in [Targets -> Entry \union {None}]
    /\ pc \in [Threads -> {"idle", "written", "loaded", "miss"} \union Answered]
    /\ \A p \in Threads : pc[p] \in {"loaded", "miss"} \union Answered => op[p] \in Targets
    /\ \A p \in Threads : pc[p] = "written" => op[p] \in SUBSET Contacts
    /\ op \in [Threads -> Subjects]
    /\ loaded \in [Threads -> 0..generation]
    /\ found \in [Threads -> SUBSET Contacts]
    /\ settled \in [Contacts -> 0..generation \union {None}]

Init ==
    /\ members = {}
    /\ generation = 0
    /\ invalidate_on_write \in BOOLEAN
    /\ entries = [t \in Targets |-> None]
    /\ pc = [p \in Threads |-> "idle"]
    /\ op = [p \in Threads |-> None]
    /\ loaded = [p \in Threads |-> 0]
    /\ found = [p \in Threads |-> {}]
    /\ settled = [c \in Contacts |-> 0]

goto(p, where) == pc' = [pc EXCEPT ![p] = where]
-----------------------------------------------------------------------------
(* close_nodes *)

is_fresh(entry, g) == entry.generation = g /\ ~entry.expired

Load(p, t) ==
    /\ pc[p] = "idle"
    /\ goto(p, "loaded")
    /\ op' = [op EXCEPT ![p] = t]
    /\ loaded' = [loaded EXCEPT ![p] = generation]
    /\ UNCHANGED <<members, generation, invalidate_on_write, entries, found, settled>>

LookUp(p) ==
    LET entry == entries[op[p]] IN
    /\ pc[p] = "loaded"
    /\ IF entry # None /\ is_fresh(entry, loaded[p])
       THEN found' = [found EXCEPT ![p] = entry.contacts] /\ goto(p, "done")
       ELSE goto(p, "miss") /\ UNCHANGED found
    /\ UNCHANGED <<members, generation, invalidate_on_write, entries, op, loaded, settled>>

QueryInner(p) ==
    /\ pc[p] = "miss"
    /\ found' = [found EXCEPT ![p] = members]
    /\ goto(p, "filled")
    /\ UNCHANGED <<members, generation, invalidate_on_write, entries, op, loaded, settled>>

\* A bug: when dropping what is not fresh makes no room, the entry goes in all the same.
HasRoom_gently(p) ==
    /\ pc[p] \in {"filled", "retained"}
    /\ goto(p, IF len < Capacity \/ pc[p] = "retained" THEN "insert" ELSE "retain")
    /\ UNCHANGED <<members, generation, invalidate_on_write, entries, op, loaded, found, settled>>

\* make_room asks whether there is room, first and after dropping what is not fresh.
HasRoom(p) ==
    /\ pc[p] \in {"filled", "retained"}
    /\ goto(p, IF len < Capacity THEN "insert" ELSE IF pc[p] = "filled" THEN "retain" ELSE "clear")
    /\ UNCHANGED <<members, generation, invalidate_on_write, entries, op, loaded, found, settled>>

\* make_room drops what is not fresh, or everything.
Evict(p) ==
    /\ pc[p] \in {"retain", "clear"}
    /\ entries' = [t \in Targets |->
                    IF pc[p] = "retain" /\ entries[t] # None /\ is_fresh(entries[t], loaded[p])
                    THEN entries[t] ELSE None]
    /\ goto(p, IF pc[p] = "retain" THEN "retained" ELSE "insert")
    /\ UNCHANGED <<members, generation, invalidate_on_write, op, loaded, found, settled>>

\* A bug: the entry is stamped with the generation of the moment it is stored.
Insert_now(p) ==
    /\ pc[p] = "insert"
    /\ entries' = [entries EXCEPT ![op[p]] =
                    [contacts |-> found[p], generation |-> generation, expired |-> FALSE]]
    /\ goto(p, "done")
    /\ UNCHANGED <<members, generation, invalidate_on_write, op, loaded, found, settled>>

Insert(p) ==
    /\ pc[p] = "insert"
    /\ entries' = [entries EXCEPT ![op[p]] =
                    [contacts |-> found[p], generation |-> loaded[p], expired |-> FALSE]]
    /\ goto(p, "done")
    /\ UNCHANGED <<members, generation, invalidate_on_write, op, loaded, found, settled>>

Return(p) ==
    /\ pc[p] = "done"
    /\ goto(p, "idle")
    /\ op' = [op EXCEPT ![p] = None]
    /\ loaded' = [loaded EXCEPT ![p] = 0]
    /\ found' = [found EXCEPT ![p] = {}]
    /\ UNCHANGED <<members, generation, invalidate_on_write, entries, settled>>
-----------------------------------------------------------------------------
(* Writes.  Both change the layers below first and the generation after. *)

Write(p, changed) ==
    /\ pc[p] = "idle"
    /\ generation + Cardinality({q \in Threads : pc[q] = "written"}) < MaxGeneration
    /\ settled' = [c \in Contacts |-> IF c \in changed THEN None ELSE settled[c]]
    /\ UNCHANGED <<generation, invalidate_on_write, entries, loaded, found>>

remove_contact(p, c) ==
    /\ Write(p, {c})
    /\ members' = members \ {c}
    /\ goto(p, "written")
    /\ op' = [op EXCEPT ![p] = {c}]

\* The layers below may turn the contact away, or drop others for it.
maybe_add_contact(p, c) ==
    \E dropped \in SUBSET (members \union {c}) :
        /\ Write(p, dropped \union {c})
        /\ members' = (members \union {c}) \ dropped
        /\ IF invalidate_on_write
           THEN goto(p, "written") /\ op' = [op EXCEPT ![p] = dropped \union {c}]
           ELSE UNCHANGED <<pc, op>>

Bump(p) ==
    /\ pc[p] = "written"
    /\ generation' = generation + 1
    /\ settled' = [c \in Contacts |-> IF c \in op[p] THEN generation' ELSE settled[c]]
    /\ goto(p, "idle")
    /\ op' = [op EXCEPT ![p] = None]
    /\ UNCHANGED <<members, invalidate_on_write, entries, loaded, found>>
-----------------------------------------------------------------------------
\* An entry reaches its time to live.
Expire(t) ==
    /\ entries[t] # None
    /\ entries' = [entries EXCEPT ![t].expired = TRUE]
    /\ UNCHANGED <<members, generation, invalidate_on_write, pc, op, loaded, found, settled>>

clear ==
    /\ entries' = [t \in Targets |-> None]
    /\ UNCHANGED <<members, generation, invalidate_on_write, pc, op, loaded, found, settled>>

Next ==
    \/ \E p \in Threads, t \in Targets : Load(p, t)
    \/ \E p \in Threads : LookUp(p) \/ QueryInner(p) \/ HasRoom(p) \/ Evict(p) \/ Insert(p) \/ Return(p) \/ Bump(p)
    \/ \E p \in Threads, c \in Contacts : remove_contact(p, c) \/ maybe_add_contact(p, c)
    \/ \E t \in Targets : Expire(t)
    \/ clear

Spec == Init /\ [][Next]_vars
-----------------------------------------------------------------------------
(* Properties *)

\* "nobody serves a result that missed it": a query that begins after a write is
\* complete sees it, from the cache or not, however fills, evictions and other writes
\* overlap.  Without invalidation on writes, so it is for removals: a removed contact is
\* not served again.
WritesAreSeen ==
    \A p \in Threads : pc[p] = "done" =>
        \A c \in Contacts : settled[c] # None /\ settled[c] <= loaded[p] =>
            (c \in found[p] <=> c \in members)

\* Behind it: what the cache holds, and what a query has gathered, is right about every
\* contact whose last write came before the generation it carries.
AnswersCurrent ==
    \A c \in Contacts : settled[c] # None =>
        /\ \A t \in Targets : entries[t] # None /\ settled[c] <= entries[t].generation =>
            (c \in entries[t].contacts <=> c \in members)
        /\ \A p \in Threads : pc[p] \in Answered /\ settled[c] <= loaded[p] =>
            (c \in found[p] <=> c \in members)

\* "`capacity` bounds the number of cached targets" only so far: threads that make room at
\* the same time overshoot it, each by at most the entry it is about to insert.
OvershootBounded == len <= Capacity - 1 + Cardinality({p \in Threads : pc[p] # "insert"})
=============================================================================
