------------------------------ MODULE Registry ------------------------------
(***************************************************************************)
(* Publishing, installing and republishing one package (registry.rs,       *)
(* maintenance.rs, version_chain.rs, lookup.rs), as the commands of the    *)
(* shell (cli.rs) run them against nodes that lose calls, answer late and  *)
(* restart empty.  A record links to its predecessor by hash, and hashes   *)
(* are injective: a record and the pointer to it are written as the        *)
(* history they end, oldest entry first.  A call may be answered, or be    *)
(* given up and take effect later or never.  Every node is a target of     *)
(* every value; a lookup that misses one is a call to it given up.         *)
(***************************************************************************)
EXTENDS FiniteSets, Cli

CONSTANTS
    Nodes,          \* the K nodes closest to the keys of the package
    TxtKey,         \* the texts of TXT records that hold a key, and the keys
    MaxChainLength, \* MAX_CHAIN_LENGTH, 10000 in the code
    Files,
    Blobs,          \* contents of packages
    Scenarios       \* the lines typed, the DNS, the histories held, who republishes, how much may fail

Clients == UNION {DOMAIN s.typed : s \in Scenarios}
Tasks == Clients \union Nodes

\* Every version has a text; a history is the sequence of its versions.
Versions == {Version[text] : text \in DOMAIN Version}
Signers == {TxtKey[txt] : txt \in DOMAIN TxtKey}
Histories == Seq([version : Versions, blob : Blobs, signer : Signers])
Increasing(h) == \A i \in 1..Len(h) - 1 : h[i].version < h[i + 1].version

ASSUME LengthAssumption == MaxChainLength \in Nat \ {0}
ASSUME TasksAssumption == Clients \intersect Nodes = {} /\ IsFiniteSet(Nodes)
ASSUME VersionsAssumption == Versions \subseteq Nat
ASSUME NoneAssumption ==
    /\ None \notin Versions \union Signers
    /\ None \notin [type : {"blob", "record", "latest"}, of : Blobs \union Histories]
ASSUME BlobsAssumption == Blobs \intersect {"absent", "theirs", "partial", "buffered", "cut"} = {}

VARIABLES
    command,        \* what the line typed into each shell says, with the file and the signing key
    republishing,   \* the nodes that run republish_values
    records,        \* the TXT records of the domain
    budget,         \* how many more calls and nodes may fail
    values,         \* Context.values of each node: its blobs, records among them
    pointer,        \* and its latest pointer, <<>> if it has none
    late,           \* STOREs that were given up and may still arrive
    files,          \* the users' files: what each holds, or how far an install has come with it
    pc,
    best,           \* the pointer in hand
    left,           \* the part of its history that walk_chain has yet to load
    job,            \* the values to store
    cur,            \* the one being stored or fetched
    todo,           \* the nodes still to be called
    acks,           \* how many acknowledged it
    \* history
    before,         \* the publishers that had succeeded when a command began
    missed,         \* the nodes its get_latest did not hear
    kept,           \* the nodes that acknowledged its pointer and have not restarted
    orderly,        \* one history of the owner's to begin with, and publishers came one by one and heard everyone
    restarted

local == <<pc, best, left, job, cur, todo, acks>>
nodes == <<values, pointer, late>>
history == <<before, missed, kept, orderly, restarted>>
setting == <<command, republishing, records>>
vars == <<setting, budget, nodes, files, local, history>>
-----------------------------------------------------------------------------
(* Histories and values *)

\* The key in a TXT record of the form d7024ePK=<key>, None in any other.
parse_vk(txt) == IF txt \in DOMAIN TxtKey THEN TxtKey[txt] ELSE None

\* The first key among the records of the domain, which may hold other things.
get_dns_vk ==
    LET keyed == {i \in 1..Len(records) : parse_vk(records[i]) # None}
    IN  IF keyed = {} THEN None ELSE parse_vk(records[Min(keyed)])

version(h) == Last(h).version
latest_is_valid(h) == h # <<>> /\ Last(h).signer = get_dns_vk
blob(b) == [type |-> "blob", of |-> b]
record(h) == [type |-> "record", of |-> h]
latest(h) == [type |-> "latest", of |-> h]

\* What validate_chain_proof accepts (ChainWalk): the owner's, strictly newer, not too long.
Genuine(h) ==
    /\ h # <<>> /\ Len(h) <= MaxChainLength
    /\ \A i \in 1..Len(h) : h[i].signer = get_dns_vk
    /\ Increasing(h)

\* h goes on where g ends.
IsPrefix(g, h) == Len(g) <= Len(h) /\ g = SubSeq(h, 1, Len(g))
comparable(g, h) == IsPrefix(g, h) \/ IsPrefix(h, g)

\* store::continues_previous.
continues_previous(old, new) == old = new \/ (version(new) > version(old) /\ IsPrefix(old, new))

\* A bug: only the pointer is checked, not the history behind it.
accepts_unproved(n, v) ==
    v.type = "latest" => /\ Last(v.of).signer = get_dns_vk
                         /\ pointer[n] = <<>> \/ continues_previous(pointer[n], v.of)

\* store::handle answers STORED.
accepts(n, v) ==
    v.type = "latest" => Genuine(v.of) /\ (pointer[n] = <<>> \/ continues_previous(pointer[n], v.of))

\* A bug: a pointer is kept among the blobs, too.
STORE_twice(n, v) ==
    /\ pointer' = [pointer EXCEPT ![n] = IF v.type = "latest" /\ accepts(n, v) THEN v.of ELSE @]
    /\ values' = [values EXCEPT ![n] = @ \union {v}]

STORE(n, v) ==
    /\ pointer' = [pointer EXCEPT ![n] = IF v.type = "latest" /\ accepts(n, v) THEN v.of ELSE @]
    /\ values' = [values EXCEPT ![n] = IF v.type = "latest" THEN @ ELSE @ \union {v}]

\* The new history, or none: PreviousNotFound, VersionNotNewer, PreviousNotLatest.
prepare_publication(c, existing) ==
    LET x == command[c]
        at == IF x.previous # None THEN {i \in 1..Len(existing) : existing[i].version = x.previous}
              ELSE {Len(existing)}
        new == [version |-> x.version, blob |-> x.blob, signer |-> x.signer]
    IN  {Append(SubSeq(existing, 1, i), new) :
            i \in {j \in at : \/ x.force \/ existing = <<>>
                              \/ x.version > version(existing) /\ j = Len(existing)}}

\* What the line t.line tells the shell to do, in a directory where t.blob is what publish and
\* put read, and with the signing key t.signer.
understood(t) ==
    {[kind |-> x.kind, domain |-> x.domain, package |-> x.package, version |-> x.version, file |-> x.file,
      previous |-> x.previous, force |-> x.force, signer |-> t.signer,
      blob |-> IF x.kind = "get" THEN x.key ELSE t.blob] :
        x \in IF parse(t.line) = {} THEN {nothing} ELSE parse(t.line)}

\* Nodes hold what they accepted, shells read packages and sign with keys, and there is a file
\* for every name they may write to.
ASSUME ScenariosAssumption ==
    \A s \in Scenarios :
        /\ s.republishing \subseteq Nodes /\ s.faults \in Nat
        /\ s.start \in [Nodes -> Histories] /\ \A n \in Nodes : Increasing(s.start[n])
        /\ \A c \in DOMAIN s.typed : \A x \in understood(s.typed[c]) :
            /\ x.kind \in {"publish", "put"} => x.blob \in Blobs
            /\ x.kind = "publish" => x.signer \in Signers
            /\ x.kind \in {"install", "get"} /\ x.file # None => x.file \in Files
            /\ x.kind = "install" =>
                \A v \in Versions : default_install_filename(x.domain, x.package, v) \in Files
-----------------------------------------------------------------------------
Init ==
    /\ \E s \in Scenarios : /\ command \in {f \in [DOMAIN s.typed -> UNION {understood(s.typed[c]) : c \in DOMAIN s.typed}] :
                                            \A c \in DOMAIN s.typed : f[c] \in understood(s.typed[c])}
                            /\ republishing = s.republishing /\ records = s.records
                            /\ budget = s.faults /\ pointer = s.start
                            /\ files = [f \in Files |-> IF f \in s.present THEN "theirs" ELSE "absent"]
    /\ late = {}
    /\ values = [n \in Nodes |-> {record(SubSeq(pointer[n], 1, i)) : i \in 1..Len(pointer[n])}
                                \union {blob(e.blob) : e \in Range(pointer[n])}]
    /\ pc = [t \in Tasks |-> IF t \in Nodes \union DOMAIN command THEN "idle" ELSE "off"]
    /\ best = [t \in Tasks |-> <<>>] /\ left = [t \in Tasks |-> <<>>]
    /\ job = [t \in Tasks |-> {}] /\ cur = [t \in Tasks |-> None]
    /\ todo = [t \in Tasks |-> {}] /\ acks = [t \in Tasks |-> 0]
    /\ before = [c \in Clients |-> {}] /\ missed = [c \in Clients |-> {}]
    /\ kept = [c \in Clients |-> {}] /\ restarted = FALSE
    /\ orderly = (\A m, n \in Nodes : latest_is_valid(pointer[m]) /\ latest_is_valid(pointer[n])
                                      => comparable(pointer[m], pointer[n]))

kind(c) == command[c].kind
publisher(t) == t \in DOMAIN command /\ kind(t) = "publish"
goto(t, label) == pc' = [pc EXCEPT ![t] = label]
fault == budget > 0 /\ budget' = budget - 1
-----------------------------------------------------------------------------
(* Commands start and fail *)

\* show rt, show ds and show dns list what the node has at the moment, help the commands.
Show(c) ==
    /\ pc[c] = "idle" /\ kind(c) \in {"rt", "ds", "dns", "help"}
    /\ goto(c, "ok")
    /\ UNCHANGED <<setting, budget, nodes, files, best, left, job, cur, todo, acks, history>>

Exit(c) ==
    /\ pc[c] = "idle" /\ kind(c) = "exit"
    /\ goto(c, "off")
    /\ UNCHANGED <<setting, budget, nodes, files, best, left, job, cur, todo, acks, history>>

\* The line, the file, the signing key or DNS is at fault, or the key is not the domain's.
Refuse(c) ==
    /\ pc[c] = "idle" /\ kind(c) \notin {"rt", "ds", "dns", "help", "exit"}
    /\ goto(c, "failed")
    /\ UNCHANGED <<setting, budget, nodes, files, best, left, job, cur, todo, acks, history>>

running(c) == pc[c] \notin {"off", "idle", "ok", "failed"}

Begin(c) ==
    /\ pc[c] = "idle" /\ kind(c) \in {"publish", "install", "show", "put", "get"}
    /\ publisher(c) => command[c].force \/ command[c].signer = get_dns_vk
    /\ goto(c, CASE kind(c) \in {"publish", "install", "show"} -> "latest"
                 [] kind(c) = "put" -> "turn"
                 [] kind(c) = "get" -> "fetch")
    /\ todo' = [todo EXCEPT ![c] = Nodes]
    /\ job' = [job EXCEPT ![c] = IF kind(c) = "put" THEN {blob(command[c].blob)} ELSE {}]
    /\ cur' = [cur EXCEPT ![c] = IF kind(c) = "get" THEN blob(command[c].blob) ELSE None]
    /\ before' = [before EXCEPT ![c] = {p \in DOMAIN command : publisher(p) /\ pc[p] = "ok"}]
    /\ orderly' = (orderly /\ (publisher(c) =>
                    ~command[c].force /\ \A p \in DOMAIN command : publisher(p) => ~running(p)))
    /\ UNCHANGED <<setting, budget, nodes, files, best, left, acks, missed, kept, restarted>>

\* The process of the command is killed.
Abandon(c) ==
    /\ running(c) /\ fault
    /\ goto(c, "failed")
    /\ orderly' = (orderly /\ ~publisher(c))
    /\ UNCHANGED <<setting, nodes, files, best, left, job, cur, todo, acks, before, missed, kept, restarted>>
-----------------------------------------------------------------------------
(* lookup::get_latest *)

\* Sign the record and the pointer and go on to store them, blob first.
Prepare(c, existing) ==
    IF prepare_publication(c, existing) = {}
    THEN goto(c, "failed") /\ UNCHANGED <<best, job>>
    ELSE \E h \in prepare_publication(c, existing) :
            /\ best' = [best EXCEPT ![c] = h]
            /\ job' = [job EXCEPT ![c] = {blob(Last(h).blob), record(h), latest(h)}]
            /\ goto(c, "turn")

\* A bug: get_latest stops at the first pointer.
Heard_first(c, R, h) ==
    /\ todo' = [todo EXCEPT ![c] = R]
    /\ IF R # {} \/ h # <<>>
       THEN /\ best' = [best EXCEPT ![c] = h] /\ UNCHANGED job
            /\ left' = [left EXCEPT ![c] = h]
            /\ goto(c, IF h # <<>> THEN "walk" ELSE "latest")
       ELSE /\ UNCHANGED left
            /\ IF publisher(c) THEN Prepare(c, <<>>) ELSE goto(c, "failed") /\ UNCHANGED <<best, job>>

\* With the nodes R still to ask, h is the newest pointer heard.  In the end there may be
\* none, which "does not garauntee that there is no history": a publisher begins a new one.
Heard(c, R, h) ==
    /\ todo' = [todo EXCEPT ![c] = R]
    /\ IF R # {} \/ h # <<>>
       THEN /\ best' = [best EXCEPT ![c] = h] /\ UNCHANGED job
            /\ left' = [left EXCEPT ![c] = IF R = {} THEN h ELSE <<>>]
            /\ goto(c, IF R = {} THEN "walk" ELSE "latest")
       ELSE /\ UNCHANGED left
            /\ IF publisher(c) THEN Prepare(c, <<>>) ELSE goto(c, "failed") /\ UNCHANGED <<best, job>>

\* A bug: the newest pointer does not win, the last one does.
AskLatest_last(c, n) ==
    /\ pc[c] = "latest" /\ n \in todo[c]
    /\ Heard(c, todo[c] \ {n}, IF latest_is_valid(pointer[n]) THEN pointer[n] ELSE best[c])
    /\ UNCHANGED <<setting, budget, nodes, files, cur, acks, history>>

\* A pointer that is not signed with the key in DNS is as good as none.
AskLatest(c, n) ==
    /\ pc[c] = "latest" /\ n \in todo[c] /\ get_dns_vk # None
    /\ Heard(c, todo[c] \ {n},
             IF latest_is_valid(pointer[n]) /\ (best[c] = <<>> \/ version(pointer[n]) >= version(best[c]))
             THEN pointer[n] ELSE best[c])
    /\ UNCHANGED <<setting, budget, nodes, files, cur, acks, history>>

\* There is no key in DNS: get_latest asks nobody.
NoKey(c) ==
    /\ pc[c] = "latest" /\ get_dns_vk = None
    /\ Heard(c, {}, <<>>)
    /\ UNCHANGED <<setting, budget, nodes, files, cur, acks, history>>

\* Some nodes are not heard: one, or all when get_latest cannot reach DNS.
AskMisses(c, M) ==
    /\ pc[c] = "latest" /\ M \subseteq todo[c] /\ get_dns_vk # None /\ fault
    /\ Heard(c, todo[c] \ M, best[c])
    /\ missed' = [missed EXCEPT ![c] = @ \union M]
    /\ orderly' = (orderly /\ ~publisher(c))
    /\ UNCHANGED <<setting, nodes, files, cur, acks, before, kept, restarted>>
-----------------------------------------------------------------------------
(* version_chain::walk_chain over the network, one lookup_value per record *)

held(v) == \E n \in Nodes : v \in values[n]

\* The record of h is found and is the owner's.
loads(h) == held(record(h)) /\ Last(h).signer = get_dns_vk

\* republish_values skips the pointer; a command ends.
WalkFails(t) ==
    /\ pc[t] = "walk"
    /\ \/ ~loads(left[t]) /\ UNCHANGED budget
       \/ loads(left[t]) /\ fault
    /\ goto(t, IF t \in Nodes THEN "turn" ELSE "failed")
    /\ UNCHANGED <<setting, nodes, files, best, left, job, cur, todo, acks, history>>

Walk(t) ==
    /\ pc[t] = "walk" /\ Len(left[t]) > 1 /\ loads(left[t])
    /\ left' = [left EXCEPT ![t] = Front(@)]
    /\ UNCHANGED <<setting, budget, nodes, files, pc, best, job, cur, todo, acks, history>>

\* install_package: the version asked for, the newest by default.
Choose(c) ==
    LET wanted == IF command[c].version = None THEN {Last(best[c])}
                  ELSE {e \in Range(best[c]) : e.version = command[c].version}
    IN  IF wanted = {} THEN goto(c, "failed") /\ UNCHANGED cur
        ELSE \E e \in wanted : cur' = [cur EXCEPT ![c] = blob(e.blob)] /\ goto(c, "fetch")

\* show_package lists the history.
List(c) == goto(c, "ok")

\* The first record is there and the history complete: store with it as proof, build on it,
\* list it or take a version.
Walked(t) ==
    /\ pc[t] = "walk" /\ Len(left[t]) = 1 /\ loads(left[t])
    /\ left' = [left EXCEPT ![t] = <<>>]
    /\ IF t \in Nodes
       THEN /\ goto(t, "store")
            /\ todo' = [todo EXCEPT ![t] = Nodes] /\ acks' = [acks EXCEPT ![t] = 0]
            /\ UNCHANGED <<best, job, cur>>
       ELSE /\ UNCHANGED <<todo, acks>>
            /\ \/ kind(t) = "publish" /\ Prepare(t, best[t]) /\ UNCHANGED cur
               \/ kind(t) = "show" /\ List(t) /\ UNCHANGED <<best, job, cur>>
               \/ kind(t) = "install" /\ Choose(t) /\ UNCHANGED <<best, job>>
    /\ UNCHANGED <<setting, budget, nodes, files, history>>
-----------------------------------------------------------------------------
(* lookup::store_value_with_proof, maintenance::republish_values *)

\* A bug: pointers are left to their publishers.
Republish_blobs(n) ==
    /\ pc[n] = "idle" /\ n \in republishing
    /\ job' = [job EXCEPT ![n] = values[n]]
    /\ job'[n] # {}
    /\ goto(n, "turn")
    /\ UNCHANGED <<setting, budget, nodes, files, best, left, cur, todo, acks, history>>

Republish(n) ==
    /\ pc[n] = "idle" /\ n \in republishing
    /\ job' = [job EXCEPT ![n] = values[n] \union {latest(h) : h \in {pointer[n]} \ {<<>>}}]
    /\ job'[n] # {}
    /\ goto(n, "turn")
    /\ UNCHANGED <<setting, budget, nodes, files, best, left, cur, todo, acks, history>>

\* A bug: the pointer goes out first.
rank_pointer_first(t, v) == IF v.type = "latest" THEN 0 ELSE 1

\* publish_package: the blob, the record, the pointer; republish_values: pointers last.
rank(t, v) == CASE v.type = "latest" -> 2
                [] v.type = "record" /\ t \notin Nodes -> 1
                [] OTHER -> 0

Turn(t) ==
    /\ pc[t] = "turn" /\ job[t] # {}
    /\ \E v \in job[t] :
        /\ \A w \in job[t] : rank(t, v) <= rank(t, w)
        /\ job' = [job EXCEPT ![t] = @ \ {v}]
        /\ cur' = [cur EXCEPT ![t] = v]
        /\ IF t \in Nodes /\ v.type = "latest"
           THEN goto(t, "walk") /\ left' = [left EXCEPT ![t] = v.of] /\ UNCHANGED <<todo, acks>>
           ELSE /\ goto(t, "store") /\ UNCHANGED left
                /\ todo' = [todo EXCEPT ![t] = Nodes] /\ acks' = [acks EXCEPT ![t] = 0]
    /\ UNCHANGED <<setting, budget, nodes, files, best, history>>

\* republish_values comes back an hour later.
Finish(n) ==
    /\ pc[n] = "turn" /\ job[n] = {}
    /\ goto(n, "idle")
    /\ cur' = [cur EXCEPT ![n] = None] /\ left' = [left EXCEPT ![n] = <<>>]
    /\ UNCHANGED <<setting, budget, nodes, files, best, job, todo, acks, history>>

\* Where a task goes when the last node has been called and a have acknowledged: publish_package
\* stops at a value that nobody acknowledged, put and republish_values do not look.
after_store(t, a) ==
    IF publisher(t) /\ a = 0 THEN "failed" ELSE IF t \in Nodes \/ job[t] # {} THEN "turn" ELSE "ok"

Called(t, n, acknowledged) ==
    LET a == IF acknowledged /\ t \in Clients THEN acks[t] + 1 ELSE acks[t] IN
    /\ pc[t] = "store" /\ n \in todo[t]
    /\ todo' = [todo EXCEPT ![t] = @ \ {n}]
    /\ acks' = [acks EXCEPT ![t] = a]
    /\ goto(t, IF todo[t] = {n} THEN after_store(t, a) ELSE "store")
    /\ orderly' = (orderly /\ ~(publisher(t) /\ todo[t] = {n} /\ a = 0))
    /\ kept' = IF acknowledged /\ publisher(t) /\ cur[t].type = "latest"
               THEN [kept EXCEPT ![t] = @ \union {n}] ELSE kept
    /\ UNCHANGED <<setting, files, best, left, job, cur, before, missed, restarted>>

\* A node refuses without an answer, which is not an acknowledgement.
StoreReply(t, n) ==
    /\ Called(t, n, accepts(n, cur[t]))
    /\ STORE(n, cur[t])
    /\ UNCHANGED <<budget, late>>

StoreMisses(t, n) ==
    /\ Called(t, n, FALSE) /\ fault
    /\ late' = late \union {[node |-> n, value |-> cur[t]]}
    /\ UNCHANGED <<values, pointer>>

\* A STORE its sender gave up arrives.
Deliver(m) ==
    /\ m \in late
    /\ late' = late \ {m}
    /\ STORE(m.node, m.value)
    /\ UNCHANGED <<setting, budget, files, local, history>>

\* Values live in memory.
Restart(n) ==
    /\ fault
    /\ values' = [values EXCEPT ![n] = {}] /\ pointer' = [pointer EXCEPT ![n] = <<>>]
    /\ goto(n, "idle") /\ job' = [job EXCEPT ![n] = {}] /\ cur' = [cur EXCEPT ![n] = None]
    /\ left' = [left EXCEPT ![n] = <<>>] /\ todo' = [todo EXCEPT ![n] = {}] /\ acks' = [acks EXCEPT ![n] = 0]
    /\ kept' = [c \in Clients |-> kept[c] \ {n}]
    /\ restarted' = TRUE
    /\ UNCHANGED <<setting, late, files, best, before, missed, orderly>>
-----------------------------------------------------------------------------
(* lookup::lookup_value, and the file the shell writes *)

Fetch(c) ==
    /\ pc[c] = "fetch" /\ held(cur[c])
    /\ goto(c, IF kind(c) = "install" THEN "create" ELSE IF command[c].file = None THEN "ok" ELSE "write")
    /\ UNCHANGED <<setting, budget, nodes, files, best, left, job, cur, todo, acks, history>>

FetchFails(c) ==
    /\ pc[c] = "fetch"
    /\ \/ ~held(cur[c]) /\ UNCHANGED budget
       \/ held(cur[c]) /\ fault
    /\ goto(c, "failed")
    /\ UNCHANGED <<setting, nodes, files, best, left, job, cur, todo, acks, history>>

\* The file named in the line, or the default for the version found.
filename(c) ==
    IF command[c].file # None THEN command[c].file
    ELSE default_install_filename(command[c].domain, command[c].package,
            IF command[c].version = None THEN version(best[c]) ELSE command[c].version)

\* A bug: the file is looked for, then opened.
Create_any(c) ==
    /\ pc[c] = "create"
    /\ files' = [files EXCEPT ![filename(c)] = "partial"] /\ goto(c, "write")
    /\ UNCHANGED <<setting, budget, nodes, best, left, job, cur, todo, acks, history>>

\* create_new: "Refuse to overwrite an existing file."
Create(c) ==
    /\ pc[c] = "create"
    /\ IF files[filename(c)] = "absent"
       THEN files' = [files EXCEPT ![filename(c)] = "partial"] /\ goto(c, "write")
       ELSE goto(c, "failed") /\ UNCHANGED files
    /\ UNCHANGED <<setting, budget, nodes, best, left, job, cur, todo, acks, history>>

\* install's write_all returns when the last chunk is in tokio's buffer, and nothing flushes it;
\* get's tokio::fs::write returns when all is written, but what an install has in the buffer may
\* still land on top.
Write(c) ==
    /\ pc[c] = "write"
    /\ \E content \in IF kind(c) = "install" THEN {"buffered"}
                       ELSE {cur[c].of} \union IF files[filename(c)] = "buffered" THEN {"buffered", "partial"} ELSE {} :
        files' = [files EXCEPT ![filename(c)] = content]
    /\ goto(c, "ok")
    /\ UNCHANGED <<setting, budget, nodes, best, left, job, cur, todo, acks, history>>

\* install removes what it began to write, if it can; get leaves it.
WriteFails(c) ==
    /\ pc[c] = "write" /\ fault
    /\ \E content \in IF kind(c) = "install" THEN {"absent", "partial"} ELSE {"partial"} :
        files' = [files EXCEPT ![filename(c)] = content]
    /\ goto(c, "failed")
    /\ UNCHANGED <<setting, nodes, best, left, job, cur, todo, acks, history>>

\* The chunk left in the buffer is written, or is not, and nobody hears of it.
buffered(c) == pc[c] = "ok" /\ kind(c) = "install" /\ files[filename(c)] = "buffered"

Flush(c) ==
    /\ buffered(c)
    /\ files' = [files EXCEPT ![filename(c)] = cur[c].of]
    /\ UNCHANGED <<setting, budget, nodes, local, history>>

FlushFails(c) ==
    /\ buffered(c) /\ fault
    /\ files' = [files EXCEPT ![filename(c)] = "cut"]
    /\ UNCHANGED <<setting, nodes, local, history>>
-----------------------------------------------------------------------------
CommandStep(c) ==
    \/ Show(c) \/ Exit(c) \/ Begin(c) \/ NoKey(c) \/ Fetch(c) \/ FetchFails(c) \/ Create(c) \/ Write(c) \/ WriteFails(c)
    \/ Flush(c) \/ FlushFails(c)
    \/ \E n \in Nodes : AskLatest(c, n) \/ AskMisses(c, {n})
    \/ todo[c] = Nodes /\ AskMisses(c, Nodes)

TaskStep(t) ==
    \/ Walk(t) \/ WalkFails(t) \/ Walked(t) \/ Turn(t)
    \/ \E n \in Nodes : StoreReply(t, n) \/ StoreMisses(t, n)

\* The shells are back at their prompts.
Quiet ==
    /\ \A c \in DOMAIN command : ~running(c) /\ pc[c] # "idle"
    /\ UNCHANGED vars

Next ==
    \/ \E c \in DOMAIN command : Refuse(c) \/ Abandon(c) \/ CommandStep(c)
    \/ \E t \in Nodes \union DOMAIN command : TaskStep(t)
    \/ \E n \in Nodes : Republish(n) \/ Finish(n) \/ Restart(n)
    \/ \E m \in late : Deliver(m)
    \/ Quiet

Spec == Init /\ [][Next]_vars

\* Every call of republish_values ends, by its answer or by the transport's deadline, and
\* periodic_task runs it again and again.  Nothing makes a late STORE arrive or a shell go on.
FairSpec ==
    /\ Spec
    /\ \A n \in Nodes : WF_vars(TaskStep(n) \/ Finish(n) \/ Republish(n))
-----------------------------------------------------------------------------
(* Properties *)

Labels == {"off", "idle", "latest", "walk", "turn", "store", "fetch", "create", "write", "ok", "failed"}

\* What each task and node holds; only shells ask for pointers and write files.
TypeOK ==
    /\ \A n \in Nodes : \A v \in values[n] : v.type \in {"blob", "record"}
    /\ \A n \in Nodes : pointer[n] \in Histories
    /\ pc \in [Tasks -> Labels]
    /\ \A n \in Nodes : pc[n] \in {"idle", "walk", "turn", "store"}
    /\ \A t \in Tasks : /\ best[t] \in Histories /\ left[t] \in Histories
                        /\ todo[t] \subseteq Nodes /\ acks[t] <= Cardinality(Nodes)
                        /\ pc[t] = "store" => cur[t] # None

Pointers == {h \in {pointer[n] : n \in Nodes} \union {m.value.of : m \in {l \in late : l.value.type = "latest"}} : h # <<>>}

\* publish_package stores blob, record and pointer in this order and stops where nobody
\* acknowledges: a pointer, held or still under way, never names a version whose record or
\* package nobody has, however calls fail and wherever publishers are killed.  It is stated as long
\* as no node has restarted: values live in memory, and the only copy may go with its node.
NoDanglingPointer ==
    ~restarted => \A h \in Pointers : \A i \in 1..Len(h) :
        held(record(SubSeq(h, 1, i))) /\ held(blob(h[i].blob))

\* A publication reported as done is genuine, of no more than MAX_CHAIN_LENGTH records, also
\* when --force skipped the checks of the publisher: the nodes have made them.
PublishedIsGenuine == \A c \in DOMAIN command : pc[c] = "ok" /\ publisher(c) => Genuine(best[c])

\* Whoever hears one of the nodes that acknowledged a publication, after it was reported, sees
\* that version or a newer one.
PublishedIsFound ==
    \A c \in DOMAIN command : \A p \in before[c] :
        /\ pc[c] \in {"walk", "turn", "store", "fetch", "create", "write", "ok"}
        /\ kind(c) \in {"publish", "install", "show"} /\ ~(publisher(c) /\ command[c].force)
        /\ ~(kept[p] \subseteq missed[c])
        => version(best[c]) >= version(best[p])

\* Those that get_latest takes.
Valid(H) == {h \in H : latest_is_valid(h)}

\* Two histories of a package under the domain's key arise only from publishers that overlap,
\* force, fail half-way or do not hear every node, or from nodes that lost what they held: late
\* STOREs and republished pointers never fork it, nor do pointers signed with a former key, which
\* get_latest passes over and which keep their place.
OrderlyIsLinear ==
    orderly /\ ~restarted => \A g, h \in Valid(Pointers) : comparable(g, h)

\* The file of an install that was reported is its own: it replaced nothing, no other install of
\* the shells shares it, and it holds the verified package once the chunk that was left in the
\* buffer is written.  It stays cut short only if that write failed, which nobody is told.  Only
\* a get may overwrite it.
InstalledIsIntact ==
    \A c \in DOMAIN command : pc[c] = "ok" /\ kind(c) = "install" =>
        \/ files[filename(c)] \in {cur[c].of, "buffered", "cut"}
        \/ \E g \in DOMAIN command : kind(g) = "get" /\ command[g].file = filename(c)

\* One history, the owner's, holds every pointer, and everything it names is still somewhere.
Recoverable(top) ==
    /\ Genuine(top)
    /\ \E n \in Nodes : pointer[n] = top
    /\ \A n \in Nodes : IsPrefix(pointer[n], top)
    /\ \A i \in 1..Len(top) : held(record(SubSeq(top, 1, i))) /\ held(blob(top[i].blob))

\* Once calls stop failing, a node that holds the newest pointer and republishes brings every
\* node to it, and to the records and packages it has, unless the history forked, part of it is
\* lost everywhere or the key in DNS has changed since.
Converges ==
    <>[](\A n \in republishing, m \in Nodes :
            Recoverable(pointer[n]) => pointer[m] = pointer[n] /\ values[n] \subseteq values[m])
-----------------------------------------------------------------------------
(* What makes the properties inductive *)

Stored == [type : {"blob"}, of : Blobs] \union [type : {"record"}, of : Histories \ {<<>>}]
Values == Stored \union [type : {"latest"}, of : Histories \ {<<>>}]

\* A line that was understood has what its command needs.
CommandOK(c) ==
    /\ kind(c) = "publish" => command[c].version \in Versions /\ command[c].signer \in Signers
    /\ kind(c) \in {"publish", "put"} => command[c].blob \in Blobs
    /\ kind(c) = "install" => command[c].version \in Versions \union {None}
    /\ kind(c) \in {"install", "get"} /\ command[c].file # None => command[c].file \in Files
    /\ kind(c) = "install" =>
        \A v \in Versions : default_install_filename(command[c].domain, command[c].package, v) \in Files

\* The commands that come to a place, and what they have in hand there.
TaskOK(t) ==
    /\ t \notin Nodes \union DOMAIN command => pc[t] = "off"
    /\ t \in Nodes => pc[t] \in {"idle", "walk", "turn", "store"} /\ cur[t] \in Values \union {None}
    /\ pc[t] = "store" => cur[t] \in Values
    /\ pc[t] = "walk" => (IF t \in Nodes THEN cur[t] \in Values ELSE best[t] # <<>>)
    /\ t \in DOMAIN command =>
        /\ pc[t] = "idle" => best[t] = <<>>
        /\ pc[t] \in {"latest", "walk"} => kind(t) \in {"publish", "install", "show"}
        /\ pc[t] \in {"turn", "store"} => kind(t) \in {"publish", "put"}
        /\ pc[t] \in {"turn", "store"} /\ kind(t) = "put" => \A v \in job[t] : v.type = "blob"
        /\ pc[t] = "store" /\ kind(t) = "put" => cur[t].type = "blob"
        /\ pc[t] \in {"fetch", "create", "write"} => kind(t) \in {"install", "get"}
        /\ pc[t] = "create" => kind(t) = "install"
        /\ pc[t] = "write" => kind(t) = "install" \/ command[t].file # None
        /\ pc[t] \in {"fetch", "create", "write", "ok"} /\ kind(t) = "install" =>
            best[t] # <<>> /\ cur[t] \in [type : {"blob"}, of : Blobs]

SharedTypes ==
    /\ budget \in Nat
    /\ values \in [Nodes -> SUBSET Stored] /\ pointer \in [Nodes -> Histories]
    /\ late \subseteq [node : Nodes, value : Values]
    /\ DOMAIN files = Files
    /\ before \in [Clients -> SUBSET DOMAIN command]
    /\ missed \in [Clients -> SUBSET Nodes] /\ kept \in [Clients -> SUBSET Nodes]
    /\ orderly \in BOOLEAN /\ restarted \in BOOLEAN

LocalTypes ==
    /\ pc \in [Tasks -> Labels]
    /\ best \in [Tasks -> Histories] /\ left \in [Tasks -> Histories]
    /\ job \in [Tasks -> SUBSET Values] /\ DOMAIN cur = Tasks
    /\ todo \in [Tasks -> SUBSET Nodes] /\ acks \in [Tasks -> Nat]

TypeInv ==
    /\ DOMAIN command \subseteq Clients /\ \A c \in DOMAIN command : CommandOK(c)
    /\ SharedTypes /\ LocalTypes
    /\ \A t \in Tasks : TaskOK(t)

\* Every acknowledgement is of a node that was called.
CountsOK ==
    \A t \in Tasks : /\ acks[t] <= Cardinality(Nodes)
                     /\ pc[t] = "store" => acks[t] + Cardinality(todo[t]) <= Cardinality(Nodes)

\* The parts of a publication.
Parts(h) == {blob(Last(h).blob), record(h), latest(h)}

\* A publisher stores the parts of its publication, the pointer last; what it has kept somewhere
\* is genuine.
PublisherOK(c) ==
    /\ pc[c] \in {"turn", "store"} =>
        /\ best[c] # <<>> /\ job[c] \subseteq Parts(best[c])
        /\ IF pc[c] = "store" /\ cur[c].type = "latest" THEN job[c] = {} ELSE latest(best[c]) \in job[c]
    /\ pc[c] = "store" =>
        /\ cur[c] \in Parts(best[c])
        /\ cur[c].type = "latest" /\ acks[c] > 0 => Genuine(best[c]) /\ (kept[c] # {} \/ restarted)
    /\ pc[c] \in {"ok", "failed"} \/ (pc[c] = "store" /\ cur[c].type = "latest") \/ kept[c] = {}
    /\ pc[c] = "ok" \/ kept[c] # {} => Genuine(best[c])

Publishers == {c \in DOMAIN command : publisher(c)}
PublishersOK == \A c \in Publishers : PublisherOK(c)

\* The files that only installs write to belong to one install each.
Shared(f) == \E g \in DOMAIN command : kind(g) = "get" /\ command[g].file = f
Installing(c) == c \in DOMAIN command /\ kind(c) = "install" /\ pc[c] \in {"write", "ok"} /\ ~Shared(filename(c))
FilesOK ==
    \A c \in DOMAIN command : Installing(c) =>
        /\ files[filename(c)] \in (IF pc[c] = "write" THEN {"partial"} ELSE {cur[c].of, "buffered", "cut"})
        /\ \A d \in DOMAIN command : Installing(d) /\ filename(d) = filename(c) => d = c

\* Everything a history names is somewhere.
Whole(h) == \A i \in 1..Len(h) : held(record(SubSeq(h, 1, i))) /\ held(blob(h[i].blob))

\* The pointers that nodes hold, that are under way, and that republish_values has in hand.
Carried(n) == {v.of : v \in {w \in job[n] \union ({cur[n]} \ {None}) : w.type = "latest"}}
InPlay == Pointers \union UNION {Carried(n) : n \in Nodes}

\* A publisher has found a whole history, and of what it adds nothing is missing but what it
\* has yet to store.
AddsWhole(c) ==
    /\ pc[c] \in {"latest", "walk"} => Whole(best[c])
    /\ pc[c] \in {"turn", "store"} =>
        /\ Whole(Front(best[c]))
        /\ \A v \in Parts(best[c]) :
            v.type = "latest" \/ held(v) \/ v \in job[c] \/ (pc[c] = "store" /\ cur[c] = v)
    /\ pc[c] = "store" /\ cur[c].type # "latest" /\ acks[c] > 0 => held(cur[c])

WholeInv ==
    ~restarted => (\A h \in InPlay : Whole(h)) /\ \A c \in Publishers : AddsWhole(c)

NotOlder(h, g) == h # <<>> /\ version(h) >= version(g)

\* A node that keeps a publication has it or a newer one of the owner's, and a command that has
\* heard such a node knows of it.
FoundInv ==
    /\ \A p \in Publishers : \A n \in kept[p] : latest_is_valid(pointer[n]) /\ NotOlder(pointer[n], best[p])
    /\ \A c \in DOMAIN command : \A p \in before[c] :
        /\ publisher(p) /\ pc[p] = "ok"
        /\ pc[c] = "latest" => \A n \in kept[p] \ (todo[c] \union missed[c]) : NotOlder(best[c], best[p])
    /\ PublishedIsFound

\* Every version is newer than all before it.
Ordered(h) == \A i, j \in 1..Len(h) : i < j => h[i].version < h[j].version

\* One publisher at a time adds to the one history there is.
Adding(c) == publisher(c) /\ pc[c] \in {"turn", "store"}

\* A node has the history h, or one that goes on from it.
Reached(h, N) == \E n \in N : latest_is_valid(pointer[n]) /\ IsPrefix(h, pointer[n])

OrderlyPublisher(c) ==
    /\ ~command[c].force /\ command[c].signer = get_dns_vk /\ get_dns_vk # None
    /\ \A d \in Publishers : running(d) => d = c
    /\ pc[c] = "latest" =>
        /\ best[c] # <<>> => Ordered(best[c]) /\ Reached(best[c], Nodes)
        /\ \A h \in Valid(InPlay) : IsPrefix(h, best[c]) \/ Reached(h, todo[c])
    /\ pc[c] # "latest" => Ordered(best[c]) /\ \A h \in Valid(InPlay) : IsPrefix(h, best[c])
    /\ Adding(c) => latest_is_valid(best[c]) /\ \A n \in kept[c] : Reached(best[c], {n})

LinearInv ==
    orderly /\ ~restarted =>
        /\ \A h \in Valid(InPlay) :
            /\ Ordered(h)
            /\ Reached(h, Nodes) \/ \E c \in Publishers : Adding(c) /\ h = best[c]
        /\ \A g, h \in Valid(InPlay) : comparable(g, h)
        /\ \A c \in Publishers : running(c) => OrderlyPublisher(c)

IndInv ==
    /\ TypeInv /\ CountsOK /\ PublishersOK
    /\ FilesOK /\ WholeInv /\ FoundInv /\ LinearInv
=============================================================================
