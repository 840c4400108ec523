# A verification of the Kademlia package registry

The repository is a node of a Kademlia network that distributes signed
packages. Nodes find each other through a routing table ordered by XOR
distance, store values on the `K` nodes nearest to a key, and publish packages
as hash-linked chains of signed version records under a signed *latest
pointer*. This directory holds TLA+ models of its parts, the TLC runs that
check them on small instances, and TLAPS proofs of what matters most for every
instance.

All source paths below are relative to `src/src/`.

## 1. Inventory

| Part | State | Operations | Talks to |
|---|---|---|---|
| Datagram transport (`pending.rs`, `rpc_transport/retry_transport.rs`) | pending slots by request id, request channel of 64, the wire | call, resend, time out, cancel, receive reply, receive request, stop | dispatch, the peer's transport |
| Stream transport (`rpc_transport/stream_framing.rs`, `tcp_transport.rs`) | one connection per call | dial, write, half-close, read the reply, deadline | dispatch |
| In-process network (`rpc_transport/networked_debug_transport.rs`) | bound addresses, inboxes, backlogs, the next ephemeral port | bind, unbind, drop, send, receive, connect, accept | both transports |
| Dispatch (`handle_rpc.rs`) | none | a task per datagram or connection, learn the sender, call the handler, frame the reply | handlers, routing table |
| STORE handler (`handle_rpc/store.rs`) | the value map | check the key, await DNS, verify the proof, compare and replace under the entry lock | version chains, DNS |
| Version chains (`version_chain.rs`, `package.rs`) | none | walk a history from a pointer, validate a proof, compare two histories | lookups |
| Routing table (`close_nodes/static_bucket.rs`, `close_nodes/sibling_list.rs`) | buckets, sibling list, a lock each | add, remove, query, iterate | `forget`, dispatch, lookups |
| Cache (`close_nodes/cache.rs`) | answers per target, generation counter | query, add, remove, expire, evict | routing table |
| RPC client (`rpc.rs`) | none | the four calls, `forget` | transports, routing table |
| Lookups (`lookup.rs`) | candidates, probes in flight | `lookup_node`, `lookup_values`, `store_value_with_proof` | RPC client, routing table |
| Registry (`registry.rs`) | none of its own | publish, install, show | lookups, chains, DNS |
| Maintenance (`maintenance.rs`) | none | liveness round, republish round | RPC client, lookups |
| Bootstrap, node (`bootstrap.rs`, `node.rs`, `main.rs`) | none | start, ping the seed, lookup per bucket, run the periodic tasks | RPC client, lookups |
| Shell (`cli.rs`) | files | parse a line, run the command | registry, lookups, RPC client |

What makes these hard, and where the models look: replies that are late,
doubled or lost; ids and ports that repeat; messages that end because their
sender died; tasks that interleave around an `await` or between two locks; a
check whose result is stale when it is used; caches and channels at their limit;
histories that fork, loop or are one record too long; replicas that fail one by
one or restart empty; nodes that crash, are forgotten and come back.
`PROJECT.json` lists each of these hazards at the line where it bites.

## 2. Modules

| Module | Models | Kind |
|---|---|---|
| `RpcService` | what a call promises its caller | abstract specification |
| `RetryTransport` | the datagram transport of every node and the wire between them | state machine, implements `RpcService` |
| `DebugNetwork` | the in-process network: addresses, ports, inboxes, backlogs | actions for `StreamCall` |
| `StreamCall` | calls over connections, `serve_streams`, `Rpc::call`, what dispatch learns | state machine on `DebugNetwork`, implements `RpcService` |
| `Chains` | records, pointers, histories, `compare_chains`, `continues_previous` | operators |
| `ChainWalk` | `walk_chain`, over a proof or over the network | state machine on `Chains` |
| `StoreHandler` | the STOREs of one node, running concurrently | state machine on `Chains` |
| `CloseNodesCache` | `CachedCloseNodes` | state machine |
| `RoutingTable` | `SiblingList` over `StaticBucket`, and `forget` | state machine |
| `Lookup` | `lookup_node`, `lookup_values`, `store_value_with_proof` | state machine |
| `Membership` | starting, joining, looking up, liveness rounds and crashes of all nodes | state machine |
| `Cli` | what a line typed into the shell stands for | operators |
| `Registry` | publish, install, show, put, get and republishing, over replicas | state machine on `Cli` |
| `MC...` | the constants and symmetries of the runs | |
| `...Proofs` | the theorems about the module they are named after (`ChainsProofs`: also `ChainWalk` and `StoreHandler`) | |

### How state and actions correspond to the code

**RetryTransport.** Each node has its pending slots, its request channel and
its running handlers; the wire is the set of datagrams ever sent, from which
delivery takes without removing, so datagrams are lost, doubled and reordered
freely. `Register`, `SendAttempt`, `Resend`, `TimeOut`, `Return` and `drop` are
the steps of `send_receive` and of `PendingResponse`; `ReceiveReply`,
`ReceiveRequest` and `StopListening` are the receive loop; `Spawn` and `Handle`
are `serve_datagrams`. Request ids come from a small set: `FreshIds` says
whether a run lets them repeat.

**DebugNetwork, StreamCall.** `sockets` maps each port to the endpoint whose inbox
stands under it; an endpoint outlives its binding, and dropping it removes whatever
is bound at its address by then. Ephemeral ports are counted up, wrap around, and
skip what is bound. A call dials, writes its request as many cells at a time as the
connection takes, closes its half and reads until the server closes; the deadline
may pass at any point. A message has no length: it ends where its sender closes. A
request is its framing (`FRAMING` cells: request id, sender, method) and the
`StoreRequest` that `encode_request_with_proof` writes: the key, the value with its
length ahead of it, the number of proof records and the records. The constant `Size`
gives the lengths. `up` counts the cells that were written; whatever is framed
reaches the handler, and `deserialize` decides there, as bincode does, whether the
cells last for the lengths they announce. A reply is *nothing*, *part*, *whole*, or
under another id (`Misanswer`: what listens there is no node), which `Read` takes
for `InvalidData`. `ReadRequest`, `Handle`, `RefuseRequest`, `Reply` and `Die` are
the task `serve_streams` spawns. `Fail` includes what `Rpc::call` does with the
error: `peer_is_gone` decides by its kind whether the peer may be forgotten. PINGs
by datagram are there because dispatch learns their senders, and nothing from a
connection.

**Chains, ChainWalk.** A record is a model value with a version, a signer and a
link; `Lineage` is the least set closed under the link. Keys are the records
they hash, so hashing is taken to be collision-free and signing unforgeable.
`ChainWalk` visits a record per step like the loop of `walk_chain`, over every
link structure the records can have, also the ones no hash would allow.

**StoreHandler.** A task receives a request, and then stores a blob, or awaits
DNS (`ResolveDns`), and commits under the entry lock (`Commit`). `ChangeDns`
happens at any time, so the owner's key can change between the two.

**CloseNodesCache.** A query is cut where other threads come in: load the
generation, look up, query the layers below, make room, insert. A write changes
the layers below first and the counter after. Each call of the concurrent map
(`get`, `len`, `retain`, `clear`, `insert`) is one step; the map is a library and
its calls are taken to be atomic.

**RoutingTable.** A step is what a thread does under one lock. An addition
writes the bucket, then the siblings; a removal holds the sibling lock while it
writes the bucket; a query reads its home bucket, widens by one bucket per
step, and merges the siblings last; `forget` counts siblings and buckets one by
one and then removes. Ids are numbers and the metric is a constant operator; the
runs use XOR.

**Lookup.** Nodes are named by their distance to the target. What peers name
and hold is chosen once and for all: at most `K` others each, any set of them, since
`close_nodes` stops at the first `K` candidates and need not return the nearest; the
same goes for the contacts a lookup starts with. Each call ends with its answer or
fails, in any order. Filling the pipeline has no `await` in it and belongs to the step
that processes a reply.

**Membership.** A node is its id, so one that restarts is the same contact with an
empty table. `Start`, `SeedReply`, `SeedIsSelf` and `SeedFails` are `main` and the
ping of `bootstrap`; `Lookup`, `Probe`, `Serve`, `NodeReply`, `NodeFails` and
`EndLookup` are `lookup_node` at both ends, `EndLookup` with the choice of the next
bucket a bootstrap refreshes; `BeginRound`, `Ping`, `PingTaken`, `PingFails` and
`EndRound` are `check_liveness`. The nodes in `busy` look things up and ping without
end, as users and the republishing task do. `Take` gives the address of a node that
has ended to another program, which answers a PING under another id (`PingTaken`)
and names nobody (`ServeTaken`). `close_nodes` is the set of answers the layers may
give: buckets read outwards from the target's until there are `K` candidates, and
any `K` contacts as siblings, because a removal leaves holes in the list; the cache
in front of it, which may give an older answer for a while, is left out. `forget`
counts and removes in one step here; the race between the two is `RoutingTable`'s. A
request whose call has ended stays in `late` and may be served at any time. Tables
are sets without a bound: `RoomAssumption` says that no bucket overflows, because
what a full one turns away is `RoutingTable`'s subject.

**Cli, Registry.** A line is a sequence of words, a word a sequence of the fields
that colons separate; `parse` returns the command or nothing. `Registry` runs each
command as a task whose steps are its calls to the nodes: `AskLatest` and `Heard`
are `get_latest`, which passes over pointers not signed with the key in DNS; the
walk loads the history, stores go out in the order blob, record, pointer, and
`Create` and `Write` are the file of an install. `write_all` returns while the last
chunk is still in tokio's buffer, and nothing flushes it: it is written later
(`Flush`) or fails unheard (`FlushFails`). `Cli` is there because every command of a
scenario enters `Registry` as a line that is typed, so which arm, file, version and
options a line selects is the code's choice and not the scenario's. A call is
answered, or given up, and then its STORE may arrive later or never. Nodes accept
what `StoreHandler` would, restart empty, and republish.

### Composition

The cache stands on the routing table through the interface of `CloseNodes`:
`CloseNodesCache` lets the layers below drop any contact on an addition, which
covers what `RoutingTable` does. `StoreHandler` uses the operators whose meaning
`ChainWalk` establishes: its `verified` is the outcome `WalkIsSound` and
`WalkIsComplete` describe, and `Registry`'s `accepts` is in turn what
`StoreHandler` is shown to do. Both transports implement `RpcService`, and that is
what `Lookup`, `Membership` and `Registry` take a call to be: it ends, an answer is
the peer's own, and a failure says nothing about whether the handler ran.
`StreamCall` extends `DebugNetwork`, `Registry` extends `Cli`.

## 3. Runs

| Run | Instance | Shows |
|---|---|---|
| `transport_fresh` | two nodes calling each other, ids that do not repeat | a call returns only its own answer, slots are neither lost nor leaked, the transport implements `RpcService` |
| `transport_reuse` | one caller, two peers, one id | even then an answer is the peer's |
| `streams` | three endpoints, three ports of which one is ephemeral, one call with a value of two cells and a proof of one, one PING | requests cut off anywhere are not carried out, a refusal is not taken for death, only reachable addresses are learned, a connection implements `RpcService` |
| `chain_walk` | three records, every link structure, length limit 2 | what is accepted is exactly the genuine history; the walk ends |
| `store_handler` | two tasks; records that fork, go stale and change keys | acknowledged values are kept, nothing rolls back or forks, a key change freezes the package |
| `cache` | two threads, three targets, two contacts, capacity one, both modes | a query misses no write (under `ttl_only`: no removal) that was complete when it began; the capacity is exceeded by one entry per thread at most |
| `table_layers` | two threads, two peers, two addresses | sizes and indices in bounds, the layers agree, removals are complete |
| `table_queries` | two threads, three peers, three buckets, `K` = 2 | queries miss nothing known all along, siblings are the nearest offered |
| `table_floor` | two threads | *violated*: two `forget`s at once go below the floor |
| `lookup` | four peers that name any `K` or fewer others, and up to one contact to start from; every distribution of values with any call failing | the lookup settles on the nearest heard of, all asked, and finds the nearest of all where every peer names a nearer one; replicas that answer are heard, acknowledgements are real, lookups end |
| `membership` | four nodes in two neighbourhoods, `K` = 2, five networks: founding one, joining through a seed that crashes, a crash and a return (or another program at the address) during rounds, a node gone for good that others at their floor go on naming, two networks joined by a ping | a node that joined is never isolated, knowledge becomes mutual, the dead are dropped after each time they are put back, joins end |
| `registry` | two nodes, two shells, histories of up to two records, eighteen scenarios with up to two faults, some with a pointer signed with a former key | pointers never dangle, what is reported published is genuine and found, histories fork only for the stated reasons, installed files are intact, republishing converges |

The run marked *violated* checks what `maintenance.rs:101` says; its finding in
`PROJECT.json` has the line and what happens. Other statements of the repository
are not quite what the code does, and the property that does hold is checked
instead:

* `pending.rs:88` calls the removal in `drop` a no-op after delivery. With an id
  drawn twice it removes the slot of the later call. `SlotOutlivesAwait` and
  `OwnAnswer` are therefore stated for ids that do not repeat, and `AnswerFromPeer`
  for all.
* `sibling_list.rs:19` calls the list the contacts closest to us, and says that one
  evicted from it is not lost. After a removal the list is not refilled from the
  buckets, and an evicted sibling whose bucket was full when it was offered is in
  no layer. `NearestOffered` and `LayersAgree` state what remains.
* `handle_rpc/store.rs:52` says that a sender cannot tell a refusal from silence.
  Over a connection it can, and `Rpc::call` uses that: `RefusalIsNotDeath`.
* `networked_debug_transport.rs:327` says that an endpoint is unbound only when it
  is being dropped; `unbind` does it to an endpoint in use. Dropping that endpoint
  later removes whoever is bound at its address by then.
* `docs/architecture.md:393-397` says of a STORE that "a higher version replaces the
  old pointer". `continues_previous` (`handle_rpc/store.rs:142-163`) also asks that the
  new history go on where the old one ends, and refuses a higher version of a fork:
  `AcceptsExactlyExtensions`.
* The repository's `README.md:130` says "Nodes do not republish values", and
  `docs/architecture.md:286` "Republishing is not implemented". `periodic_task` runs
  `republish_values` every `REPUBLISH_INTERVAL` (`node.rs:113-128`,
  `maintenance.rs:39-94`), and `Converges` rests on it.
* The cache's capacity is overshot by racing threads (`OvershootBounded`), and
  `close_nodes` stops at the first `K` candidates, so it does not always return the
  `K` nearest known (`QueryMissesNothing`).

Three more things the models show, of which no document says otherwise:

* `installed ...` may be printed for a file whose last chunk is never written
  (`cli.rs:538`: `write_all` without `flush`). `InstalledIsIntact` admits a file cut
  short there and nowhere else.
* A node that is gone does not stay out of the tables. Nodes at their floor keep it
  and name it, and every lookup offers the table all it hears of
  (`lookup.rs:66-68`). `DeadIsDropped` therefore says that it is dropped again after
  each return; that it is some day gone for good is false, and TLC refutes it in the
  fourth network of `membership`.
* After the key in DNS has changed, nodes that hold a pointer signed with the former
  key refuse the new history, and publishers begin one beside it: `SignerNeverChanges`
  and `OrderlyIsLinear`, which speaks of the pointers under the present key.

### Bounds, and why they are enough

Every bound is a constant or a part of a scenario: attempts per call, capacity of
the channel, datagrams sent, the length of a chain, `MaxGeneration` writes, how
often nodes start, how many calls and nodes fail, the sizes of the sets. They are
the least with which the interesting case happens: two calls under one id, a
third party answering; ports that wrap around onto bound ones while an unbound
endpoint is still in use; a fork and a stale version of one history, and another
key's; a fill that overlaps two writes; a query that starts with a full bucket on
one side and an empty one on the other; more peers than `K`,
and replies that name the caller; a table larger than `K`, so that `forget` may
remove, that shrinks to `K`, so that it must not; a history at its length limit;
a publisher killed between any two stores. Threads, tasks, addresses, contacts
and targets are symmetric where the model treats them alike; runs with a liveness
property use no symmetry.

`Membership` and `Registry` start from listed scenarios rather than from every
state, because the product of their networks, histories and faults is out of
TLC's reach. Each scenario is a state the program can be started into, and says
in a comment what it is for.

Deadlock is checked except where a system may stop: when all calls have ended
(`transport_*`, `streams`), the walk is over (`chain_walk`), or everybody is off or
idle with nothing left to fail (`membership`).

### Fairness

`RetryTransport` and `StreamCall` assume that a caller's timer fires and its task
runs (weak fairness of the caller's own steps), and nothing of the wire, the peer
or the receive loop. `ChainWalk`, `Lookup` and `Membership` assume that each fetch or
call ends, which is what the transports' deadlines give and `ImplementsService`
shows; `Membership` also that the liveness interval of the nodes in `checking` runs
out again and again, and that a late request does not stay under way for ever.
`Registry` assumes that the republishing tasks of nodes run. No fairness is assumed
of a message's arrival, but `Membership` and `Registry` bound how many calls and nodes
fail, so that `KnowledgeIsMutual` and `Converges` speak of what happens once failures
have stopped: both would be false if every call could be lost for ever. The other
liveness properties (`WalkEnds`, `LookupEnds`, `ImplementsService`) hold with any number
of losses, and `DeadIsDropped` and `JoinEnds` need no message to arrive: a call that
ends without an answer serves them as well.

## 4. Proofs

TLAPS proves the following for all values of the constants that satisfy the
named assumptions, so for any number of nodes, calls, threads and faults.

* **`RetryTransportProofs`.** The type invariant; that an answer comes from the
  peer that was asked, after it ran the handler; that every slot belongs to a
  running call. If ids do not repeat: that a call gets its own answer only and
  keeps its slot, and that the transport implements the safety part of
  `RpcService`. The inductive invariant adds that every reply on the wire was
  preceded by its request and its execution, and that a slot and the call that
  waits for it name the same peer.
* **`StreamCallProofs`.** `WholeRequestsOnly`, `RefusalIsNotDeath`,
  `LearnedIsReachable`, and that a connection implements the safety part of
  `RpcService`. `WholeRequestsOnly` rests on a lemma about the encoding, for values
  and proofs of any length: `deserialize` fails on every proper prefix of what
  `encode_request_with_proof` writes (`PartsDoNotDecode`). The strengthening has
  three parts: a connection waits in one backlog and is not served while it does
  (`BacklogInOrder`), neither end is ahead of the other (`EndsInStep`), and nothing
  can refuse a call that failed for another reason than time (`RefusalsAreLast`).
  The last needs the first: a call could otherwise fail, and be accepted and refused
  afterwards.
* **`ChainsProofs`**, for `Chains`, `ChainWalk` and `StoreHandler`. Lemmas on
  histories: a lineage contains its head and the predecessor of each member,
  lineages nest, and `continues_previous` accepts exactly the extensions. No
  induction is needed because `Lineage` is defined as a least closed set.
  `WalkIsSound` and `WalkIsComplete`, from an invariant saying that the chain is the
  newest part of the pointer's lineage, without repetition, and that what remains
  starts at the record to be fetched. All of the store handler's properties; their
  strengthening is `VerifiedAtCommit`: a task that waits for the entry lock holds a
  pointer whose whole history was verified. It is what survives the await; the
  DNS answer does not, and no property rests on it.
* **`CloseNodesCacheProofs`.** `WritesAreSeen` in both modes and
  `OvershootBounded`. The strengthening `AnswersCurrent` extends the claim from
  returned answers to those in the map and in the hands of running queries.
* **`LookupProofs`.** The four safety properties of lookups. `ClosesIn` says that
  the candidates are at all times the `K` nearest of everything heard of, and rests
  on one fact about the metric: to truncate to the `K` nearest, add, and truncate
  again loses nothing (`NearestMerge`). That the nearest node of all is found
  follows because the nearest candidate has been asked and, if it were not the
  nearest of all, would have named a nearer one. That is the hypothesis `LeadsOn`,
  about what peers name and not about what they know: `close_nodes` does not promise
  it. `AsksOnce` and `ReadsOn` carry the second half of reads and stores.
* **`MembershipProofs`.** `NeverIsolated`, for any set of nodes and any crashes,
  losses and late requests. It is inductive once it also covers nodes that are
  still joining, and once the type invariant says that a process that has ended
  left no call behind which would write into the next one's table. Nothing is assumed of
  what `close_nodes` answers but that it is a set of contacts (`AnswersAreContacts`).

* **`RoutingTableProofs`.** All of the table's properties that hold: sizes and
  indices are in bounds, siblings are the nearest offered, the layers agree,
  removals are complete and queries miss nothing, for any number of threads, ids
  and buckets and any metric that tells ids apart (`DistanceAssumption`). The
  inductive invariant `IndInv` says three more things. `Gathering`: between two steps
  a query has read a contiguous range of buckets, each of them once, so that what
  stayed in one of them is in hand. `Alone`: a call that writes an id while nobody
  else does knows what both layers hold of it; an id that two calls write at once is
  in `raced`, and `LayersAgree` does not speak of it. And a removal past the sibling
  list has left nothing there.
* **`RegistryProofs`.** All of the registry's safety properties, for any sets of
  nodes, shells and histories and any number of faults. The inductive invariant
  `IndInv` has a part per question, each resting on the first two:
  * `TypeInv`: where a command can stand and what it has in hand there. It is what
    makes `Last(best[c])` or `cur[c].of` meaningful at the lines that use them.
  * `CountsOK`: a task that is storing has acknowledgements of at most the nodes it has
    called, so their number never passes the number of nodes. With `TypeInv` it gives
    `TypeOK`.
  * `PublishersOK`: a publisher stores the parts of one publication, the pointer
    last, and counts an acknowledgement of it only from a node that verified it.
    `PublishedIsGenuine` follows.
  * `FilesOK`: a file that only installs write to belongs to the install that
    created it, from `create_new` on, until the last chunk is written or lost.
    `InstalledIsIntact` follows.
  * `FoundInv`: a node that keeps a publication has it or a newer one, and a command
    that has heard that node is not behind it. `PublishedIsFound` follows.
  * `WholeInv`: every pointer *in play* names only what some node holds. In play are
    the pointers nodes hold, those in STOREs that are late, and those that
    `republish_values` has copied: without the last two an old copy could come back
    for parts that never arrived. A publisher in the middle has found a whole history
    and is missing only what it has yet to store. `NoDanglingPointer` follows.
  * `LinearInv`: while publishers are orderly, all pointers in play that are signed
    with the key in DNS lie on one line, each of them a prefix of what some node
    holds or the one publication being made, and the publisher at work has that line
    in hand or still to hear. Versions along it are `Ordered`: each is newer than
    all before it, where the code and `Increasing` compare neighbours
    (`IncreasingIsOrdered`). `OrderlyIsLinear` follows.

  The assumptions are that shells are not nodes and nodes are finitely many
  (`TasksAssumption`), versions are numbers (`VersionsAssumption`), a chain may have
  a record (`LengthAssumption`), the absent value is none of the others
  (`NoneAssumption`, `BlobsAssumption`), and that a scenario starts with nodes whose
  histories are increasing, under whatever keys, and shells whose lines have the
  files and keys they name (`ScenariosAssumption`). TLC evaluates them on every run.

Between them the theorems state every safety property that a passing run checks.

Checked by TLC only:

* liveness (`WalkEnds`, `LookupEnds`, `KnowledgeIsMutual`, `DeadIsDropped`,
  `JoinEnds`, `Converges` and the fairness half of `ImplementsService`), which is
  beyond the prover's reach;
* `FloorKept`, which does not hold;
* which command a line stands for: `parse` folds over the words, and what a fold
  computes would need induction over data. The proofs use what holds of every
  command `parse` returns, whatever the fold yields (`ParsedLines`).

## 5. Not modelled

* Byte formats (bincode beyond the lengths in a STORE, the framing of ids apart from
  the reply tag), hashing and signatures as computations: they are taken to be
  injective and unforgeable.
* The DNS protocol and the resolver. A domain has TXT records, some of which hold a
  key, and a lookup may fail.
* Sockets and the concurrent maps of libraries, beyond what the code relies on.
* Reading of arguments and key files in `main.rs`, the wiring of generics in
  `node.rs`, the hardcoded keys of `fake_dns.rs`, and what the shell prints.
* `instrumentation.rs` and `logging.rs`: log lines that no behaviour depends on.
* `close_nodes/dumb_bucket.rs` and `rpc_transport/debug_transport.rs`: a baseline and a
  test double that no node is built with.

Time is modelled by what it triggers: a timer may fire at any moment and an entry
may expire at any moment; latency, loss rates, intervals and jitter are a choice.
The memory order of the cache's counter is taken as sequentially consistent.
`Membership` does not repeat the races inside one table, nor `Registry` those inside
one STORE: `RoutingTable` and `StoreHandler` have them.
