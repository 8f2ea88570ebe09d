# A verification of rings-node in TLA+

rings-node is a node of a peer-to-peer network. Its nodes are joined by WebRTC
data channels and form a Chord ring: every node has an identifier (`Did`, 160
bits), keeps a table of fingers and a sequence of successors, and forwards
messages along them. Around that core it stores data on the ring, measures its
peers, and serves HTTP, JSON-RPC and browser front ends.

This directory holds TLA+ modules translated from the source, TLC
configurations that check them on small instances, and theorems about them
whose proofs TLAPS checks. `PROJECT.json` lists the runs, the theorems, the
source lines each definition stands for, the hazards the properties are aimed at,
the disagreements met on the way, and for every property a slip in the code that
it notices.

## 1. The system and its parts

| Component | State | Operations | Hard part |
|---|---|---|---|
| Identifier ring (`dht/did.rs`) | none | addition, subtraction, bias (clockwise distance) | wraparound |
| `PeerRing` (`dht/chord.rs`, `finger.rs`, `successor.rs`) | finger table, index of the next finger to fix, successor sequence, predecessor | `join`, `remove`, `find_successor`, `notify`, `fix_fingers` | two tables that must agree, late reports, capacity |
| Its mutexes (`dht/chord.rs`) | three locks | every operation above | order of acquisition, two kinds of threads |
| Relay (`message/protocols/relay.rs`) | path, cursor, next hop, destination of one message | `relay`, `report`, `reset_destination`, loop detection | reports through paths with repeated nodes, circles |
| Message handlers (`message/handlers/*.rs`, `payload.rs`) | none of their own | one handler per message | each decides from local tables |
| Stabilizer (`dht/stabilization.rs`) | none | `notify_predecessor`, `fix_fingers` on a timer | must repair everything joins and failures leave |
| Swarm (`swarm.rs`, `transports/manager.rs`) | registered and pending transports, event channel | `connect`, `disconnect`, `register`, event handling | two records of who is a neighbour, glare |
| Transport, native and browser (`transports/default`, `transports/wasm`, `helper.rs`) | peer connection, candidates, data channel, chunk list, promises | handshake, send, receive, callbacks | lost wakeups, callbacks at any moment, two builds that differ |
| Chunks (`chunk.rs`) | list of chunks received | `handle` | interleaving, duplicates, expiry |
| Storage (`dht/vnode.rs`, `chord.rs`, `handlers/storage.rs`, `subring.rs`) | stored virtual nodes, cache | lookup, operate, handover | read-modify-write across awaits, handover |
| Measure (`src/measure.rs`, `storage/persistence`) | periodic counters, rows of a persistent table | `incr`, `get_count`, `put`, `get`, `prune` | steps with awaits between them, restarts, capacity |
| Sessions and payloads (`session.rs`, `payload.rs`, `protocols/verify.rs`) | delegated key and its session, two verifications per payload | sign, relay, verify, renew | clocks that differ, expiry on the way, a renewal between two locks |
| Backend (`src/backend`) and its callers (`browser/client.rs`) | the request the listener is at, a broadcast channel, a chunk list | custom messages, http requests, chunked reports, `pollMessage` | a server that hangs, lag, callers that share a mutex |
| Processor, JSON-RPC, CLI, browser page (`src/processor.rs`, `src/jsonrpc`, `src/cli.rs`, `src/browser`, `bin/rings.rs`) | none of their own, but a subscription's index | handshakes by hand and over http, sends, storage calls, topics | runs beside the listener |

How they meet: the transport's callbacks put `RegisterTransport`,
`ConnectClosed` and `DataChannelMessage` events on the swarm's channel. The
listener takes an event, turns the first two into the local messages
`JoinDHT` and `LeaveDHT`, and handles one message at a time (on a native node; a browser starts a
listener every second, whether or not those before are done); a handler reads and
writes `PeerRing` and sends through `PayloadSender`, which looks up the next hop
and the transport to it. The stabilizer's timer runs in the same task as the
listener (`Processor::listen` joins the two), the JSON-RPC handlers on other
threads of the runtime.

What makes each part correct is stated in the modules; in short: tables name
only live neighbours and the nearest ones, lookups advance, answers come home
and questions never circle for ever, registries and tables follow the links that open and
break, chunks become the message that was sent, what an honest node signs is
accepted and what is stale is not, counters neither lose nor invent a call, requests
are answered and polls return, and no lock order can stop the node.

## 2. Modules

| Module | Models | Used by |
|---|---|---|
| `Ring` | dids, distance | `DhtTables` |
| `DhtTables` | the operations of the tables as operators over their values | `PeerRing`, `ChordNet`, `VNode` |
| `PeerRing` | the tables of one node under every caller | `MCPeerRing`, proofs |
| `DhtTablesProofs`, `PeerRingProofs` | theorems and proofs | |
| `Relay` | the envelope's operations | `RelayTrip`, `ChordNet`, `VNodeStore` |
| `RelayTrip` | one question and its answer from node to node | `MCRelayTrip` |
| `ChordNet` | the overlay: nodes, links, handlers, stabilizer, crashes | `MCChordNet` |
| `Transports` | the transports of a node towards a peer: offers, registration, replacement, closing | `MCTransports` |
| `VNode` | virtual nodes and the operations on them, as operators | `VNodeMap`, `VNodeStore` |
| `VNodeMap` | what the storage promises: one map, operations that read once and write once | `VNodeStore` |
| `VNodeStore` | the storage calls and handlers of nodes on a ring | `MCVNodeStore` |
| `DhtLocks` | `PeerRing`'s operations as sequences of locks | |
| `ChunkList` | reassembly of chunked messages | `MCChunkList`, `Backend` |
| `IceTransport` | one connection of either build, from the offer to the messages | `MCIceTransport` |
| `Payloads` | sessions, and the verification of payloads along a path | `MCPayloads` |
| `RowStore` | the browser's persistent table | `Measure` |
| `Measure` | the counters of peers, over the file store or `RowStore` | `MCMeasure` |
| `ChordNetProofs`, `TransportsProofs`, `ChunkListProofs`, `MeasureProofs`, `VNodeStoreProofs` | theorems and proofs about the module each is named for; `MeasureProofs` also about `RowStore`, `TransportsProofs` about `IceTransport`, `VNodeStoreProofs` about `VNode` and the refinement of `VNodeMap` | |
| `MessageProofs` | theorems and proofs about `RelayTrip`, `Payloads` and `Backend` | |
| `Backend` | custom messages between applications, http responses, `pollMessage` | `MCBackend` |

The powers of two of the ring are a constant function `Pow`, constrained by
`RingAssumption`, so that no recursion is needed and the proofs hold for 160 bits
as for 3.

### PeerRing

The variables are the fields of `PeerRing` and of its two tables. A
`SuccessorSeq` is kept sorted by bias and without duplicates by `update`, its only
insertion, so it is the set of its elements; the order is that of the biases.
Every operation that writes is one action: the functions are synchronous, and
their callers, the message handlers and the stabilizer, share a task. Arguments
are arbitrary peers in any order, which is more than the network produces; for
instance `FixReport` writes any did into the slot the index points to when the
report arrives.

### Relay and RelayTrip

`Relay` translates `MessageRelay`. The cursor counts from the end of the path, as
in the code. `CanRelay` is the conjunction of everything that makes `relay`
return an error. `RelayTrip` sends one message through nodes whose next hops are
arbitrary functions, with cycles and self loops, changed once while the message
is under way. `MaxPath` bounds the path beyond what `LoopsAreCut` allows, so
that the bound is never what ends a trip.

### ChordNet

Each node has the tables of `DhtTables` and a set of registered transports. A link
is a pair of transports that connected; each direction is a queue of what the
receiving node has yet to handle: `Opened` (the `RegisterTransport` event), the
messages, and `Closed` (`ConnectClosed`) when the link broke. Each handler is one
action with the whole of the code's handler in it: the relay checks, the tables,
the sends and what happens when a send fails. The lookup's three outcomes
(answered, forwarded, dropped), including the strict branches, are
`LookupOutcome`. A failing link or a crash loses any suffix of what was in
flight.

Abstractions: a handshake is one step, from the report at its origin or `Dial`
for the manual one, to two `Opened` events, so there is one transport per pair;
two nodes that connect to each other at once open the link twice, which the
handlers must bear; which of two transports survives is the subject of
`Transports`.
The manual handshake registers its transport before it connects; here it is
registered when it connects. `AlreadyConnected` changes no state and is left out.
A crashed node does not come back. A stabilizer runs whatever is under way, at most `MaxRounds` times
in all (`rounds`, the bound of the exploration). The stabilizer sends its notifications and
its question in one step, though the listener may run between its sends.
Only the routing half of `NotifyPredecessorReport` is here; the handover of virtual
nodes it also starts is in `VNodeStore`. Sessions never expire.

### Transports

One node and its transports towards one peer, which offers, answers, connects and fails as it
likes. `ice[t]` is the state of a connection, `pending` and `registered` are the two lists of
`Swarm`, `events` its event channel, `member` says whether `PeerRing` knows the peer. Whatever runs
at the node is a call (`calls`): a record of what it handles, its transport, its next step and what it
has read of the registry. Every read or write of a shared record is a step, so that `register`
(`manager.rs:49-75`) is five: `Check` (the state of the transport, then what is registered), `CompareOld` and
`CompareNew` (the two awaits of line 61), `Set` and `CloseOld`. The other calls are split in
the same way: `load_message` into loading, registering, `PopPending` and the local message;
`ConnectNodeSend` into `ReportConnectNode` and `PushPending`; `Processor::disconnect` into closing and
`Remove`; `Swarm::disconnect` into `HandleLeaveDHT`, `Drop` and `CloseOld`. On a daemon any two steps of two calls
may come one after the other (the runtime has several threads), but the listener has one call
(`ListenerFree`). A browser has one thread, so a call is only interrupted at an await (`MidWay`, `Interrupted`), but any number of listeners. `try_lock` on the
pending list may fail on a daemon (`LockFails`), at every place that locks it.

What the registry and the lists come to is not what one would wish, so the properties name what
does come about, in history variables, and forbid the rest:

- two threads (`connect_peer_via_http` and `answer_offer`, say) both find nothing registered and both set: the first
  transport is neither registered nor closed (`lost`). A transport that is taken off by another's removal, that
  finds the list locked when it is to be pushed, or that `close_pending_transport` gives up
  before it connects, is lost as well;
- a transport fails after `register` has checked it and before it is set: it is registered dead, its
  `ConnectClosed` has come and gone, and it stays (`late`);
- the list is locked when the event of a transport looks for it, or, in a browser, one listener takes the event
  before another has pushed: the transport stays on the pending list (`overdue`);
- `Processor::disconnect` takes the transport and the DHT keeps the peer (`unplugged`).

`MembersHaveTransports` speaks of daemons: in a browser the listener of a `JoinDHT` and that of a
`LeaveDHT` overlap, and the DHT may keep a peer without a transport. The other direction is not
promised at all: when `accept_answer` pops the transport before `load_message` does, the second pop is an
error and no `JoinDHT` is made, so a registered peer stays unknown to the DHT.

Abstractions: a connection that ICE reports disconnected does not recover (the code
closes nothing when it does, but has dropped it by then); an offer whose push finds the list locked is an
error that leaves nothing behind but an unconnected transport, and never comes about here;
`connect_peer_via_http` has a branch for a failed request that cannot run, because `?`
returns first, and is left out.

Who calls what is the last part of the module: the JSON-RPC methods (`Rpc...`), which
the command line calls (`CommandLine`), and the calls of a page (`Browser...`, `Page`). A request over http
that fails (`DoRequestFails`) leaves what was done before it. The signature a daemon
asks of its callers is left out: a refused call does nothing.

### VNode, VNodeMap and VNodeStore

`VNode` has the operations of `dht/vnode.rs` on a record of did, kind and data. An
element of data is an opaque value that knows whether `Encoder` made it or
`From<String>`, because that decides whether it decodes: `TryFrom<Subring>` stores
plain JSON and the way back decodes base58, so every `JoinSubring` is an error and
no subring is ever stored. `MaxLen` is `VNODE_DATA_MAX_LEN`. What a touch leaves of the
old data (`Remains`) is defined by the rank of each element among those kept, which needs no
recursion. `OperationAssumption` says what the calls of the processor bring: data of the key's own
did, not more of it than the limit.

`VNodeMap` is the abstract specification: a value per key, and operations that read the value of
their key at one moment and write what they made of it at another, each once; any number may be
open together. `VNodeStore` is what the nodes do. A storage call or a received operation looks its
key up in the node's tables; where the key belongs it is read in one step and written back in another (`doing`),
a fetch is read and cached in two (`reading`), an answer is read and sent in two (`answering`); elsewhere
they go one node on in the envelope of `Relay`. Questions (`SearchVNode`) travel the same way and answers
back. All these tasks run at once: the calls of a service are tasks of axum or promises of a page, next to the
listener, and nothing is locked between `get` and `put` (`chord.rs:376-382`). Only a native node's listener handles one message
after the other (`ListenerFree`); a page (`Browser`) starts a `listen_once` every second, so its listeners
overlap and overtake each other, and `Handles` takes any message of the link.

`OneMap` states that `VNodeStore` implements `VNodeMap`, with the value of a key where a node
stores it, `open` what has been read and not written, and `waiting` what was asked for and is neither open nor in
`handled`, a history variable. It holds where the tables give every key one node (`OneHome`), as in
the run (`RingAtStart` of the MC module, which TLC evaluates). It does not say that
operations take effect one after the other, because they do not: two that are open together
lose an update. That is so for two calls of one service, for a service and
the listener, and for two listeners of a page. `ReadsOwnWrites` speaks of answers whose way led
through native nodes.

The calls of applications are the operations by their names: `PublishMessageToTopic`
extends, `RegisterService` touches, `StorageStore` overwrites, `LookupService` fetches
and reads the cache. A subscriber (`feed`) calls `FetchMessagesOfTopic` with the number
of messages it was given; the call sends the question, reads the cache as it is then,
and the answer to the question comes too late for it, in time for the next
(`SubscribeTopic`). `FeedInOrder` speaks of topics that have not been trimmed; see Known
disagreements. It counts elements, which a call brings one of (`OneElement`: an element is what
`TryFrom<(String, Encoded)>` makes of the text).

Abstractions: the tables are those of a formed ring and stay (in the handover run a
node joins, through `JoinDHT` and the storage half of `NotifyPredecessorReport`, for
any predecessor a successor may report); links do not fail; the storage engine is a
map whose calls do not fail; a question is answered in one step. The handler for
`SyncVNodeWithSuccessor` and the `SyncStorage` report exist in the code but
nothing dispatches the one or sends the other, so neither is modelled.

### DhtLocks

Each operation of `PeerRing` is the sequence of groups of mutexes it holds at
once. One listener and one service thread. There is no fairness on what
threads call, only that a running thread goes on and that a mutex free again
and again is obtained.

### ChunkList

`handle` is one action, called under the transport's async mutex. A chunk's
bytes are its identity, so that what `get` returns can be compared with what was
sent. Time is a counter; ticks interleave with arrivals.

### IceTransport

One connection with an end of either build. The candidates, the handshake info, the
public key, the data channel with its chunk list, and the promises
(`wait_for_data_channel_open`, `connect_success_promise`) that callers poll: a promise
is a state, a waker, and a callback that replaces the one of the promise before it
(`onOpen`, `onPeer`). A browser runs a task up to its next await in one step; a native
node checks, registers and polls in steps of their own, between which callbacks run.
What listens to a state change is replaced as the code replaces it: a browser's
`connect_success_promise` takes the place of the handler that tells the swarm. A handler
that finds no public key panics, and its event is lost (`panics`). WebRTC is external: it gathers,
connects, opens the channel, delivers in order, and breaks at most `MaxBreaks` times.

### Payloads

A message crosses `Path`. The origin signs it, every relay signs it again and keeps
the origin's verification, every receiver checks both signatures, both sessions and the
expiry by its own clock (`Skews`). Making a payload takes the session manager's lock three times
(authorizer, session, key), and `renew`, which is public though nothing in this
repository calls it, may come between. `IsExpired` is the code's: a payload has expired
only when both verifications have. Signatures are symbolic: a key and what it was made
over. A session that `UnsignedInfo::new_with_signer` makes for EdDSA has no public key
and never verifies (`AuthorizerKnown`); `HonestVerifies` is stated for those that can.

### RowStore and Measure

`RowStore` is `IDBStorage`: each transaction is a step, and `put` is two of them, the
pruning and the write. `Measure` extends it: a task looks a counter up in the storage,
inserts it if none is there, counts under the counter's lock and saves the value
outside of it, with other tasks' steps in between; a save may fail, which is only
logged; a restart forgets the counters and, on the file store, what was not flushed.
`hits` and `mine` are history. On the file store `KvStorage` has no limit.
Abstractions: the path of a browser's storage is ignored by the code (`idb.rs:81`), so one
table serves the storage and the measure; here the measure has it alone.

What the properties do not promise, because the code does not: `get_count` of a peer
that has been idle for several periods answers with the last period that counted
(`refresh` moves one period at a time), and a save that stalls may overwrite the newer
period's.

### Backend

Messages of five forms arrive at a service node from browsers and native nodes; its
listener takes one at a time, executes an http request while the rest waits (`ExecutePanics`: a
request that http does not allow ends the node), sends
the response back chunk by chunk, and broadcasts what it took. A browser puts the chunks together
with `ChunkList`, instantiated here on the browsers' list. `pollMessage` calls queue for the mutex
round the receiver; a call that waits keeps it. The channel drops the oldest message, and
the receiver that lags gets an error once. Sends fail and chunks are lost at most `MaxFaults` times.
The http server and the runtime's channel and mutex are external.

## 3. Runs

| Run | Checks | Bounds, and why they suffice |
|---|---|---|
| `peer_ring` | type, soundness of the sequence, lookups, removals | 16 points, five peers wrapping around zero, capacity 2: full sequences, fingers shared by several slots, gaps |
| `relay_trip` | answers come home and retrace, circles cut, trips end | four nodes: circles of length 2 to 4 with tails; one change of tables |
| `net` | join lookups advance, at most one successor without a transport, links agree, predecessors only get nearer, what nodes ask each other ends | three nodes; either two dialled links and no fault, or the formed ring and two faults at any moment; three rounds of the stabilizers, at any time and of any nodes |
| `handshake` | offers are complete, messages arrive whole and all of them, the newest waiter is woken | a native node and a browser, either of which offers; three candidates, two tasks at one end, two chunks a message, one break: handlers replaced by a second task, chunks that mix |
| `transports` | members have transports, no dead transport stays registered, the pending list empties, nothing leaks, but for the cases named | a daemon or a browser; two transports (symmetric), any calls, any failures, one closing by hand, one lock that fails: replacement, overlapping registers, late events, overtaking listeners |
| `payloads` | honest payloads verify, the origin is kept, stale ones and those of ended sessions are dropped | three nodes, clocks up to 2 apart, ttl 1, sessions of 3, five instants, two renewals: every order of expiry of payload, relay and session |
| `measure` | no call lost, no count too high, rows bounded | three counters in a table of one row, two tasks, two periods, two calls and those under way: eviction between look-up and save, period change inside a call |
| `backend` | requests answered or failed, polls return, polls miss only what the channel dropped | three messages in four mixes of forms and clients, two chunks a response, a channel of one, two callers, one fault |
| `dht_locks` (violated) | a lock call returns | one listener, one service thread |
| `chunk_list` | whole, fresh, in time | messages of 3 and 2 chunks, each chunk up to twice, one from the future, one with too long a ttl, three instants |
| `vnode_map` | one map, operations read and write once, own writes seen, subscribers in order, questions answered | three nodes of which one reaches another through the third, a page; one key with two operations over the network and two of its own node's service, two fetches, at most two elements: open together, trimming, moving, errors |
| `vnode_handover` (violated) | handed over virtual nodes are kept | a ring of two and a third node between, one key |

Three nodes are the least in which a node is neither end of a link that others
depend on: joins through a third, predecessors that change, questions that pass
back and forth after a failure all happen. Deadlock is checked in `peer_ring`
and `measure`; `RelayTrip` stops when its message ends, `ChordNet` when its faults and rounds are used up and
every message is handled, `Transports` when its transports are used up and every event is handled,
`ChunkList` when its clock and its chunks are used up, `VNodeStore` when its
operations and fetches are, `Payloads` when its clock is, `IceTransport` and `Backend` when
messages and breaks are, and `dht_locks` states
the deadlock as a liveness property.

Fairness. `ChordNet`: the listener handles what is at the head of a queue (weak
fairness per direction of a link; `listen` loops over the channel), and seed links are
dialled. Stabilizers and faults are never forced. `RelayTrip`: a message on an open channel is handled. `VNodeStore`: what a service started
goes on (weak fairness of the tasks' and the listeners' steps together, which is
enough because every call ends; it is written out with `Settled`, the state in which none
of them is enabled). `IceTransport`: callbacks, handshake steps and started tasks go on, each by
itself, as the runtime runs them; nothing has to break. `Backend`: the listener goes on and a
request's timer fires, as `reqwest`'s timeout does; a chunk on the way arrives or is
lost; a poll that can return does. Nobody has to answer, send or poll. `DhtLocks`: as above.

### Known disagreements

Shown by a run:

- `dht_locks`: `join`/`remove` and `find_successor` lock in opposite orders.
- `vnode_handover`: the old node removes the virtual nodes and sends them; the new
  one has no case for the message in `handle_message`.

Read off the models, without a run of their own:

- `fix_fingers` of a lone node stores the node's own did in its fingers; later lookups
  may name the node itself as the next hop, and the send fails. `LookupProgress` sets
  that case aside. The same entry may be what refills an empty sequence in `remove`,
  which then stays empty (`update` refuses the node's own did).
- Nothing calls `check_predecessor` ("called periodically. checks whether predecessor has
  failed."). A transport may break before its `RegisterTransport` is handled; it is then not
  registered, its closing causes no `LeaveDHT`, and a notification that had come over it
  still makes its sender the predecessor. If that node has crashed, it stays the predecessor
  for good: two nodes, one link and two messages under way show it.
- A finger need not be a peer with a transport (`FingerSet` takes the did of any report), and
  it may be what refills an empty sequence in `remove`. That successor cannot be sent to, and
  because it comes first, `notify_predecessor` ends at it while it is there; no event
  removes it. `OneStraySuccessor` says that there is never more than one of them.
- Strict lookups are only answered by the node whose did is the target, and lookups are
  only sent to nodes strictly before it (`LookupOutcome`). The stabilizer repairs fingers
  from local knowledge only.
- When two attempts connect and the two ends see the events in opposite orders, each end
  keeps the later one and closes the other (`Set`, `CloseOld`), and both transports are closed. A test
  (`connection.rs:1035`) expects one to stay.
- Calls of `register` overlap, and `try_lock` on the pending list fails: transports are lost open, registered
  dead or kept on the pending list (section 2, Transports). `test_swarm_will_close_previous_transport`
  (`swarm.rs:444`) shows the previous transport closed when nothing else runs.
- A registered peer may stay unknown to the DHT, when `accept_answer` and `load_message` pop one transport.
- The ring need not form again while messages are under way (the stale predecessor above), whatever rounds
  the stabilizers make, so no run claims that it does.
- A request to the backend whose path, method or headers http does not allow makes `execute` panic
  (`http_server.rs:74`, `:79`, `:82`). The panic unwinds through the listener that `bin/rings.rs:466` joins
  and ends the node: what waits is never answered. `Answered` names that case (`Ended`).
- A second caller of `wait_for_data_channel_open` replaces the handler of the first, which
  is never woken, and a native caller may miss an opening between its check and its first
  poll. `NewestWaiterReturns` is what is left.
- A native node may see ICE connected before `register_remote_info` has written the
  peer's key; the handler panics and `RegisterTransport` is lost. A browser writes the key first.
- A native requester refuses the chunks of an http response
  (`NativeCustomMessage`): its answer never comes.
- A subscriber's index counts messages, the data of a topic is trimmed at
  `VNODE_DATA_MAX_LEN`, and what does not decode is skipped and not counted: once the
  topic is full, the index points past its end and the subscriber is given nothing more.
- Two operations on a key that are open together lose an update (section 2, VNodeStore).
- `JoinSubring` is always an error (`Plain`, `Decodes`).

## 4. Proofs

`PeerRingProofs` proves for every number of bits, every capacity (zero
included), every did of the node and every set of peers:

- `TypeCorrect`, `SuccessorsAreSound`: from the inductive invariant
  `Inv == TypeOK /\ SuccessorsSound`. Neither conjunct is inductive alone: the
  size of the sequence after an update needs its elements to be dids with
  distinct biases, and the removal's refill takes a did from the fingers.
- `LookupsProgress`, `LookupAnswersAreNearest`: state properties that follow
  from `Inv`, through the lemmas on `Closest` and on the order of biases.
- `RemovedPeersAreGone`, `SuccessorsApproach`: action properties, from `Inv` and
  the lemmas on `FingerRemove` and `SuccessorUpdate`.

`DhtTablesProofs` holds the lemmas about the operators: distances are dids,
distinct dids have distinct distances, minima and maxima exist, a truncation
keeps the nearest, a removal leaves no slot with the did. The assumptions are
`RingAssumption`, `TablesAssumption` and `PeersAssumption`, which TLC evaluates in
`peer_ring`.

`MessageProofs`, the envelope (any finite set of nodes, any tables, any number of changes). The
invariant has three parts: types; `WayInv`, that no two neighbours on the path are equal,
a report's destination is the first of the path, and a travelling envelope
is where its path says (`Outward`, `Homeward`: the cursor stands at the visit the report
goes back to); and `CutInv`, a bound on the path per change of the tables, with the
place since which the question has followed the tables as they are (`FollowsSince`). A
question that follows fixed tables goes round the same nodes at equal intervals from the first
node it meets again, which `has_infinite_loop` sees at the third visit; a pigeonhole over the
visits gives `LoopsAreCutAlways`. `ReportsComeHomeAlways` and `ReportsRetraceAlways` follow from
`WayInv`. Assumption: `TripAssumption` (nodes are finite; the bound on the path is larger
than what the theorem shows).

`ChordNetProofs` (any ring, any nodes on it, any seed links, any number of faults and
rounds). `IInv` is inductive:

- `TypeOK`, and `QueuesOK`: what is under way is a message of a known form, no queue leads
  from a node to itself, and every message `Fits` where it is. For a join lookup that
  is `Advances`: behind the node it is for, the biases of the nodes on its path fall. The hop of
  `closest` lies between the node and the target (`ClosestBefore`), and a hop is a peer, so it
  is not the node itself (`HopAdvances`). For a handshake it is `Elsewhere`: nobody asks itself
  for a connection, without which a report could open a link from a node to itself.
- `LinksInv`: the last event a node has yet to handle tells whether the link is there;
  when there is none left, its registry does. Messages change nothing of that
  (`Quieter`), events at the end of a queue decide it (`EventShows`), a break puts one there
  (`CutOK`). `LinksAgreeAlways` is the case of empty queues.
- `TablesInv`: a node is neither its own peer nor its own successor, the sequence keeps its
  capacity, and at most one entry is not registered: an entry comes with a transport
  (`JoinDHT`), with a report about a connected peer, or as the refill of an
  empty sequence (`SuccessorLeaveSound`).

An earlier form of this property, that every successor is registered, was not inductive;
TLC then found the stray of the refill, and the stale predecessor of section 3, beyond the
bounds of `net`. `JoinLookupsAdvanceAlways` and `OneStraySuccessorAlways` follow from `IInv`;
`PredecessorOnlyGetsNearerAlways` takes it for the types. The theorems are about `Spec`,
which starts with no links; `net` checks the same properties from the formed ring too.
Assumptions: those of `DhtTables`, and `NetAssumption`.

`TransportsProofs`, one connection (ends of any build, any candidates, any tasks at either end,
any number of chunks and breaks). `HandshakeInv`: whoever has made its info gathers no more, which
takes the step of the handshake into account, as a second offer would start the gathering
again. `DataInv`, for `SentArrives`: a chunk on the channel or in a list was sent by its task
(`WireInv`, `HeldInv`), no list holds a whole message, a task's wait says how much it has sent
(`WaitInv`; a browser that may send has sent nothing), and while nothing broke every chunk is
somewhere (`LossInv`). A browser takes chunks from anywhere on the channel: `RemovedFrom` says
what a sequence without its i-th element holds. Assumption: `IceAssumption`.

`MessageProofs`, the payload (a path of any length without repetition, any ttls, tolerance, renewals
and clocks that differ by a bounded amount). The invariant says of every manager,
every payload being made, under way and accepted that its sessions and
verifications have the form honest nodes give them (`IsSession`, `IsVerification`) and that
the origin's verification is the first node's and no newer than the payload
(`IsOrigin`). From it `HonestVerifiesAlways`, `OriginKeptAlways`, `StaleDroppedAlways`,
`SessionOutlivesMessageAlways`. Assumption: `PayloadAssumption`; its
`DefaultTtl <= MaxTtl` is that of `consts.rs`.

`MessageProofs`, the channel of `pollMessage` (any messages, callers and capacity).
`ChannelInv` is `MissedOnlyByLag` with the types of the channel; a message that was overwritten stays so
when the next ones come, and a receiver that lags moves to the oldest message still held.
Assumption: `BackendAssumption`.

`ChunkListProofs` (any messages, any numbers of chunks and copies, any instants). `Listed`:
of a message that is neither returned nor too late, every chunk that arrived is in the list.
The sort and the removal of duplicates are proved for sequences of any length through
the rank of an element (the number of elements that come before it), not by induction. Assumption: `ChunkAssumption`.

`MeasureProofs` has two invariants. `RowsAndPuts`: rows and puts under way keep a common
bound, for every capacity, set of keys and set of tasks; a task that has pruned and not yet put
counts as a row. From it `RowsBounded` for the table by itself, and, with the
restart that drops the puts under way (`MeasureInvariant`), `RowsAreKept`. `CountInv` relates
every counter to the calls its process has made in each period (`CounterInv`), bounds the calls by
those made and those under way (`CallsInv`), and says that no number in a counter, a row, on
sled's disk or in a task's hands exceeds what some period saw (`SeenInv`); `CountsEveryCallAlways` and
`NeverOverstatesAlways` follow. Assumptions: `RowAssumption`, `MeasureAssumption`.

`VNodeStoreProofs` (any nodes, keys, operations and fetches; any tables, those that lead nowhere
or in circles included). Its invariants are one upon the other:

- `TypeInv`: whatever is stored, cached, read by a thread or on a link has its form, is
  under its key and within the limit, and was asked for. It rests on `OperateType`, the lemma
  that an operation on data within the limit is data within the limit or an error;
  `KeepLastBounded` and `RemainsType` are its two hard cases. `TypeOKAlways` follows.

Only model-checked: `DhtLocks`, `Transports`, and of `VNodeStore` all but its types. Liveness (`Settles`, `TripsEnd`, `LockReturns`,
`FetchesAnswered`, `NewestWaiterReturns`, `Answered`, `PollsReturn`, the liveness of `OneMap`) is beyond
the prover, as is `ENABLED`.

## 5. Not modelled

- Cryptography (`ecc/`): signatures and keys are symbolic. ElGamal encryption and
  `MultiCall` have handlers but no sender in the code.
- Conversions, listings, argument parsing, configuration, logging, error types: no
  state.
- The signature check of JSON-RPC callers: a refused call does nothing.
- `transports/dummy`: a stand-in for tests. `message/chunk.rs`: in no module
  tree, so not compiled.
- Restarts of a node with its stored virtual nodes: `Measure` has the restart of the file
  store, `VNodeStore` does not.
- The fallible calls of the storage engine under `VNodeStore`.
- A client's wait for an http response whose chunk was lost: there is no timeout, it waits
  for good (`Answered` counts it as failed).

See `PROJECT.json`, "components".

## 6. Plan

1. Done: ring, tables, relay, overlay, connections of both builds, transports and the calls that make
   them, payloads and sessions, storage and topics, locks, chunks, measure, backend; proofs of
   `PeerRing`, `RelayTrip`, `ChordNet`, `Payloads`, `ChunkList`, `RowStore`, `Measure`,
   `IceTransport`, `Backend` and the types of `VNodeStore`.
2. Proofs of `Transports` and of the refinement in `VNodeStore`.
3. Storage with restarts.
