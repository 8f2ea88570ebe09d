----------------------------- MODULE VNodeStore -----------------------------
(***************************************************************************)
(* The storage of the ring: how vnode_lookup and vnode_operate of PeerRing *)
(* and the handlers of message/handlers/storage.rs and subring.rs find,    *)
(* change, fetch and hand over virtual nodes.                              *)
(*                                                                         *)
(* Every operation and every fetch is a task of its own, which reads a     *)
(* virtual node, waits, and writes it back or puts it in the cache.  The   *)
(* storage calls of the processor run at the same time (service/mod.rs,    *)
(* and the promises of a page), next to the listener.  A native node       *)
(* handles one message after the other; a browser starts a listen_once     *)
(* every second, whether or not those before are done.                     *)
(***************************************************************************)
EXTENDS VNode, SequencesExt

CONSTANTS Node,       \* the dids of the nodes
          Browser,    \* those that run in a page; the others are native
          Member,     \* the nodes of the formed ring at the start
          Key,        \* the dids of virtual nodes
          Op,         \* the operations of the services, each asked for once
          Topic,      \* the key of the topic some node subscribes to
          Subscriber, \* the nodes that do
          MaxFetches  \* bound on the fetches of the services

INSTANCE Relay WITH NoHop <- NoDid

ASSUME StoreAssumption ==
    /\ Node \subseteq Did /\ Browser \subseteq Node
    /\ Member \subseteq Node /\ Member # {}
    /\ Key \subseteq Did
    /\ \A op \in Op : op.did \in Key /\ op.by \in Node
    /\ Topic \in Key /\ Subscriber \subseteq Node
    /\ MaxFetches \in Nat

\* The elements of data the calls bring.
Element == UNION {ToSet(op.vnode.data) : op \in {o \in Op : o.op # "JoinSubring"}}

\* Every call makes a virtual node of one element, under the did the operation
\* is for (TryFrom<(String, Encoded)>); a node that hands data over sends what
\* it stored.
ASSUME OperationAssumption ==
    /\ \A op \in Op : op.op # "JoinSubring" =>
          /\ op.op \in {"Overwrite", "Extend", "Touch"}
          /\ op.vnode = VirtualNode(op.did, op.vnode.kind, op.vnode.data)
          /\ op.vnode.data \in Seq(Element) /\ Len(op.vnode.data) <= MaxLen
    /\ NoVNode \notin [did : Key, kind : {"Data"}, data : Seq(Element)]

VARIABLES finger, successors, \* the tables of each node
          linked,  \* Swarm.transports: the peers a node can send to
          store,   \* PeerRing.storage
          cache,   \* PeerRing.cache
          doing,   \* what an operation has read and not written back
          reading, \* what a fetch has read where it is, not yet in the cache
          answering, \* the answers that are read and not sent
          chan,    \* chan[m][n]: messages from m that n has yet to handle
          todo,    \* operations not asked for yet
          handled, \* history: the operations done
          fetches,
          feed     \* the subscriptions

tables == <<finger, successors, linked>>
tasks == <<doing, reading, answering>>
vars == <<tables, store, cache, tasks, chan, todo, handled, fetches, feed>>

Fetch == 1..MaxFetches

\* Nothing is read: the operation or the fetch is elsewhere, or done.
Idle == [by |-> "nobody"]

\* The tables of n when it knows the nodes N.
FormedFinger(n, N) == FoldSet(LAMBDA d, F : FingerJoin(n, F, d), NoFingers, N)
FormedSuccessors(n, N) == FoldSet(LAMBDA d, S : SuccessorUpdate(n, S, d), {}, N)

Known(n) == IF n \in Member THEN Member \ {n} ELSE {}

Init ==
    /\ finger = [n \in Node |-> FormedFinger(n, Known(n))]
    /\ successors = [n \in Node |-> FormedSuccessors(n, Known(n))]
    /\ linked = [n \in Node |-> Known(n)]
    /\ store = [n \in Node |-> [k \in Key |-> NoVNode]]
    /\ cache = [n \in Node |-> [k \in Key |-> NoVNode]]
    /\ doing = [op \in Op |-> Idle]
    /\ reading = [f \in Fetch |-> Idle]
    /\ answering = {}
    /\ chan = [m \in Node |-> [n \in Node |-> <<>>]]
    /\ todo = Op
    /\ handled = {}
    /\ fetches = 0
    /\ feed = [n \in Subscriber |-> [asking |-> 0, index |-> 0, got |-> <<>>]]

-----------------------------------------------------------------------------
(* Messages *)

Lookup(n, d) == FindSuccessor(n, finger[n], successors[n], d)

\* The node answers for the key itself: "stored in current node".
Stores(n, k) == Lookup(n, k).action = "Some"

\* do_send_payload: without a transport to the next hop the send fails.
Sent(c, n, msg) ==
    IF msg.relay.next \in linked[n]
    THEN [c EXCEPT ![n][msg.relay.next] = Append(@, msg)] ELSE c

\* send_message to d: the next hop is what the lookup of d names.
NewMessage(n, d) == NewSend(n, Lookup(n, d).did, d)

\* History, for the properties: the operations n asked for on k.
Own(n, k) == {op \in Op \ todo : op.by = n /\ op.did = k}

Search(n, k, tx, relay) ==
    [kind |-> "SearchVNode", key |-> k, tx |-> tx, own |-> Own(n, k), relay |-> relay]

\* The answer, with what had been done to the key when it was read (history).
Found(n, msg) ==
    [kind |-> "FoundVNode", vnode |-> store[n][msg.key], tx |-> msg.tx, own |-> msg.own,
     after |-> {op \in handled : op.did = msg.key},
     relay |-> Report(RelaySend(msg.relay, n, NoDid))]

-----------------------------------------------------------------------------
(* The service: storage_store, storage_append_data, storage_touch_data,    *)
(* subring_join and storage_fetch                                          *)

\* The first half of vnode_operate, where the key belongs.
Reads(n, by, op) ==
    doing' = [doing EXCEPT ![op] = [by |-> by, at |-> n, read |-> store[n][op.did]]]

ServiceOperates(op) ==
    LET n == op.by
    IN  /\ op \in todo
        /\ todo' = todo \ {op}
        /\ IF Stores(n, op.did)
           THEN Reads(n, "service", op) /\ UNCHANGED chan
           ELSE /\ chan' = Sent(chan, n, [kind |-> "OperateVNode", op |-> op,
                                          relay |-> NewMessage(n, Lookup(n, op.did).did)])
                /\ UNCHANGED doing
        /\ UNCHANGED <<tables, store, cache, reading, answering, handled, fetches, feed>>

Fetches(n, k) ==
    LET f == fetches + 1
    IN  /\ f \in Fetch
        /\ fetches' = f
        /\ IF Stores(n, k)
           THEN /\ reading' = [reading EXCEPT ![f] =
                        [by |-> "service", at |-> n, key |-> k, read |-> store[n][k]]]
                /\ UNCHANGED chan
           ELSE /\ chan' = Sent(chan, n, Search(n, k, f, NewMessage(n, Lookup(n, k).did)))
                /\ UNCHANGED reading
        /\ UNCHANGED <<tables, store, cache, doing, answering, todo, handled>>

\* The second half of vnode_operate: put, whatever is stored by now, unless
\* the operation is an error.
Puts(op) ==
    LET w == doing[op]
    IN  /\ w # Idle
        /\ store' = [store EXCEPT ![w.at][op.did] = Written(@, w.read, op)]
        /\ handled' = handled \cup {op}
        /\ doing' = [doing EXCEPT ![op] = Idle]
        /\ UNCHANGED <<tables, cache, reading, answering, chan, todo, fetches, feed>>

\* The second half of a fetch of what is stored here.
Caches(f) ==
    LET w == reading[f]
    IN  /\ w # Idle
        /\ cache' = [cache EXCEPT ![w.at][w.key] = IF w.read = NoVNode THEN @ ELSE w.read]
        /\ reading' = [reading EXCEPT ![f] = Idle]
        /\ UNCHANGED <<tables, store, doing, answering, chan, todo, handled, fetches, feed>>

-----------------------------------------------------------------------------
(* The calls of applications                                               *)

PublishMessageToTopic(op) == op.op = "Extend" /\ ServiceOperates(op)

RegisterService(op) == op.op = "Touch" /\ ServiceOperates(op)

StorageStore(op) == op.op = "Overwrite" /\ ServiceOperates(op)

SubringJoinCall(op) == op.op = "JoinSubring" /\ ServiceOperates(op)

\* lookup_service and storage_fetch; what the caller then finds in the cache
\* is his.
LookupService(n, k) == Fetches(n, k) /\ UNCHANGED feed

\* A call of fetch_messages_of_topic, every five seconds.
FetchMessagesOfTopic(n) ==
    /\ feed[n].asking = 0 /\ Fetches(n, Topic)
    /\ feed' = [feed EXCEPT ![n].asking = fetches']

\* What the cache has by then and can be decoded, past the elements that were
\* read before.
Messages(n, index) ==
    LET data == IF cache[n][Topic] = NoVNode THEN <<>> ELSE cache[n][Topic].data
    IN  Selected(data, {i \in 1..Len(data) : i > index /\ Decodes(data[i])})

\* A mutant: the subscription counts its calls, not the messages.
NextIndexByCall(f, new) == f.index + 1

NextIndex(f, new) == f.index + Len(new)

\* storage_fetch has returned: the subscription yields the messages that are
\* in the cache, and counts them.
SubscribeTopic(n) ==
    LET new == Messages(n, feed[n].index)
    IN  /\ feed[n].asking # 0 /\ reading[feed[n].asking] = Idle
        /\ feed' = [feed EXCEPT ![n] = [asking |-> 0, index |-> NextIndex(@, new),
                                        got |-> @.got \o new]]
        /\ UNCHANGED <<tables, store, cache, tasks, chan, todo, handled, fetches>>

-----------------------------------------------------------------------------
(* The listener.  Each handler takes a message of the link from m to n.    *)

\* A mutant: a native node handles messages while an operation is at work.
ListenerFreeAlways(n) == TRUE

\* The listener of a native node is done with the last message.
ListenerFree(n) ==
    n \notin Browser =>
        /\ \A op \in Op : doing[op] # Idle => doing[op].at # n \/ doing[op].by = "service"
        /\ \A a \in answering : a.at # n

\* The messages of a page's listeners overtake each other while they wait.
Handles(m, n, i, kind) ==
    /\ ListenerFree(n)
    /\ n \notin Browser => i = 1
    /\ i <= Len(chan[m][n]) /\ chan[m][n][i].kind = kind

Taken(m, n, i) == [chan EXCEPT ![m][n] = RemoveAt(@, i)]

\* A mutant: whoever receives an operation does it, without a lookup.
OperateUnrouted(m, n, i) ==
    /\ Handles(m, n, i, "OperateVNode")
    /\ Reads(n, "listener", chan[m][n][i].op)
    /\ chan' = Taken(m, n, i)
    /\ UNCHANGED <<tables, store, cache, reading, answering, todo, handled, fetches, feed>>

\* vnode_operate where the key belongs, or the operation goes one node on.
HandleOperateVNode(m, n, i) ==
    LET msg == chan[m][n][i]
        k == msg.op.did
        next == Lookup(n, k).did
    IN  /\ Handles(m, n, i, "OperateVNode")
        /\ IF Stores(n, k)
           THEN Reads(n, "listener", msg.op) /\ chan' = Taken(m, n, i)
           ELSE /\ chan' = IF CanRelay(ResetDestination(msg.relay, next), n)
                           THEN Sent(Taken(m, n, i), n, [msg EXCEPT
                                    !.relay = RelaySend(ResetDestination(@, next), n, next)])
                           ELSE Taken(m, n, i)
                /\ UNCHANGED doing
        /\ UNCHANGED <<tables, store, cache, reading, answering, todo, handled, fetches, feed>>

\* What is not stored is not answered.
HandleSearchVNode(m, n, i) ==
    LET msg == chan[m][n][i]
        k == msg.key
        found == Stores(n, k) /\ store[n][k] # NoVNode /\ CanRelay(msg.relay, n)
    IN  /\ Handles(m, n, i, "SearchVNode")
        /\ answering' = IF found THEN answering \cup {[at |-> n, answer |-> Found(n, msg)]}
                        ELSE answering
        /\ chan' = IF ~Stores(n, k) /\ CanRelay(msg.relay, n)
                   THEN Sent(Taken(m, n, i), n, [msg EXCEPT
                            !.relay = RelaySend(@, n, Lookup(n, k).did)])
                   ELSE Taken(m, n, i)
        /\ UNCHANGED <<tables, store, cache, doing, reading, todo, handled, fetches, feed>>

\* send_report_message, with what was stored when vnode_lookup read it.
Answers(a) ==
    /\ a \in answering
    /\ answering' = answering \ {a}
    /\ chan' = Sent(chan, a.at, a.answer)
    /\ UNCHANGED <<tables, store, cache, doing, reading, todo, handled, fetches, feed>>

\* A mutant: the first node of the way back keeps the answer.
FoundStops(m, n, i) ==
    LET msg == chan[m][n][i]
    IN  /\ Handles(m, n, i, "FoundVNode")
        /\ chan' = Taken(m, n, i)
        /\ cache' = [cache EXCEPT ![n][msg.vnode.did] = msg.vnode]
        /\ UNCHANGED <<tables, store, tasks, todo, handled, fetches, feed>>

\* Passed on to the node that asked, and cached there.
HandleFoundVNode(m, n, i) ==
    LET msg == chan[m][n][i]
        back == RelayReport(msg.relay, n)
    IN  /\ Handles(m, n, i, "FoundVNode")
        /\ chan' = IF CanRelay(msg.relay, n) /\ back.next # NoDid
                   THEN Sent(Taken(m, n, i), n, [msg EXCEPT !.relay = back])
                   ELSE Taken(m, n, i)
        /\ cache' = IF CanRelay(msg.relay, n) /\ back.next = NoDid
                    THEN [cache EXCEPT ![n][msg.vnode.did] = msg.vnode] ELSE cache
        /\ UNCHANGED <<tables, store, tasks, todo, handled, fetches, feed>>

Listener(m, n) ==
    \E i \in 1..Len(chan[m][n]) :
        \/ HandleOperateVNode(m, n, i)
        \/ HandleSearchVNode(m, n, i)
        \/ HandleFoundVNode(m, n, i)

-----------------------------------------------------------------------------
(* A new node, and the handover to it *)

\* A transport to m was registered; JoinDHT.
JoinDHT(n, m) ==
    /\ ListenerFree(n) /\ m \notin linked[n] \cup {n}
    /\ linked' = [linked EXCEPT ![n] = @ \cup {m}]
    /\ finger' = [finger EXCEPT ![n] = FingerJoin(n, @, m)]
    /\ successors' = [successors EXCEPT ![n] = SuccessorJoin(n, @, m)]
    /\ UNCHANGED <<store, cache, tasks, chan, todo, handled, fetches, feed>>

\* sync_vnode_with_successor: the keys past m are no longer for n.
Past(n, m) == {k \in Key : store[n][k] # NoVNode /\ Bias(n, k) > Bias(n, m)}

\* A successor of n reports its predecessor m, and n has a transport to m:
\* the virtual nodes past m leave the storage and are sent to m.
HandleNotifyPredecessorReport(n, m) ==
    LET moved == Past(n, m)
    IN  /\ ListenerFree(n) /\ m \in linked[n]
        /\ \E s \in successors[n] \ {m} : m \in linked[s]
        /\ successors' = [successors EXCEPT ![n] = SuccessorUpdate(n, @, m)]
        /\ store' = [store EXCEPT ![n] = [k \in Key |-> IF k \in moved THEN NoVNode ELSE @[k]]]
        /\ chan' = IF moved = {} THEN chan
                   ELSE LET s == successors'[n]
                            hop == FindSuccessor(n, finger[n], s, m).did
                        IN  Sent(chan, n, [kind |-> "SyncVNodeWithSuccessor",
                                           data |-> {store[n][k] : k \in moved},
                                           relay |-> NewSend(n, hop, m)])
        /\ UNCHANGED <<finger, linked, cache, tasks, todo, handled, fetches, feed>>

\* handle_message has no case for the message: an error.
HandleUnsupported(m, n, i) ==
    /\ Handles(m, n, i, "SyncVNodeWithSuccessor")
    /\ chan' = Taken(m, n, i)
    /\ UNCHANGED <<tables, store, cache, tasks, todo, handled, fetches, feed>>

-----------------------------------------------------------------------------

\* A service starts a call.
Starts ==
    \/ \E op \in Op : \/ PublishMessageToTopic(op) \/ RegisterService(op)
                      \/ StorageStore(op) \/ SubringJoinCall(op)
    \/ \E n \in Node, k \in Key : LookupService(n, k)
    \/ \E n \in Subscriber : FetchMessagesOfTopic(n)

\* A task goes on, or the listener takes what has arrived.
Continues ==
    \/ \E op \in Op : Puts(op)
    \/ \E f \in Fetch : Caches(f)
    \/ \E a \in answering : Answers(a)
    \/ \E n \in Subscriber : SubscribeTopic(n)
    \/ \E m, n \in Node : Listener(m, n)

Next == Starts \/ Continues

\* Nothing that was started is left to do: Continues is not enabled.
Settled ==
    /\ \A op \in Op : doing[op] = Idle
    /\ \A f \in Fetch : reading[f] = Idle
    /\ answering = {}
    /\ \A m, n \in Node : chan[m][n] = <<>>
    /\ \A n \in Subscriber : feed[n].asking = 0

\* What was started goes on; no service has to start anything.  This is
\* WF_vars(Continues), written out: of the steps of Next those of Continues
\* leave todo and fetches alone.
Fairness == []<>Settled \/ []<><<UNCHANGED <<todo, fetches>>>>_vars

Spec == Init /\ [][Next]_vars /\ Fairness

GrowNext ==
    \/ Next
    \/ \E n, m \in Node :
          \/ JoinDHT(n, m)
          \/ HandleNotifyPredecessorReport(n, m)
          \/ \E i \in 1..Len(chan[n][m]) : HandleUnsupported(n, m, i)

GrowSpec == Init /\ [][GrowNext]_vars

-----------------------------------------------------------------------------
(* Properties *)

VNodes(k) ==
    {v \in UNION {{store[n][k], cache[n][k]} : n \in Node} : v # NoVNode}

\* Virtual nodes are stored under their own did and never hold more than the
\* code's limit of elements (extend, touch).
TypeOK ==
    /\ \A k \in Key : \A v \in VNodes(k) :
          v.did = k /\ v.kind \in {"Data", "Subring"} /\ Len(v.data) <= MaxLen
    /\ \A op \in Op : doing[op].by \in {"nobody", "service", "listener"}

UnderWay(kind) ==
    {msg \in UNION {ToSet(chan[m][n]) : m, n \in Node} : msg.kind = kind}

\* The node a key belongs to, and the value of the key in the ring.
Value(k) ==
    LET holders == {n \in Node : store[n][k] # NoVNode}
    IN  IF holders = {} THEN NoVNode ELSE store[CHOOSE n \in holders : TRUE][k]

\* The nodes that handled a question are native, but for the one that asked.
NativeWay(r) == \A i \in 2..Len(r.path) : r.path[i] \notin Browser

\* An answer on its way to the node that asked was read after everything that
\* node had asked for before, if no page is on the way: the operation and the
\* question take the same way, in order, and the listener of a native node
\* finishes one before it reads for the other (HandleMsg<VNodeOperation>,
\* HandleMsg<SearchVNode>, MessageListener).
ReadsOwnWrites ==
    \A msg \in UnderWay("FoundVNode") : NativeWay(msg.relay) => msg.own \subseteq msg.after

\* A subscriber is given what was published, in order and nothing twice, for
\* as long as no operation took an element from the topic again: the answers
\* to several of its fetches may come in any order and may find the cache not
\* written yet (cli.rs, fetch_messages_of_topic).
FeedInOrder ==
    LET published == {op \in handled : op.did = Topic}
    IN  Value(Topic) # NoVNode /\ Len(Value(Topic).data) = Cardinality(published) =>
            \A n \in Subscriber : IsPrefix(feed[n].got, Value(Topic).data)

\* A question for a key that is stored somewhere is answered: in the end the
\* node that asked has a copy in its cache (SearchVNode, FoundVNode).
FetchesAnswered ==
    \A n \in Node, k \in Key :
        (/\ \E msg \in UnderWay("SearchVNode") : msg.key = k /\ Origin(msg.relay) = n
         /\ \E m \in Node : store[m][k] # NoVNode)
            ~> cache[n][k] # NoVNode

Begun == {op \in Op : doing[op] # Idle}

Map == INSTANCE VNodeMap WITH
           value <- [k \in Key |-> Value(k)],
           waiting <- ((Op \ todo) \ handled) \ Begun,
           open <- {[op |-> op, read |-> doing[op].read] : op \in Begun}

\* The tables a ring forms give every key one node.
FormedStores(n, k) ==
    FindSuccessor(n, FormedFinger(n, Known(n)), FormedSuccessors(n, Known(n)), k).action = "Some"

OneHome == \A k \in Key, m, n \in Node : FormedStores(m, k) /\ FormedStores(n, k) => m = n

\* The calls that write to the topic bring one encoded element each.
OneElement ==
    \A op \in Op : op.did = Topic /\ op.op # "JoinSubring" =>
        Len(op.vnode.data) = 1 /\ Decodes(op.vnode.data[1])

\* The nodes together are one map from keys to virtual nodes, where OneHome
\* holds: every operation that is asked for reads the one value of its key at
\* one moment, writes one value at another, once, and is done in the end,
\* whoever asks for it and whatever way it takes (vnode_operate, OperateVNode).
OneMap == Map!MapSpec

\* "When the successor of a node is updated, it needs to check if there are
\* VirtualNodes that are no longer between current node and new_successor, and
\* sync them to the new successor" (dht/chord.rs:396-398): what was stored is
\* stored somewhere, or on its way.
HandoverKeeps ==
    \A op \in handled : LET k == op.did IN
        \/ \E n \in Node : store[n][k] # NoVNode
        \/ \E msg \in UnderWay("SyncVNodeWithSuccessor") : \E v \in msg.data : v.did = k
=============================================================================
