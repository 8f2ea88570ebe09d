------------------------------ MODULE ChordNet ------------------------------
(***************************************************************************)
(* The overlay: nodes that each hold the tables of DhtTables and drive     *)
(* them with messages.  The module composes the ring tables, the relay     *)
(* envelope (Relay) and the handlers of message/handlers/connection.rs and *)
(* stabilization.rs, with the stabilizer of dht/stabilization.rs and the   *)
(* part of swarm.rs that turns transport events into JoinDHT and LeaveDHT. *)
(*                                                                         *)
(* A link is a pair of connected transports.  The events and messages one  *)
(* node receives over a link are handled in the order they occur, so each  *)
(* direction is a FIFO of messages that starts with "Opened" and, when the *)
(* link breaks, ends with "Closed".  A node handles one message at a time. *)
(***************************************************************************)
EXTENDS DhtTables, SequencesExt

CONSTANTS Node,       \* the dids of the nodes
          Seed,       \* links dialled by hand (offer and answer over http)
          MaxFaults,  \* bound on crashes and link failures
          MaxRounds   \* bound on the rounds of the stabilizers

INSTANCE Relay WITH NoHop <- NoDid

ASSUME NetAssumption ==
    /\ Node \subseteq Did
    /\ Seed \subseteq {{n, m} : n \in Node, m \in Node}
    /\ \A l \in Seed : Cardinality(l) = 2
    /\ MaxFaults \in Nat /\ MaxRounds \in Nat

VARIABLES finger, fixIndex, successors, predecessor,  \* PeerRing, per node
          transport,  \* Swarm.transports: the peers with a registered transport
          up,         \* links whose transports are connected
          chan,       \* chan[m][n]: what n has yet to handle of the link from m
          toDial,     \* seed links not dialled yet
          alive,      \* nodes that have not crashed
          faults,     \* crashes and link failures so far
          rounds      \* rounds of the stabilizers so far

tables == <<finger, fixIndex, successors, predecessor>>
vars == <<tables, transport, up, chan, toDial, alive, faults, rounds>>

\* Nobody knows anybody yet.
Apart ==
    /\ finger = [n \in Node |-> NoFingers]
    /\ fixIndex = [n \in Node |-> 0]
    /\ successors = [n \in Node |-> {}]
    /\ predecessor = [n \in Node |-> NoDid]
    /\ transport = [n \in Node |-> {}]
    /\ up = {}
    /\ chan = [m \in Node |-> [n \in Node |-> <<>>]]
    /\ toDial = Seed
    /\ alive = Node

Init == Apart /\ faults = 0 /\ rounds = 0

-----------------------------------------------------------------------------
(* Links *)

Opened == [kind |-> "Opened"]
Closed == [kind |-> "Closed"]

Events(q) == {i \in 1..Len(q) : q[i].kind \in {"Opened", "Closed"}}

\* The transport whose events q holds is still connected at its end.
Unbroken(q) == \A i \in 1..Len(q) : q[i].kind # "Closed"

\* Both ends of a link see their transport connected.
OpenLink(c, l) ==
    [m \in Node |-> [n \in Node |->
        IF {m, n} = l THEN Append(c[m][n], Opened) ELSE c[m][n]]]

\* What is left of a queue when the link breaks: some prefix had arrived,
\* and the events of the receiver's own transport are never lost.
Cut(q, arrived) == Append(SubSeq(q, 1, Max(Events(q) \cup {arrived})), Closed)

Longest == Max({Len(chan[m][n]) : m, n \in Node})

\* The queues once the links L broke; arrived[n] is how much of a queue had
\* reached the receiver n.
Broken(L, arrived) ==
    [m \in Node |-> [n \in Node |->
        IF {m, n} \in L
        THEN Cut(chan[m][n], IF arrived[n] <= Len(chan[m][n]) THEN arrived[n] ELSE Len(chan[m][n]))
        ELSE chan[m][n]]]

\* An operator of the network connects two nodes: create_offer,
\* answer_offer and accept_answer of the processor.
Dial(l) ==
    /\ l \in toDial /\ l \subseteq alive
    /\ toDial' = toDial \ {l}
    /\ up' = up \cup {l}
    /\ chan' = OpenLink(chan, l)
    /\ UNCHANGED <<tables, transport, alive, faults, rounds>>

LinkFails(l) ==
    /\ l \in up /\ faults < MaxFaults
    /\ faults' = faults + 1
    /\ up' = up \ {l}
    /\ \E arrived \in [l -> 0..Longest] : chan' = Broken({l}, arrived)
    /\ UNCHANGED <<tables, transport, toDial, alive, rounds>>

\* A node stops for good; its neighbours see their transports disconnect.
Crash(x) ==
    /\ x \in alive /\ faults < MaxFaults
    /\ faults' = faults + 1
    /\ alive' = alive \ {x}
    /\ up' = {l \in up : x \notin l}
    /\ \E arrived \in [Node -> 0..Longest] :
          LET c == Broken(up \ up', arrived)
          IN  chan' = [m \in Node |-> [n \in Node |-> IF n = x THEN <<>> ELSE c[m][n]]]
    /\ finger' = [finger EXCEPT ![x] = NoFingers]
    /\ fixIndex' = [fixIndex EXCEPT ![x] = 0]
    /\ successors' = [successors EXCEPT ![x] = {}]
    /\ predecessor' = [predecessor EXCEPT ![x] = NoDid]
    /\ transport' = [transport EXCEPT ![x] = {}]
    /\ UNCHANGED <<toDial, rounds>>

-----------------------------------------------------------------------------
(* Messages *)

\* get_and_check_transport(m) at n: registered, and not disconnected.
CanSend(n, m) == m \in transport[n] /\ Unbroken(chan[m][n])

\* do_send_payload from n: the message goes on the link of its next hop, or
\* the send fails and the handler ends with an error.
Sent(c, n, msg) ==
    IF CanSend(n, msg.relay.next)
    THEN [c EXCEPT ![n][msg.relay.next] = Append(@, msg)] ELSE c

\* n handles the message at the head of the link from m.
Handles(m, n, kind) == chan[m][n] # <<>> /\ Head(chan[m][n]).kind = kind

Taken(m, n) == [chan EXCEPT ![m][n] = Tail(@)]

\* ... and forwards it with a new envelope, reports or sends msg.
Replies(m, n, msg) == chan' = Sent(Taken(m, n), n, msg)

Consumes(m, n) == chan' = Taken(m, n)

Lookup(n, d) == FindSuccessor(n, finger[n], successors[n], d)

FindSuccessorSend(n, nextHop, destination, d, handler) ==
    [kind |-> "FindSuccessorSend", did |-> d, handler |-> handler,
     relay |-> NewSend(n, nextHop, destination)]

\* Swarm::connect: a ConnectNodeSend for d leaves for the node the lookup
\* of d names.
Connect(n, d) ==
    [kind |-> "ConnectNodeSend", relay |-> NewSend(n, Lookup(n, d).did, d)]

\* Only lookups for a finger are strict.
Strict(msg) == msg.handler = "FixFingerTable"

-----------------------------------------------------------------------------
(* Handlers.  Each takes the head of the link from m to n. *)

\* Mutants of the handlers, each used to show that a property notices it.

\* The transport goes, the tables do not follow.
ClosedWithoutLeave(m, n) ==
    /\ Handles(m, n, "Closed")
    /\ Consumes(m, n)
    /\ transport' = [transport EXCEPT ![n] = @ \ {m}]
    /\ UNCHANGED <<tables, up, toDial, alive, faults, rounds>>

\* The event of a closed transport is lost.
ClosedLost(m, n) ==
    /\ Handles(m, n, "Closed")
    /\ Consumes(m, n)
    /\ UNCHANGED <<tables, transport, up, toDial, alive, faults, rounds>>

\* Event::RegisterTransport: register, then JoinDHT.  A transport that has
\* disconnected meanwhile is not registered.
HandleOpened(m, n) ==
    /\ Handles(m, n, "Opened")
    /\ IF Unbroken(Tail(chan[m][n]))
       THEN /\ transport' = [transport EXCEPT ![n] = @ \cup {m}]
            /\ finger' = [finger EXCEPT ![n] = FingerJoin(n, @, m)]
            /\ successors' = [successors EXCEPT ![n] = SuccessorJoin(n, @, m)]
            /\ chan' = [Taken(m, n) EXCEPT
                          ![n][m] = Append(@, FindSuccessorSend(n, m, m, n, "Connect"))]
       ELSE Consumes(m, n) /\ UNCHANGED <<transport, finger, successors>>
    /\ UNCHANGED <<fixIndex, predecessor, up, toDial, alive, faults, rounds>>

\* Event::ConnectClosed: remove the transport, then LeaveDHT.
HandleClosed(m, n) ==
    /\ Handles(m, n, "Closed")
    /\ Consumes(m, n)
    /\ IF m \in transport[n]
       THEN /\ transport' = [transport EXCEPT ![n] = @ \ {m}]
            /\ predecessor' = [predecessor EXCEPT ![n] = IF @ = m THEN NoDid ELSE @]
            /\ finger' = [finger EXCEPT ![n] = FingerRemove(@, m)]
            /\ successors' = [successors EXCEPT ![n] = SuccessorLeave(n, @, finger'[n], m)]
       ELSE UNCHANGED <<transport, predecessor, finger, successors>>
    /\ UNCHANGED <<fixIndex, up, toDial, alive, faults, rounds>>

\* The answer of n to a lookup, or the lookup with its next hop.
LookupOutcome(n, msg) ==
    LET r == Lookup(n, msg.did)
    IN  CASE r.action = "Remote" ->
               {[msg EXCEPT !.relay = ResetDestination(RelaySend(@, n, r.did), r.did)]}
          [] r.action = "Some" /\ (~Strict(msg) \/ n = msg.did) ->
               {[kind |-> "FindSuccessorReport", did |-> r.did, handler |-> msg.handler,
                 relay |-> Report(RelaySend(msg.relay, n, NoDid))]}
          [] r.action = "Some" /\ Strict(msg) /\ n # msg.did /\ CanSend(n, msg.did) ->
               {[msg EXCEPT !.relay = RelaySend(@, n, msg.relay.destination)]}
          [] OTHER -> {}

HandleFindSuccessorSend(m, n) ==
    LET msg == Head(chan[m][n])
    IN  /\ Handles(m, n, "FindSuccessorSend")
        /\ IF CanRelay(msg.relay, n) /\ LookupOutcome(n, msg) # {}
           THEN \E out \in LookupOutcome(n, msg) : Replies(m, n, out)
           ELSE Consumes(m, n)
        /\ UNCHANGED <<tables, transport, up, toDial, alive, faults, rounds>>

\* A report at n is passed on, or has come home.
PassesOn(n, msg) == CanRelay(msg.relay, n) /\ RelayReport(msg.relay, n).next # NoDid
ComesHome(n, msg) == CanRelay(msg.relay, n) /\ RelayReport(msg.relay, n).next = NoDid

Passed(n, msg) == [msg EXCEPT !.relay = RelayReport(@, n)]

\* A mutant: a join lookup whose answer brings nobody new is sent again.
JoinRetries(m, n) ==
    LET msg == Head(chan[m][n])
    IN  /\ Handles(m, n, "FindSuccessorReport")
        /\ finger' = IF ComesHome(n, msg) /\ msg.handler = "FixFingerTable"
                     THEN [finger EXCEPT ![n] = FingerSet(@, fixIndex[n], msg.did)]
                     ELSE finger
        /\ CASE PassesOn(n, msg) ->
                  Replies(m, n, Passed(n, msg))
             [] ComesHome(n, msg) /\ msg.handler = "Connect" ->
                  Replies(m, n, IF ~CanSend(n, msg.did) /\ msg.did # n THEN Connect(n, msg.did)
                                ELSE FindSuccessorSend(n, m, m, n, "Connect"))
             [] OTHER -> Consumes(m, n)
        /\ UNCHANGED <<fixIndex, successors, predecessor, transport, up, toDial, alive, faults, rounds>>

HandleFindSuccessorReport(m, n) ==
    LET msg == Head(chan[m][n])
    IN  /\ Handles(m, n, "FindSuccessorReport")
        /\ finger' = IF ComesHome(n, msg) /\ msg.handler = "FixFingerTable"
                     THEN [finger EXCEPT ![n] = FingerSet(@, fixIndex[n], msg.did)]
                     ELSE finger
        /\ CASE PassesOn(n, msg) ->
                  Replies(m, n, Passed(n, msg))
             [] ComesHome(n, msg) /\ msg.handler = "Connect"
                /\ ~CanSend(n, msg.did) /\ msg.did # n ->
                  Replies(m, n, Connect(n, msg.did))
             [] OTHER -> Consumes(m, n)
        /\ UNCHANGED <<fixIndex, successors, predecessor, transport, up, toDial, alive, faults, rounds>>

\* The next hop of a ConnectNodeSend that n is not the destination of.
TowardsPeer(n, d) == IF CanSend(n, d) THEN d ELSE Lookup(n, d).did

\* AlreadyConnected, the report when the origin is a neighbour already,
\* changes no state on its way and is left out.
HandleConnectNodeSend(m, n) ==
    LET msg == Head(chan[m][n])
        d == msg.relay.destination
    IN  /\ Handles(m, n, "ConnectNodeSend")
        /\ IF ~CanRelay(msg.relay, n) \/ (n = d /\ CanSend(n, Origin(msg.relay)))
           THEN Consumes(m, n)
           ELSE Replies(m, n,
                    IF n # d
                    THEN [msg EXCEPT !.relay = RelaySend(@, n, TowardsPeer(n, d))]
                    ELSE [kind |-> "ConnectNodeReport",
                          relay |-> Report(RelaySend(msg.relay, n, NoDid))])
        /\ UNCHANGED <<tables, transport, up, toDial, alive, faults, rounds>>

\* The answer of the peer is at the origin: the two transports connect.
HandleConnectNodeReport(m, n) ==
    LET msg == Head(chan[m][n])
        l == {n, Last(msg.relay.path)}
        connects == ComesHome(n, msg) /\ l \subseteq alive
    IN  /\ Handles(m, n, "ConnectNodeReport")
        /\ CASE PassesOn(n, msg) -> Replies(m, n, Passed(n, msg))
             [] connects -> chan' = OpenLink(Taken(m, n), l)
             [] OTHER -> Consumes(m, n)
        /\ up' = IF connects THEN up \cup {l} ELSE up
        /\ UNCHANGED <<tables, transport, toDial, alive, faults, rounds>>

\* The predecessor before the notification is what the notifier hears of.
HandleNotifyPredecessorSend(m, n) ==
    LET msg == Head(chan[m][n])
        origin == Origin(msg.relay)
        report == [kind |-> "NotifyPredecessorReport", did |-> predecessor[n],
                   relay |-> Report(RelaySend(msg.relay, n, NoDid))]
    IN  /\ Handles(m, n, "NotifyPredecessorSend")
        /\ predecessor' = [predecessor EXCEPT ![n] = IF Nearer(n, @, origin) THEN origin ELSE @]
        /\ IF predecessor[n] \notin {NoDid, origin}
           THEN Replies(m, n, report) ELSE Consumes(m, n)
        /\ UNCHANGED <<finger, fixIndex, successors, transport, up, toDial, alive, faults, rounds>>

HandleNotifyPredecessorReport(m, n) ==
    LET msg == Head(chan[m][n])
    IN  /\ Handles(m, n, "NotifyPredecessorReport")
        /\ IF ~CanSend(n, msg.did) /\ msg.did # n
           THEN Replies(m, n, Connect(n, msg.did)) /\ UNCHANGED successors
           ELSE /\ Consumes(m, n)
                /\ successors' = [successors EXCEPT ![n] = SuccessorUpdate(n, @, msg.did)]
        /\ UNCHANGED <<finger, fixIndex, predecessor, transport, up, toDial, alive, faults, rounds>>

Handle(m, n) ==
    \/ HandleOpened(m, n)
    \/ HandleClosed(m, n)
    \/ HandleFindSuccessorSend(m, n)
    \/ HandleFindSuccessorReport(m, n)
    \/ HandleConnectNodeSend(m, n)
    \/ HandleConnectNodeReport(m, n)
    \/ HandleNotifyPredecessorSend(m, n)
    \/ HandleNotifyPredecessorReport(m, n)

-----------------------------------------------------------------------------
(* The stabilizer *)

\* notify_predecessor: the successors in order, up to the first failed send.
Notified(n) ==
    {s \in successors[n] :
        \A t \in successors[n] : Bias(n, t) <= Bias(n, s) => CanSend(n, t)}

Notify(n, s) == [kind |-> "NotifyPredecessorSend", relay |-> NewSend(n, s, n)]

\* One round, whatever is under way: the timer waits for nothing else.
Stabilize(n) ==
    LET i == NextFix(fixIndex[n])
        target == Plus(n, Pow[i])
        r == Lookup(n, target)
        notified == [chan EXCEPT ![n] = [m \in Node |->
                        IF m \in Notified(n) THEN Append(@[m], Notify(n, m)) ELSE @[m]]]
    IN  /\ n \in alive /\ rounds < MaxRounds
        /\ rounds' = rounds + 1
        /\ fixIndex' = [fixIndex EXCEPT ![n] = i]
        /\ IF r.action = "Some"
           THEN /\ finger' = [finger EXCEPT ![n] = FingerSet(@, i, r.did)]
                /\ chan' = notified
           ELSE /\ chan' = Sent(notified, n,
                             FindSuccessorSend(n, r.did, n, target, "FixFingerTable"))
                /\ UNCHANGED finger
        /\ UNCHANGED <<successors, predecessor, transport, up, toDial, alive, faults>>

Next ==
    \/ \E l \in Seed : Dial(l)
    \/ \E m, n \in Node : Handle(m, n)
    \/ \E n \in Node : Stabilize(n)
    \/ \E l \in up : LinkFails(l)
    \/ \E x \in Node : Crash(x)

\* A message or event that has arrived is handled sooner or later, by the
\* loop of processor.rs that polls the listener.
Fairness ==
    /\ WF_vars(\E l \in Seed : Dial(l))
    /\ \A m \in Node : \A n \in Node \ {m} : WF_vars(Handle(m, n))

Spec == Init /\ [][Next]_vars /\ Fairness

-----------------------------------------------------------------------------
(* Properties *)

\* A node only believes in successors it can send to: they are peers with a
\* registered transport, whatever reports about third nodes arrive while links
\* come and go (Swarm and PeerRing keep the two records separately).  One may be
\* a stray, which no event removes: the finger that PeerRing::remove refilled
\* the empty sequence with.
OneStraySuccessor == \A n \in Node : Cardinality(successors[n] \ transport[n]) <= 1

\* The lookup a joining node sends out advances round the ring: it is never
\* handled twice by one node and never comes back to the node it is for,
\* though every node on its way decides from tables of its own.
JoinLookupsAdvance ==
    \A m, n \in Node : \A i \in 1..Len(chan[m][n]) :
        LET msg == chan[m][n][i]
        IN  msg.kind = "FindSuccessorSend" /\ ~Strict(msg) =>
                /\ IsInjective(Append(msg.relay.path, n))
                /\ msg.did = Origin(msg.relay)

\* When nothing is under way, the two ends of every link agree that it is
\* there: no half-open transport is left behind by links that open, break
\* and are opened again (Event::RegisterTransport, Event::ConnectClosed).
LinksAgree ==
    (\A m, n \in Node : chan[m][n] = <<>>) =>
        \A n \in Node : transport[n] = {m \in Node : {n, m} \in up}

\* A node gives up its predecessor for a nearer one or because it is gone.
PredecessorOnlyGetsNearer ==
    [][\A n \in alive' : predecessor'[n] # predecessor[n] /\ predecessor[n] # NoDid =>
            \/ predecessor[n] \notin transport'[n]
            \/ predecessor'[n] # NoDid /\ Bias(n, predecessor'[n]) > Bias(n, predecessor[n])]_vars

\* What the joins, the failures and any number of rounds of the stabilizer
\* set off comes to an end: no lookup, report or reconnection keeps the nodes
\* busy for good, though handlers answer messages with messages and open
\* links whose joins send lookups again.
Settles == <>[](\A m, n \in Node : chan[m][n] = <<>>)
=============================================================================
