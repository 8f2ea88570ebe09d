----------------------------- MODULE RelayTrip ------------------------------
(***************************************************************************)
(* One message and its answer, from node to node: every handler forwards a *)
(* SEND to the next hop its tables name or answers it, and passes a REPORT *)
(* back (message/handlers/connection.rs and stabilization.rs all have this *)
(* shape).  The tables may be anything, circles included, and may change   *)
(* while the message travels.                                              *)
(***************************************************************************)
EXTENDS Relay

CONSTANTS Node,        \* the dids of the nodes
          MaxChanges,  \* bound: how often a table changes during the trip
          MaxPath      \* bound on the path, beyond what loop detection allows

ASSUME TripAssumption ==
    /\ IsFiniteSet(Node) /\ NoHop \notin Node
    /\ MaxChanges \in Nat
    /\ MaxPath \in Nat /\ MaxPath > 3 * Cardinality(Node) * (MaxChanges + 1)

VARIABLES relay,   \* the envelope in flight, on its way to relay.next
          at,      \* the node that handled the message last
          route,   \* what each node's lookup names; NoHop: it answers itself
          changes, \* number of table changes so far
          status   \* "travelling", "home" or "dropped"

vars == <<relay, at, route, changes, status>>

Init ==
    /\ route \in [Node -> Node \cup {NoHop}]
    /\ at \in Node
    /\ route[at] \notin {NoHop, at}
    /\ relay = NewSend(at, route[at], route[at])
    /\ changes = 0
    /\ status = "travelling"

-----------------------------------------------------------------------------
Arrives(n) == status = "travelling" /\ relay.next = n

\* The handler at n names another node: relay.relay(did, Some(next)), then
\* forward_payload.
Forward(n) ==
    /\ Arrives(n) /\ relay.method = "SEND" /\ CanRelay(relay, n)
    /\ route[n] \notin {NoHop, n}
    /\ Len(relay.path) < MaxPath
    /\ relay' = RelaySend(relay, n, route[n])
    /\ at' = n
    /\ UNCHANGED <<route, changes, status>>

\* The handler at n answers: relay.relay(did, None), send_report_message.
Answer(n) ==
    LET handled == RelaySend(relay, n, NoHop)
    IN  /\ Arrives(n) /\ relay.method = "SEND" /\ CanRelay(relay, n)
        /\ route[n] = NoHop
        /\ CanReport(handled)
        /\ relay' = Report(handled)
        /\ at' = n
        /\ UNCHANGED <<route, changes, status>>

\* The handler at n returns an error: the relay is refused, or the lookup
\* names n itself, to which there is no transport.
Drop(n) ==
    /\ Arrives(n)
    /\ CanRelay(relay, n) => relay.method = "SEND" /\ route[n] = n
    /\ status' = "dropped"
    /\ at' = n
    /\ UNCHANGED <<relay, route, changes>>

\* A report at n: relay.relay(did, None), then forwarded or consumed.
PassBack(n) ==
    /\ Arrives(n) /\ relay.method = "REPORT" /\ CanRelay(relay, n)
    /\ relay' = RelayReport(relay, n)
    /\ status' = IF relay'.next = NoHop THEN "home" ELSE status
    /\ at' = n
    /\ UNCHANGED <<route, changes>>

\* The tables of n change: peers join and leave while the message travels.
Reroute(n, m) ==
    /\ status = "travelling" /\ changes < MaxChanges
    /\ route' = [route EXCEPT ![n] = m]
    /\ changes' = changes + 1
    /\ UNCHANGED <<relay, at, status>>

Handle == \E n \in Node : Forward(n) \/ Answer(n) \/ Drop(n) \/ PassBack(n)

Next == Handle \/ \E n \in Node : \E m \in Node \cup {NoHop} : Reroute(n, m)

\* A message on an open channel is handled: the listener's loop never stops
\* taking messages.
Spec == Init /\ [][Next]_vars /\ WF_vars(Handle)

-----------------------------------------------------------------------------
(* Properties *)

\* A report is consumed by the origin of the question and by nobody else,
\* and the envelope never gets a report refused on its way, even when the
\* question passed a node several times (MessageRelay::relay, report).
ReportsComeHome ==
    /\ status = "home" => at = Origin(relay)
    /\ status = "dropped" => relay.method = "SEND"

\* A report only uses hops the question took, backwards: those are the
\* transports known to exist (MessageRelay::path_prev).
ReportsRetrace ==
    relay.method = "REPORT" /\ status = "travelling" =>
        \E i \in 1..(Len(relay.path) - 1) :
            relay.path[i] = relay.next /\ relay.path[i + 1] = at

\* A question that circles is cut: between two changes of the tables it is
\* handled at most three times per node (has_infinite_loop).
LoopsAreCut ==
    Len(relay.path) <= 3 * Cardinality(Node) * (changes + 1)

\* Every question ends, answered or dropped: no envelope travels forever.
TripsEnd == <>(status # "travelling")
=============================================================================
