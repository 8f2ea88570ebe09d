------------------------------- MODULE Relay --------------------------------
(***************************************************************************)
(* MessageRelay (message/protocols/relay.rs): the envelope that decides    *)
(* where a message goes next.  A SEND records the nodes that handled it; a *)
(* REPORT walks that record back.  Every handler calls relay before it     *)
(* forwards or answers a message, and an error of it drops the message.    *)
(***************************************************************************)
EXTENDS Integers, Sequences, FiniteSets

CONSTANT NoHop  \* Option::None of next_hop

\* A mutant of Tolerance.
ToleranceFour == 4

\* INFINITE_LOOP_TOLERANCE
Tolerance == 3

\* MessagePayload::new_send: the path starts with the sender.
NewSend(origin, nextHop, destination) ==
    [method |-> "SEND", path |-> <<origin>>, cursor |-> 0,
     next |-> nextHop, destination |-> destination]

Origin(r) == r.path[1]

\* The element of the path i places before its last.
FromEnd(path, i) == path[Len(path) - i]

\* A mutant: the report starts at the wrong end of the path.
ReportFromHead(r) ==
    [method |-> "REPORT", path |-> r.path, cursor |-> Len(r.path) - 1,
     next |-> Origin(r), destination |-> Origin(r)]

\* The places, counted from the end, of the last Tolerance visits of the
\* node the path ends with.
LastVisits(path) ==
    {i \in 0..(Len(path) - 1) :
        /\ FromEnd(path, i) = path[Len(path)]
        /\ Cardinality({j \in 0..(i - 1) : FromEnd(path, j) = path[Len(path)]}) < Tolerance}

\* A mutant: the wrong pair of intervals compared.
HasInfiniteLoopHead(path) ==
    LET visits == LastVisits(path)
    IN  /\ Cardinality(visits) = Tolerance
        /\ \E i, j \in visits :
              /\ 0 < i /\ i < j
              /\ j - i = Len(path) - j
              /\ \A k \in 0..(j - i - 1) : k < i =>
                        /\ FromEnd(path, k) = FromEnd(path, i + k)
                        /\ FromEnd(path, k) = FromEnd(path, j + k)

\* has_infinite_loop: the node the path ends with was visited three times
\* at equal intervals, and the stretches before the visits look the same as
\* far as the shortest of them goes.
HasInfiniteLoop(path) ==
    LET visits == LastVisits(path)
    IN  /\ Cardinality(visits) = Tolerance
        /\ \E i, j \in visits :
              /\ 0 < i /\ i < j
              /\ i = j - i
              /\ \A k \in 0..(Len(path) - 1) :
                    k < i /\ k < Len(path) - j =>
                        /\ FromEnd(path, k) = FromEnd(path, i + k)
                        /\ FromEnd(path, k) = FromEnd(path, j + k)

\* A mutant: reports held to the rule for questions.
ValidBoth(r) ==
    /\ \A i \in 1..(Len(r.path) - 1) : r.path[i] # r.path[i + 1]
    /\ r.method = "REPORT" => r.path[1] = r.destination
    /\ ~HasInfiniteLoop(r.path)

Valid(r) ==
    /\ \A i \in 1..(Len(r.path) - 1) : r.path[i] # r.path[i + 1]
    /\ r.method = "REPORT" => r.path[1] = r.destination
    /\ r.method = "SEND" => ~HasInfiniteLoop(r.path)

\* path_prev: the element before the one the cursor points to.
PathPrev(path, cursor) ==
    IF Len(path) < cursor + 2 THEN NoHop ELSE FromEnd(path, cursor + 1)

\* Where current stands in the part of the path not yet walked back.
Ahead(r, current) ==
    {i \in r.cursor..(Len(r.path) - 1) : FromEnd(r.path, i) = current}

IsFinalHop(r) == r.method = "REPORT" /\ r.next = r.destination

\* relay(current, next) returns an error unless this holds.  Handlers of
\* reports pass None, so a report needs current on its path.
CanRelay(r, current) ==
    /\ Valid(r)
    /\ r.next # NoHop => r.next = current
    /\ r.method = "REPORT" /\ ~IsFinalHop(r) => Ahead(r, current) # {}

RelaySend(r, current, nextHop) ==
    [r EXCEPT !.path = Append(@, current), !.next = nextHop]

RelayReport(r, current) ==
    IF IsFinalHop(r)
    THEN [r EXCEPT !.cursor = Len(r.path) - 1, !.next = NoHop]
    ELSE LET pos == CHOOSE i \in Ahead(r, current) : \A j \in Ahead(r, current) : i <= j
         IN  [r EXCEPT !.cursor = pos, !.next = PathPrev(r.path, pos)]

\* report: an error unless the SEND was handled by a second node.
CanReport(r) == r.method = "SEND" /\ Len(r.path) >= 2

Report(r) ==
    [method |-> "REPORT", path |-> r.path, cursor |-> 0,
     next |-> PathPrev(r.path, 0), destination |-> Origin(r)]

ResetDestination(r, destination) == [r EXCEPT !.destination = destination]
=============================================================================
