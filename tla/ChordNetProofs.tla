--------------------------- MODULE ChordNetProofs ---------------------------
(***************************************************************************)
(* The overlay, for any ring, any set of nodes on it, any links dialled,   *)
(* any number of faults and any load: what the handlers keep true of the   *)
(* tables, the transports and the messages under way, however links open,  *)
(* break and open again and nodes crash.                                   *)
(***************************************************************************)
EXTENDS ChordNet, DhtTablesProofs, SequenceTheorems

-----------------------------------------------------------------------------
(* The inductive invariant *)

Envelope(method) ==
    [method : {method}, path : Seq(Node) \ {<<>>}, cursor : Nat,
     next : Did \cup {NoDid}, destination : Did]

Event == {Opened, Closed}
Question == [kind : {"FindSuccessorSend"}, did : Did, handler : {"Connect", "FixFingerTable"},
             relay : Envelope("SEND")]
Answer == [kind : {"FindSuccessorReport"}, did : Did, handler : {"Connect", "FixFingerTable"},
           relay : Envelope("REPORT")]
Offer == [kind : {"ConnectNodeSend", "NotifyPredecessorSend"}, relay : Envelope("SEND")]
Accept == [kind : {"ConnectNodeReport"}, relay : Envelope("REPORT")]
Hint == [kind : {"NotifyPredecessorReport"}, did : Did, relay : Envelope("REPORT")]

Message == Event \cup Question \cup Answer \cup Offer \cup Accept \cup Hint

TypeOK ==
    /\ finger \in [Node -> Fingers]
    /\ fixIndex \in [Node -> Slot]
    /\ successors \in [Node -> SUBSET Did]
    /\ predecessor \in [Node -> Did \cup {NoDid}]
    /\ transport \in [Node -> SUBSET Node]
    /\ up \subseteq SUBSET Node
    /\ alive \subseteq Node
    /\ toDial \subseteq Seed

\* The nodes that handled a message, and the one it is about to reach.
Visits(x, n) == Append(x.relay.path, n)

\* A join lookup comes nearer to the node it is for with every hop after the
\* first.
Advances(x, n) ==
    x.kind = "FindSuccessorSend" /\ x.handler = "Connect" =>
        LET q == Visits(x, n)
        IN  /\ q[1] = x.did
            /\ \A i \in 2..Len(q) : q[i] # x.did
            /\ \A i, j \in 2..Len(q) : i < j => Bias(q[j], x.did) < Bias(q[i], x.did)

\* Nobody asks itself for a connection.
Elsewhere(x) ==
    /\ x.kind = "ConnectNodeSend" => x.relay.path[1] # x.relay.destination
    /\ x.kind = "ConnectNodeReport" => x.relay.path[1] # Last(x.relay.path)

Fits(x, n) == Advances(x, n) /\ Elsewhere(x)

QueuesOK(c) ==
    /\ c \in [Node -> [Node -> Seq(Message)]]
    /\ \A m, n \in Node :
          /\ m = n => c[m][n] = <<>>
          /\ \A i \in 1..Len(c[m][n]) : Fits(c[m][n][i], n)

IsEvent(x) == x.kind \in {"Opened", "Closed"}

\* The last event of q is of that kind.
Shows(q, kind) ==
    \E i \in 1..Len(q) : /\ q[i].kind = kind
                         /\ \A j \in 1..Len(q) : i < j => ~IsEvent(q[j])

Silent(q) == \A i \in 1..Len(q) : ~IsEvent(q[i])

\* The last event a node has yet to handle, or else its registry, tells
\* whether the link is there.
LinkInv(q, registered, there) ==
    /\ Shows(q, "Opened") => there
    /\ Shows(q, "Closed") => ~there
    /\ Silent(q) => (registered <=> there)

LinksInv == \A m, n \in Node : LinkInv(chan[m][n], m \in transport[n], {m, n} \in up)

\* A node is not its own neighbour.
TablesInv ==
    \A n \in Node :
        /\ n \notin transport[n]
        /\ n \notin successors[n]
        /\ Cardinality(successors[n]) <= SuccessorCap
        /\ Cardinality(successors[n] \ transport[n]) <= 1

IInv == TypeOK /\ QueuesOK(chan) /\ LinksInv /\ TablesInv

-----------------------------------------------------------------------------
(* Queues *)

\* Nothing in q tells more of the link than r does.
Quieter(q, r) ==
    /\ Shows(q, "Opened") => Shows(r, "Opened")
    /\ Shows(q, "Closed") => Shows(r, "Closed")
    /\ Silent(q) => Silent(r)

\* A queue that tells less of a link is as true of it.
LEMMA QuieterKeeps ==
    ASSUME NEW q, NEW r, Quieter(q, r), NEW t \in BOOLEAN, NEW u \in BOOLEAN, LinkInv(r, t, u)
    PROVE  LinkInv(q, t, u)
  BY Zenon DEF Quieter, LinkInv

\* Quieter is transitive.
LEMMA QuieterTransitive ==
    ASSUME NEW q, NEW r, NEW s, Quieter(q, r), Quieter(r, s)
    PROVE  Quieter(q, s)
  BY Zenon DEF Quieter

\* Quieter is reflexive.
LEMMA QuieterSame == \A q : Quieter(q, q)
  BY Zenon DEF Quieter

\* Sending a message says nothing of the link.
LEMMA AppendQuieter ==
    ASSUME NEW q \in Seq(Message), NEW x \in Message, ~IsEvent(x)
    PROVE  Quieter(Append(q, x), q)
<1> DEFINE p == Append(q, x)
<1>1. /\ Len(q) \in Nat /\ Len(p) = Len(q) + 1 /\ p[Len(p)] = x
      /\ \A i \in 1..Len(q) : p[i] = q[i]
  BY LenProperties
<1> HIDE DEF p
<1>2. ASSUME NEW k \in {"Opened", "Closed"}, Shows(p, k) PROVE Shows(q, k)
  <2>1. PICK i \in 1..Len(p) : p[i].kind = k /\ \A j \in 1..Len(p) : i < j => ~IsEvent(p[j])
    BY <1>2 DEF Shows
  <2>2. i # Len(p)
    BY <1>1, <1>2, <2>1 DEF IsEvent
  <2>3. i \in 1..Len(q) /\ q[i].kind = k
    BY <1>1, <2>1, <2>2
  <2>4. ASSUME NEW j \in 1..Len(q), i < j PROVE ~IsEvent(q[j])
    BY <1>1, <2>1, <2>4
  <2> QED
    BY <2>3, <2>4 DEF Shows
<1>3. Silent(p) => Silent(q)
  BY <1>1 DEF Silent
<1> QED
  BY <1>2, <1>3 DEF Quieter, p

\* What is left of a queue.
LEMMA TailEvents ==
    ASSUME NEW q \in Seq(Message), q # <<>>
    PROVE  /\ Shows(Tail(q), "Opened") => Shows(q, "Opened")
           /\ Shows(Tail(q), "Closed") => Shows(q, "Closed")
           /\ Silent(Tail(q)) /\ IsEvent(Head(q)) => Shows(q, Head(q).kind)
           /\ Silent(Tail(q)) /\ ~IsEvent(Head(q)) => Silent(q)
<1> DEFINE p == Tail(q)
<1>1. /\ Len(q) \in Nat /\ Len(q) # 0 /\ Len(p) = Len(q) - 1 /\ q[1] = Head(q)
      /\ \A i \in 1..Len(p) : p[i] = q[i + 1]
  BY LenProperties, HeadTailProperties, EmptySeq
<1>2. \A i \in 2..Len(q) : i - 1 \in 1..Len(p) /\ p[i - 1] = q[i]
  BY <1>1
<1> HIDE DEF p
<1>3. ASSUME NEW k, Shows(p, k) PROVE Shows(q, k)
  <2>1. PICK i \in 1..Len(p) : p[i].kind = k /\ \A j \in 1..Len(p) : i < j => ~IsEvent(p[j])
    BY <1>3 DEF Shows
  <2>2. i + 1 \in 1..Len(q) /\ q[i + 1].kind = k
    BY <1>1, <2>1
  <2>3. ASSUME NEW j \in 1..Len(q), i + 1 < j PROVE ~IsEvent(q[j])
    <3>1. j \in 2..Len(q) /\ i < j - 1
      BY <1>1, <2>3
    <3> QED
      BY <1>2, <2>1, <3>1
  <2> QED
    BY <2>2, <2>3 DEF Shows
<1>4. ASSUME Silent(p) PROVE \A j \in 2..Len(q) : ~IsEvent(q[j])
  BY <1>2, <1>4 DEF Silent
<1>5. ASSUME Silent(p) PROVE Shows(q, Head(q).kind)
  <2>1. 1 \in 1..Len(q) /\ \A j \in 1..Len(q) : 1 < j => j \in 2..Len(q)
    BY <1>1
  <2> QED
    BY <1>1, <1>4, <1>5, <2>1 DEF Shows
<1>6. ASSUME Silent(p), ~IsEvent(Head(q)) PROVE Silent(q)
  <2>1. \A j \in 1..Len(q) : j = 1 \/ j \in 2..Len(q)
    BY <1>1
  <2> QED
    BY <1>1, <1>4, <1>6, <2>1 DEF Silent
<1> QED
  BY <1>3, <1>5, <1>6 DEF p

\* An event at the end is what the queue shows.
LEMMA EventShows ==
    ASSUME NEW q \in Seq(Message), NEW e \in Event
    PROVE  /\ ~Silent(Append(q, e))
           /\ \A k : Shows(Append(q, e), k) => k = e.kind
<1> DEFINE p == Append(q, e)
<1>1. Len(q) \in Nat /\ Len(p) = Len(q) + 1 /\ p[Len(p)] = e /\ Len(p) \in 1..Len(p)
  BY LenProperties
<1>2. IsEvent(e)
  BY DEF IsEvent, Event, Opened, Closed
<1> HIDE DEF p
<1>3. ~Silent(p)
  BY <1>1, <1>2 DEF Silent
<1>4. ASSUME NEW k, Shows(p, k) PROVE k = e.kind
  <2>1. PICK i \in 1..Len(p) : p[i].kind = k /\ \A j \in 1..Len(p) : i < j => ~IsEvent(p[j])
    BY <1>4 DEF Shows
  <2>2. i = Len(p)
    BY <1>1, <1>2, <2>1
  <2> QED
    BY <1>1, <2>1, <2>2
<1> QED
  BY <1>3, <1>4 DEF p

\* d is c with at most one message more in each queue, of those in S.
Gains(c, d, S) ==
    /\ d = [a \in Node |-> [b \in Node |-> d[a][b]]]
    /\ \A a, b \in Node :
          \/ d[a][b] = c[a][b]
          \/ a # b /\ \E x \in S : Fits(x, b) /\ d[a][b] = Append(c[a][b], x)

\* Queues that gain messages that fit stay as they should be.
LEMMA GainsOK ==
    ASSUME NEW c, NEW d, QueuesOK(c), NEW S \in SUBSET Message, Gains(c, d, S)
    PROVE  QueuesOK(d)
<1>1. ASSUME NEW a \in Node, NEW b \in Node
      PROVE  /\ d[a][b] \in Seq(Message)
             /\ a = b => d[a][b] = <<>>
             /\ \A i \in 1..Len(d[a][b]) : Fits(d[a][b][i], b)
  <2>1. /\ c[a][b] \in Seq(Message)
        /\ a = b => c[a][b] = <<>>
        /\ \A i \in 1..Len(c[a][b]) : Fits(c[a][b][i], b)
    BY <1>1 DEF QueuesOK
  <2>2. CASE d[a][b] = c[a][b]
    BY <2>1, <2>2
  <2>3. CASE d[a][b] # c[a][b]
    <3>1. PICK x \in S : Fits(x, b) /\ d[a][b] = Append(c[a][b], x)
      BY <1>1, <2>3 DEF Gains
    <3>2. a # b
      BY <1>1, <2>3 DEF Gains
    <3>3. x \in Message
      BY <3>1
    <3> DEFINE q == c[a][b]
    <3>4. /\ Len(q) \in Nat /\ Append(q, x) \in Seq(Message) /\ Len(Append(q, x)) = Len(q) + 1
          /\ Append(q, x)[Len(q) + 1] = x /\ \A i \in 1..Len(q) : Append(q, x)[i] = q[i]
      BY <2>1, <3>3, LenProperties
    <3>5. ASSUME NEW i \in 1..Len(Append(q, x)) PROVE Fits(Append(q, x)[i], b)
      <4>1. i \in 1..Len(q) \/ i = Len(q) + 1
        BY <3>4, <3>5
      <4> QED
        BY <2>1, <3>1, <3>4, <4>1
    <3> QED
      BY <3>1, <3>2, <3>4, <3>5
  <2> QED
    BY <2>2, <2>3
<1>2. d \in [Node -> [Node -> Seq(Message)]]
  <2>1. [a \in Node |-> [b \in Node |-> d[a][b]]] \in [Node -> [Node -> Seq(Message)]]
    BY <1>1
  <2> QED
    BY <2>1 DEF Gains
<1> QED
  BY <1>1, <1>2 DEF QueuesOK

\* ... and say nothing new of the links.
LEMMA GainsQuieter ==
    ASSUME NEW c, NEW d, QueuesOK(c), Gains(c, d, Message \ Event)
    PROVE  \A a, b \in Node : Quieter(d[a][b], c[a][b])
<1> SUFFICES ASSUME NEW a \in Node, NEW b \in Node PROVE Quieter(d[a][b], c[a][b])
  OBVIOUS
<1>1. c[a][b] \in Seq(Message)
  BY DEF QueuesOK
<1>2. CASE d[a][b] = c[a][b]
  BY <1>2, QuieterSame
<1>3. CASE d[a][b] # c[a][b]
  <2>1. PICK x \in Message \ Event : d[a][b] = Append(c[a][b], x)
    BY <1>3 DEF Gains
  <2>2. x \in Message /\ ~IsEvent(x)
    BY <2>1 DEF Message, Event, Opened, Closed, IsEvent, Question, Answer, Offer, Accept, Hint
  <2> QED
    BY <1>1, <2>1, <2>2, AppendQuieter
<1> QED
  BY <1>2, <1>3

\* The message a handler takes, and the queues without it.
LEMMA TakenOK ==
    ASSUME QueuesOK(chan), NEW m \in Node, NEW n \in Node, chan[m][n] # <<>>
    PROVE  /\ m # n
           /\ Head(chan[m][n]) \in Message /\ Fits(Head(chan[m][n]), n)
           /\ QueuesOK(Taken(m, n))
           /\ Taken(m, n)[m][n] = Tail(chan[m][n])
           /\ \A a, b \in Node : ~(a = m /\ b = n) => Taken(m, n)[a][b] = chan[a][b]
<1> DEFINE q == chan[m][n]
           d == Taken(m, n)
<1>1. /\ chan \in [Node -> [Node -> Seq(Message)]]
      /\ \A a, b \in Node : /\ a = b => chan[a][b] = <<>>
                            /\ \A i \in 1..Len(chan[a][b]) : Fits(chan[a][b][i], b)
  BY DEF QueuesOK
<1>2. q \in Seq(Message) /\ q # <<>>
  BY <1>1
<1>3. /\ Len(q) \in Nat /\ Len(q) # 0 /\ Head(q) = q[1] /\ Head(q) \in Message
      /\ Tail(q) \in Seq(Message) /\ Len(Tail(q)) = Len(q) - 1
      /\ \A i \in 1..Len(Tail(q)) : Tail(q)[i] = q[i + 1]
  BY <1>2, LenProperties, HeadTailProperties, EmptySeq
<1>4. m # n /\ Fits(Head(q), n)
  <2>1. 1 \in 1..Len(q)
    BY <1>3
  <2> QED
    BY <1>1, <1>3, <2>1
<1>5. /\ d[m][n] = Tail(q)
      /\ \A a, b \in Node : ~(a = m /\ b = n) => d[a][b] = chan[a][b]
      /\ d \in [Node -> [Node -> Seq(Message)]]
  BY <1>1, <1>3 DEF Taken
<1>6. ASSUME NEW i \in 1..Len(Tail(q)) PROVE Fits(Tail(q)[i], n)
  <2>1. i + 1 \in 1..Len(q)
    BY <1>3, <1>6
  <2> QED
    BY <1>1, <1>3, <1>6, <2>1
<1>7. ASSUME NEW a \in Node, NEW b \in Node
      PROVE  /\ a = b => d[a][b] = <<>>
             /\ \A i \in 1..Len(d[a][b]) : Fits(d[a][b][i], b)
  <2>1. CASE a = m /\ b = n
    BY <1>4, <1>5, <1>6, <2>1
  <2>2. CASE ~(a = m /\ b = n)
    BY <1>1, <1>5, <2>2
  <2> QED
    BY <2>1, <2>2
<1>8. QueuesOK(d)
  BY <1>5, <1>7 DEF QueuesOK
<1> QED
  BY <1>3, <1>4, <1>5, <1>8

\* Taking a message says nothing of the link.
LEMMA TakenQuieter ==
    ASSUME QueuesOK(chan), NEW m \in Node, NEW n \in Node, chan[m][n] # <<>>,
           ~IsEvent(Head(chan[m][n]))
    PROVE  \A a, b \in Node : Quieter(Taken(m, n)[a][b], chan[a][b])
<1> SUFFICES ASSUME NEW a \in Node, NEW b \in Node
             PROVE  Quieter(Taken(m, n)[a][b], chan[a][b])
  OBVIOUS
<1>1. CASE a = m /\ b = n
  <2>1. chan[m][n] \in Seq(Message)
    BY DEF QueuesOK
  <2>2. Quieter(Tail(chan[m][n]), chan[m][n])
    BY <2>1, TailEvents DEF Quieter
  <2> QED
    BY <1>1, <2>2, TakenOK
<1>2. CASE ~(a = m /\ b = n)
  BY <1>2, TakenOK, QuieterSame
<1> QED
  BY <1>1, <1>2

\* A message put at the end of one queue.
LEMMA PutGains ==
    ASSUME NEW c, QueuesOK(c), NEW a \in Node, NEW b \in Node, a # b,
           NEW S, NEW x \in S, Fits(x, b)
    PROVE  Gains(c, [c EXCEPT ![a][b] = Append(@, x)], S)
<1> DEFINE d == [c EXCEPT ![a][b] = Append(@, x)]
<1>1. c \in [Node -> [Node -> Seq(Message)]]
  BY DEF QueuesOK
<1>2. d = [e \in Node |-> [f \in Node |->
              IF e = a /\ f = b THEN Append(c[e][f], x) ELSE c[e][f]]]
  BY <1>1
<1> HIDE DEF d
<1>3. \A e, f \in Node : d[e][f] = IF e = a /\ f = b THEN Append(c[e][f], x) ELSE c[e][f]
  BY <1>2
<1>4. d = [e \in Node |-> [f \in Node |-> d[e][f]]]
  BY <1>2
<1>5. Gains(c, d, S)
  BY <1>3, <1>4 DEF Gains
<1> QED
  BY <1>5 DEF d

\* What a handler sends arrives at the end of one queue, or nowhere.
LEMMA SentGains ==
    ASSUME NEW c, QueuesOK(c), TypeOK, TablesInv, NEW n \in Node, NEW x \in Message \ Event,
           x.relay.next \in transport[n] => Fits(x, x.relay.next)
    PROVE  Gains(c, Sent(c, n, x), Message \ Event)
<1> DEFINE t == x.relay.next
<1>1. CASE CanSend(n, t)
  <2>1. t \in Node /\ t # n /\ Fits(x, t)
    BY <1>1 DEF CanSend, TypeOK, TablesInv
  <2>2. Sent(c, n, x) = [c EXCEPT ![n][t] = Append(@, x)]
    BY <1>1 DEF Sent
  <2> HIDE DEF t
  <2>3. Gains(c, [c EXCEPT ![n][t] = Append(@, x)], Message \ Event)
    BY <2>1, PutGains
  <2> QED
    BY <2>2, <2>3
<1>2. CASE ~CanSend(n, t)
  <2>1. Sent(c, n, x) = c
    BY <1>2 DEF Sent
  <2>2. c = [a \in Node |-> [b \in Node |-> c[a][b]]]
    BY DEF QueuesOK
  <2> QED
    BY <2>1, <2>2 DEF Gains
<1> QED
  BY <1>1, <1>2

\* The links stand as they did when no queue tells more of them.
LEMMA LinksKept ==
    ASSUME LinksInv, \A a, b \in Node : Quieter(chan'[a][b], chan[a][b]),
           UNCHANGED <<transport, up>>
    PROVE  LinksInv'
<1> SUFFICES ASSUME NEW a \in Node, NEW b \in Node
             PROVE  LinkInv(chan[a][b], a \in transport[b], {a, b} \in up)'
  BY DEF LinksInv
<1>1. /\ LinkInv(chan[a][b], a \in transport[b], {a, b} \in up)
      /\ Quieter(chan'[a][b], chan[a][b])
  BY DEF LinksInv
<1> QED
  BY <1>1, Zenon DEF LinkInv, Quieter

\* The kinds of messages that are not events, and what a message of that kind is.
LEMMA Kinds ==
    ASSUME NEW x \in Message
    PROVE  /\ IsEvent(x) <=> x \in Event
           /\ x.kind = "Opened" <=> x = Opened
           /\ x.kind = "Closed" <=> x = Closed
           /\ x.kind = "FindSuccessorSend" <=> x \in Question
           /\ x.kind = "FindSuccessorReport" <=> x \in Answer
           /\ x.kind \in {"ConnectNodeSend", "NotifyPredecessorSend"} <=> x \in Offer
           /\ x.kind = "ConnectNodeReport" <=> x \in Accept
           /\ x.kind = "NotifyPredecessorReport" <=> x \in Hint
<1>1. x = Opened \/ x = Closed \/ x \in Question \/ x \in Answer \/ x \in Offer
        \/ x \in Accept \/ x \in Hint
  BY DEF Message, Event
<1>2. CASE x = Opened
  BY <1>2 DEF Event, IsEvent, Opened, Closed, Question, Answer, Offer, Accept, Hint
<1>3. CASE x = Closed
  BY <1>3 DEF Event, IsEvent, Opened, Closed, Question, Answer, Offer, Accept, Hint
<1>4. CASE x \in Question
  BY <1>4 DEF Event, IsEvent, Opened, Closed, Question, Answer, Offer, Accept, Hint
<1>5. CASE x \in Answer
  BY <1>5 DEF Event, IsEvent, Opened, Closed, Question, Answer, Offer, Accept, Hint
<1>6. CASE x \in Offer
  BY <1>6 DEF Event, IsEvent, Opened, Closed, Question, Answer, Offer, Accept, Hint
<1>7. CASE x \in Accept
  BY <1>7 DEF Event, IsEvent, Opened, Closed, Question, Answer, Offer, Accept, Hint
<1>8. CASE x \in Hint
  BY <1>8 DEF Event, IsEvent, Opened, Closed, Question, Answer, Offer, Accept, Hint
<1> QED
  BY <1>1, <1>2, <1>3, <1>4, <1>5, <1>6, <1>7, <1>8

\* A handler of a message: what its queue held.
LEMMA HandledMessage ==
    ASSUME QueuesOK(chan), NEW m \in Node, NEW n \in Node, NEW kind, Handles(m, n, kind)
    PROVE  /\ chan[m][n] # <<>>
           /\ Head(chan[m][n]) \in Message /\ Head(chan[m][n]).kind = kind
           /\ Fits(Head(chan[m][n]), n) /\ m # n
  BY TakenOK DEF Handles

\* A handler that sends nothing.
LEMMA ConsumesKeeps ==
    ASSUME IInv, NEW m \in Node, NEW n \in Node, NEW kind, kind \notin {"Opened", "Closed"},
           Handles(m, n, kind), Consumes(m, n)
    PROVE  /\ QueuesOK(chan')
           /\ \A a, b \in Node : Quieter(chan'[a][b], chan[a][b])
<1>1. QueuesOK(chan)
  BY DEF IInv
<1>2. chan[m][n] # <<>> /\ ~IsEvent(Head(chan[m][n]))
  BY <1>1, HandledMessage DEF IsEvent
<1> QED
  BY <1>1, <1>2, TakenOK, TakenQuieter DEF Consumes

\* A handler that sends one message, if it can.
LEMMA RepliesKeeps ==
    ASSUME IInv, NEW m \in Node, NEW n \in Node, NEW kind, kind \notin {"Opened", "Closed"},
           Handles(m, n, kind), NEW x \in Message \ Event,
           x.relay.next \in transport[n] => Fits(x, x.relay.next), Replies(m, n, x)
    PROVE  /\ QueuesOK(chan')
           /\ \A a, b \in Node : Quieter(chan'[a][b], chan[a][b])
<1> DEFINE c == Taken(m, n)
           d == Sent(c, n, x)
<1>1. QueuesOK(chan) /\ TypeOK /\ TablesInv
  BY DEF IInv
<1>2. chan[m][n] # <<>> /\ ~IsEvent(Head(chan[m][n]))
  BY <1>1, HandledMessage DEF IsEvent
<1>3. QueuesOK(c) /\ \A a, b \in Node : Quieter(c[a][b], chan[a][b])
  BY <1>1, <1>2, TakenOK, TakenQuieter
<1>4. Gains(c, d, Message \ Event)
  <2> HIDE DEF c
  <2> QED
    BY <1>1, <1>3, SentGains
<1>5. chan' = d
  BY DEF Replies
<1> HIDE DEF c, d
<1>6. QueuesOK(d) /\ \A a, b \in Node : Quieter(d[a][b], c[a][b])
  BY <1>3, <1>4, GainsOK, GainsQuieter
<1> QED
  BY <1>3, <1>5, <1>6, QuieterTransitive

-----------------------------------------------------------------------------
(* Envelopes *)

\* A new envelope starts its path at the sender.
LEMMA NewSendType ==
    ASSUME NEW n \in Node, NEW h \in Did \cup {NoDid}, NEW d \in Did
    PROVE  /\ NewSend(n, h, d) \in Envelope("SEND")
           /\ NewSend(n, h, d).path = <<n>>
           /\ NewSend(n, h, d).next = h
           /\ NewSend(n, h, d).destination = d
  BY DEF NewSend, Envelope

\* A forwarded question keeps where it started and where it goes.
LEMMA RelaySendType ==
    ASSUME NEW r \in Envelope("SEND"), NEW n \in Node, NEW h \in Did \cup {NoDid}
    PROVE  /\ RelaySend(r, n, h) \in Envelope("SEND")
           /\ RelaySend(r, n, h).path = Append(r.path, n)
           /\ RelaySend(r, n, h).next = h
           /\ RelaySend(r, n, h).destination = r.destination
           /\ Append(r.path, n)[1] = r.path[1]
<1>1. /\ r.path \in Seq(Node) /\ r.path # <<>>
  BY DEF Envelope
<1>2. /\ Append(r.path, n) \in Seq(Node) \ {<<>>}
      /\ Append(r.path, n)[1] = r.path[1]
  BY <1>1
<1> QED
  BY <1>2 DEF RelaySend, Envelope

\* A report keeps the path of its question.
LEMMA ReportType ==
    ASSUME NEW r \in Envelope("SEND")
    PROVE  /\ Report(r) \in Envelope("REPORT")
           /\ Report(r).path = r.path
<1>1. r.path \in Seq(Node) /\ r.path # <<>> /\ Len(r.path) \in Nat /\ Len(r.path) # 0
  BY EmptySeq DEF Envelope
<1>2. r.path[1] \in Node /\ Node \subseteq Did
  BY <1>1, NetAssumption
<1>3. PathPrev(r.path, 0) \in Node \cup {NoDid}
  <2>1. CASE Len(r.path) < 2
    BY <2>1 DEF PathPrev
  <2>2. CASE ~(Len(r.path) < 2)
    BY <1>1, <2>2 DEF PathPrev, FromEnd
  <2> QED
    BY <2>1, <2>2
<1> QED
  BY <1>1, <1>2, <1>3 DEF Report, Envelope, Origin

\* relay at a node a report may pass: it keeps its form and its path, and what
\* it ends at is the first of the path.
LEMMA RelayReportType ==
    ASSUME NEW r \in Envelope("REPORT"), NEW n \in Node, CanRelay(r, n)
    PROVE  /\ RelayReport(r, n) \in Envelope("REPORT")
           /\ RelayReport(r, n).path = r.path
           /\ RelayReport(r, n).next = NoDid => n = r.path[1]
<1> DEFINE L == Len(r.path)
<1>1. /\ r.path \in Seq(Node) /\ r.path # <<>> /\ L \in Nat /\ L # 0
      /\ r.cursor \in Nat /\ r.method = "REPORT"
  BY EmptySeq DEF Envelope
<1>2. Node \subseteq Did /\ NoDid \notin Did
  BY NetAssumption, TablesAssumption
<1>3. CASE IsFinalHop(r)
  <2>1. RelayReport(r, n) = [r EXCEPT !.cursor = L - 1, !.next = NoDid]
    BY <1>3 DEF RelayReport
  <2>2. r.path[1] = r.destination /\ r.next = r.destination
    BY <1>1, <1>3 DEF CanRelay, Valid, IsFinalHop
  <2>3. r.path[1] \in Node
    BY <1>1
  <2>4. r.next = n
    BY <1>2, <2>2, <2>3 DEF CanRelay
  <2>5. L - 1 \in Nat
    BY <1>1
  <2> HIDE DEF L
  <2> QED
    BY <2>1, <2>2, <2>4, <2>5 DEF Envelope
<1>4. CASE ~IsFinalHop(r)
  <2> DEFINE pos == CHOOSE i \in Ahead(r, n) : \A j \in Ahead(r, n) : i <= j
  <2>1. Ahead(r, n) \in SUBSET Nat /\ Ahead(r, n) # {}
    BY <1>1, <1>4 DEF CanRelay, Ahead
  <2>2. \E i \in Ahead(r, n) : \A j \in Ahead(r, n) : i <= j
    BY <2>1, LeastNat
  <2>3. pos \in Ahead(r, n)
    BY <2>2
  <2>4. RelayReport(r, n) = [r EXCEPT !.cursor = pos, !.next = PathPrev(r.path, pos)]
    BY <1>4 DEF RelayReport
  <2> HIDE DEF pos
  <2>5. pos \in Nat /\ pos <= L - 1 /\ r.path[L - pos] = n
    BY <1>1, <2>3 DEF Ahead, FromEnd
  <2>6. CASE L < pos + 2
    <3>1. pos = L - 1
      BY <1>1, <2>5, <2>6
    <3>2. n = r.path[1]
      BY <1>1, <2>5, <3>1
    <3>3. PathPrev(r.path, pos) = NoDid
      BY <2>6 DEF PathPrev
    <3> QED
      BY <2>4, <2>5, <3>2, <3>3 DEF Envelope
  <2>7. CASE ~(L < pos + 2)
    <3>1. PathPrev(r.path, pos) = r.path[L - (pos + 1)] /\ L - (pos + 1) \in 1..L
      BY <1>1, <2>5, <2>7 DEF PathPrev, FromEnd
    <3>2. PathPrev(r.path, pos) \in Node
      BY <1>1, <3>1
    <3> QED
      BY <1>2, <2>4, <2>5, <3>2 DEF Envelope
  <2> QED
    BY <2>6, <2>7
<1> QED
  BY <1>3, <1>4

-----------------------------------------------------------------------------
(* Tables *)

\* Nodes are dids, and no did stands for none.
LEMMA NodesAreDids == Node \subseteq Did /\ NoDid \notin Did /\ NoDid \notin Node
  BY NetAssumption, TablesAssumption

\* What the invariant says of one node's tables.
LEMMA TablesOf ==
    ASSUME TypeOK, TablesInv, NEW n \in Node
    PROVE  /\ n \in Did
           /\ finger[n] \in Fingers /\ fixIndex[n] \in Slot
           /\ successors[n] \in SUBSET (Did \ {n}) /\ Cardinality(successors[n]) <= SuccessorCap
           /\ predecessor[n] \in Did \cup {NoDid}
           /\ transport[n] \in SUBSET Node /\ n \notin transport[n]
           /\ Cardinality(successors[n] \ transport[n]) <= 1
  BY NodesAreDids DEF TypeOK, TablesInv

\* A lookup names a did, and a remote one a did before its target.
LEMMA LookupType ==
    ASSUME TypeOK, TablesInv, NEW n \in Node, NEW d \in Did
    PROVE  /\ Lookup(n, d).did \in Did
           /\ Lookup(n, d).action = "Remote" /\ Lookup(n, d).did # n =>
                  Bias(n, Lookup(n, d).did) < Bias(n, d)
<1>1. n \in Did /\ finger[n] \in Fingers /\ successors[n] \in SUBSET Did
  BY TablesOf
<1>2. CASE AnswersFor(n, successors[n], d)
  BY <1>1, <1>2, SuccessorMinType DEF Lookup, FindSuccessor
<1>3. CASE ~AnswersFor(n, successors[n], d)
  BY <1>1, <1>3, ClosestBefore DEF Lookup, FindSuccessor
<1> QED
  BY <1>2, <1>3

\* A set with no more strays than one that had at most one.
LEMMA FewerStrays ==
    ASSUME NEW S \in SUBSET Did, Cardinality(S) <= 1, NEW R, R \subseteq S
    PROVE  Cardinality(R) <= 1
<1>1. IsFiniteSet(S) /\ Cardinality(S) \in Nat
  BY DidsFinite
<1>2. R \in SUBSET S
  OBVIOUS
<1>3. IsFiniteSet(R) /\ Cardinality(R) <= Cardinality(S)
  BY <1>1, <1>2, FS_Subset
<1>4. Cardinality(R) \in Nat
  BY <1>3, FS_CardinalityType
<1> QED
  BY <1>1, <1>3, <1>4

\* An update keeps the capacity, and adds nothing but the did it is given.
LEMMA UpdateSound ==
    \A n, d \in Did : \A S \in SUBSET (Did \ {n}) : Cardinality(S) <= SuccessorCap =>
        /\ SuccessorUpdate(n, S, d) \in SUBSET (Did \ {n})
        /\ SuccessorUpdate(n, S, d) \subseteq S \cup {d}
        /\ Cardinality(SuccessorUpdate(n, S, d)) <= SuccessorCap
  BY SuccessorUpdateSound

\* So does a join.
LEMMA SuccessorJoinSound ==
    ASSUME NEW n \in Did, NEW d \in Did, NEW S \in SUBSET (Did \ {n}),
           Cardinality(S) <= SuccessorCap
    PROVE  /\ SuccessorJoin(n, S, d) \in SUBSET (Did \ {n})
           /\ SuccessorJoin(n, S, d) \subseteq S \cup {d}
           /\ Cardinality(SuccessorJoin(n, S, d)) <= SuccessorCap
<1> DEFINE U == SuccessorUpdate(n, S, d)
<1>1. U \in SUBSET (Did \ {n}) /\ U \subseteq S \cup {d} /\ Cardinality(U) <= SuccessorCap
  BY UpdateSound
<1>2. SuccessorJoin(n, S, d) = U \/ SuccessorJoin(n, S, d) = S
  BY DEF SuccessorJoin
<1> HIDE DEF U
<1> QED
  BY <1>1, <1>2

\* What a leave leaves: fewer entries, or the finger that refills the sequence.
LEMMA SuccessorLeaveSound ==
    ASSUME NEW n \in Did, NEW d, NEW S \in SUBSET (Did \ {n}),
           Cardinality(S) <= SuccessorCap, NEW F \in Fingers
    PROVE  LET L == SuccessorLeave(n, S, F, d)
           IN  /\ L \in SUBSET (Did \ {n})
               /\ Cardinality(L) <= SuccessorCap
               /\ L = S \ {d} \/ \E x \in Did : L \subseteq {x}
<1> DEFINE rest == SuccessorRemove(S, d)
           f    == FingerFirst(F)
           L    == SuccessorLeave(n, S, F, d)
<1>1. rest \in SUBSET (Did \ {n}) /\ rest = S \ {d} /\ rest \in SUBSET S
  BY DEF SuccessorRemove
<1>2. IsFiniteSet(S) /\ Cardinality(S) \in Nat
  BY DidsFinite
<1> HIDE DEF rest
<1>3. Cardinality(rest) <= SuccessorCap
  <2>1. IsFiniteSet(rest) /\ Cardinality(rest) <= Cardinality(S)
    BY <1>1, <1>2, FS_Subset
  <2>2. Cardinality(rest) \in Nat
    BY <2>1, FS_CardinalityType
  <2> QED
    BY <1>2, <2>1, <2>2, TablesAssumption
<1>4. CASE rest = {} /\ f # NoDid
  <2>1. f \in Did
    BY <1>4, FingerFirstType
  <2>2. L = SuccessorUpdate(n, rest, f)
    BY <1>4 DEF SuccessorLeave, rest
  <2> HIDE DEF L, f
  <2>3. L \in SUBSET (Did \ {n}) /\ L \subseteq rest \cup {f} /\ Cardinality(L) <= SuccessorCap
    <3>1. rest \in SUBSET (Did \ {n})
      BY <1>1
    <3>2. /\ SuccessorUpdate(n, rest, f) \in SUBSET (Did \ {n})
          /\ SuccessorUpdate(n, rest, f) \subseteq rest \cup {f}
          /\ Cardinality(SuccessorUpdate(n, rest, f)) <= SuccessorCap
      BY <3>1, <1>3, <2>1, UpdateSound, Zenon
    <3> QED
      BY <2>2, <3>2
  <2>4. L \subseteq {f}
    BY <1>4, <2>3
  <2> QED
    BY <2>1, <2>3, <2>4 DEF L
<1>5. CASE ~(rest = {} /\ f # NoDid)
  <2>1. L = rest
    BY <1>5 DEF SuccessorLeave, rest
  <2> QED
    BY <1>1, <1>3, <2>1
<1> QED
  BY <1>4, <1>5

\* A step that changes neither tables nor transports nor links keeps what the
\* invariant says of them.
LEMMA TablesKept ==
    ASSUME IInv, UNCHANGED <<tables, transport, up, toDial, alive>>
    PROVE  TypeOK' /\ TablesInv'
  BY DEF IInv, TypeOK, TablesInv, tables

-----------------------------------------------------------------------------
(* One lemma for each action *)

\* Nobody knows anybody: nothing is under way.
LEMMA InitInv == Init => IInv
<1> SUFFICES ASSUME Init PROVE IInv
  OBVIOUS
<1> USE DEF Init, Apart
<1>1. TypeOK
  <2>1. 0 \in Slot
    BY RingAssumption DEF Slot
  <2> QED
    BY <2>1 DEF TypeOK, NoFingers, Fingers
<1>2. \A m, n \in Node : chan[m][n] = <<>> /\ chan[m][n] \in Seq(Message) /\ Len(chan[m][n]) = 0
  OBVIOUS
<1>3. QueuesOK(chan)
  <2>1. \A m, n \in Node : 1..Len(chan[m][n]) = {}
    BY <1>2
  <2> QED
    BY <1>2, <2>1 DEF QueuesOK
<1>4. LinksInv
  <2>1. \A m, n \in Node : 1..Len(chan[m][n]) = {}
    BY <1>2
  <2>2. \A m, n \in Node : m \notin transport[n] /\ {m, n} \notin up
    OBVIOUS
  <2> QED
    BY <2>1, <2>2 DEF LinksInv, LinkInv, Shows, Silent
<1>5. TablesInv
  <2>1. Cardinality({}) = 0 /\ SuccessorCap \in Nat
    BY FS_EmptySet, TablesAssumption
  <2>2. \A n \in Node : successors[n] = {} /\ transport[n] = {} /\ {} \ {} = {}
    OBVIOUS
  <2> QED
    BY <2>1, <2>2 DEF TablesInv
<1> QED
  BY <1>1, <1>3, <1>4, <1>5 DEF IInv

\* The lookup that a node sends to a new peer for itself.
LEMMA JoinLookup ==
    ASSUME NEW n \in Node, NEW m \in Node, m # n
    PROVE  LET x == FindSuccessorSend(n, m, m, n, "Connect")
           IN  x \in Message \ Event /\ Fits(x, m)
<1> DEFINE x == FindSuccessorSend(n, m, m, n, "Connect")
           q == Visits(x, m)
<1>1. m \in Did /\ n \in Did
  BY NodesAreDids
<1>2. x \in Question /\ x.relay.path = <<n>> /\ x.did = n /\ x.kind = "FindSuccessorSend"
  <2>1. NewSend(n, m, m) \in Envelope("SEND") /\ NewSend(n, m, m).path = <<n>>
    BY <1>1, NewSendType
  <2> QED
    BY <1>1, <2>1 DEF FindSuccessorSend, Question
<1>3. x \in Message \ Event
  BY <1>2 DEF Message, Event, Opened, Closed, Question
<1>4. Len(q) = 2 /\ q[1] = n /\ q[2] = m
  <2>1. q = Append(<<n>>, m)
    BY <1>2 DEF Visits
  <2>2. <<n>> \in Seq(Node) /\ Len(<<n>>) = 1 /\ <<n>>[1] = n
    OBVIOUS
  <2> HIDE DEF q
  <2> QED
    BY <2>1, <2>2, AppendProperties
<1>5. Advances(x, m)
  <2>1. Len(q) = 2 /\ q[1] = n /\ q[2] = m
    BY <1>4
  <2>2. \A i \in 2..2 : i = 2
    OBVIOUS
  <2> HIDE DEF x, q
  <2>3. Advances(x, m) <=> (x.kind = "FindSuccessorSend" /\ x.handler = "Connect" =>
            /\ q[1] = x.did
            /\ \A i \in 2..Len(q) : q[i] # x.did
            /\ \A i, j \in 2..Len(q) : i < j => Bias(q[j], x.did) < Bias(q[i], x.did))
    BY DEF Advances, q
  <2> QED
    BY <1>2, <2>1, <2>2, <2>3
<1>6. Elsewhere(x)
  BY <1>2 DEF Elsewhere
<1> QED
  BY <1>3, <1>5, <1>6 DEF Fits

\* A transport is registered and its peer joins the tables, if it is still up.
LEMMA OpenedInv ==
    ASSUME IInv, NEW m \in Node, NEW n \in Node, HandleOpened(m, n)
    PROVE  IInv'
<1> DEFINE q == chan[m][n]
           c == Taken(m, n)
           x == FindSuccessorSend(n, m, m, n, "Connect")
<1>1. QueuesOK(chan) /\ TypeOK /\ TablesInv /\ LinksInv
  BY DEF IInv
<1>2. /\ q # <<>> /\ q \in Seq(Message) /\ Head(q) \in Message /\ Head(q).kind = "Opened" /\ m # n
      /\ QueuesOK(c) /\ c[m][n] = Tail(q)
      /\ \A a, b \in Node : ~(a = m /\ b = n) => c[a][b] = chan[a][b]
  <2>1. q # <<>> /\ Head(q).kind = "Opened"
    BY DEF HandleOpened, Handles
  <2>2. q \in Seq(Message)
    BY <1>1 DEF QueuesOK
  <2> QED
    BY <1>1, <2>1, <2>2, TakenOK
<1>3. IsEvent(Head(q))
  BY <1>2 DEF IsEvent
<1>4. /\ Shows(c[m][n], "Opened") => Shows(q, "Opened")
      /\ Shows(c[m][n], "Closed") => Shows(q, "Closed")
      /\ Silent(c[m][n]) => Shows(q, "Opened")
  BY <1>2, <1>3, TailEvents
<1>5. /\ LinkInv(q, m \in transport[n], {m, n} \in up)
      /\ \A a, b \in Node : LinkInv(chan[a][b], a \in transport[b], {a, b} \in up)
  BY <1>1 DEF LinksInv
<1>6. \A b \in Node : TypeOK /\ b \in Did /\ finger[b] \in Fingers
        /\ successors[b] \in SUBSET (Did \ {b}) /\ Cardinality(successors[b]) <= SuccessorCap
  BY <1>1, TablesOf
<1>7. m \in Did /\ n \in Did
  BY NodesAreDids
<1>8. CASE Unbroken(Tail(q))
  <2> DEFINE d == [c EXCEPT ![n][m] = Append(@, x)]
             T == SuccessorJoin(n, successors[n], m)
  <2>1. /\ transport' = [transport EXCEPT ![n] = @ \cup {m}]
        /\ finger' = [finger EXCEPT ![n] = FingerJoin(n, @, m)]
        /\ successors' = [successors EXCEPT ![n] = T]
        /\ chan' = d
        /\ UNCHANGED <<fixIndex, predecessor, up, toDial, alive>>
    BY <1>8 DEF HandleOpened
  <2>2. x \in Message \ Event /\ Fits(x, m)
    BY <1>2, JoinLookup
  <2> HIDE DEF c, x
  <2>3. Gains(c, d, Message \ Event)
    BY <1>2, <2>2, PutGains
  <2> HIDE DEF d
  <2>4. QueuesOK(d) /\ \A a, b \in Node : Quieter(d[a][b], c[a][b])
    BY <1>2, <2>3, GainsOK, GainsQuieter
  <2>5. LinksInv'
    <3> SUFFICES ASSUME NEW a \in Node, NEW b \in Node
                 PROVE  LinkInv(d[a][b], a \in transport'[b], {a, b} \in up)
      BY <2>1 DEF LinksInv
    <3>1. CASE a = m /\ b = n
      <4>1. m \in transport'[n]
        BY <1>1, <2>1 DEF TypeOK
      <4>2. Quieter(d[m][n], c[m][n])
        BY <2>4
      <4>3. LinkInv(d[m][n], m \in transport'[n], {m, n} \in up)
        BY <1>4, <1>5, <4>1, <4>2, Zenon DEF LinkInv, Quieter
      <4> QED
        BY <3>1, <4>3
    <3>2. CASE ~(a = m /\ b = n)
      <4>1. a \in transport'[b] <=> a \in transport[b]
        BY <1>1, <2>1, <3>2 DEF TypeOK
      <4>2. Quieter(d[a][b], chan[a][b])
        BY <1>2, <2>4, <3>2
      <4> QED
        BY <1>5, <4>1, <4>2, Zenon DEF LinkInv, Quieter
    <3> QED
      BY <3>1, <3>2
  <2>6. /\ T \in SUBSET (Did \ {n}) /\ T \subseteq successors[n] \cup {m}
        /\ Cardinality(T) <= SuccessorCap
    BY <1>6, <1>7, SuccessorJoinSound
  <2> HIDE DEF T
  <2>7. FingerJoin(n, finger[n], m) \in Fingers
    BY <1>6, <1>7, FingerJoinType
  <2>8. TypeOK'
    BY <1>1, <2>1, <2>6, <2>7 DEF TypeOK
  <2>9. TablesInv'
    <3> SUFFICES ASSUME NEW b \in Node
                 PROVE  /\ b \notin transport'[b] /\ b \notin successors'[b]
                        /\ Cardinality(successors'[b]) <= SuccessorCap
                        /\ Cardinality(successors'[b] \ transport'[b]) <= 1
      BY DEF TablesInv
    <3>1. CASE b = n
      <4>1. transport'[n] = transport[n] \cup {m} /\ successors'[n] = T
        BY <1>1, <2>1 DEF TypeOK
      <4>2. successors[n] \ transport[n] \in SUBSET Did
            /\ Cardinality(successors[n] \ transport[n]) <= 1
        BY <1>1, <1>6 DEF TablesInv
      <4>3. successors'[n] \ transport'[n] \subseteq successors[n] \ transport[n]
        BY <2>6, <4>1
      <4>4. Cardinality(successors'[n] \ transport'[n]) <= 1
        BY <4>2, <4>3, FewerStrays
      <4>5. n \notin transport'[n]
        BY <1>1, <1>2, <4>1 DEF TablesInv
      <4> QED
        BY <2>6, <3>1, <4>1, <4>4, <4>5
    <3>2. CASE b # n
      <4>1. transport'[b] = transport[b] /\ successors'[b] = successors[b]
        BY <1>1, <2>1, <3>2 DEF TypeOK
      <4> QED
        BY <1>1, <4>1 DEF TablesInv
    <3> QED
      BY <3>1, <3>2
  <2> QED
    BY <2>1, <2>4, <2>5, <2>8, <2>9 DEF IInv
<1>9. CASE ~Unbroken(Tail(q))
  <2>1. chan' = c /\ UNCHANGED <<tables, transport, up, toDial, alive>>
    BY <1>9 DEF HandleOpened, Consumes, tables
  <2>2. ~Silent(c[m][n])
    <3>1. PICK i \in 1..Len(Tail(q)) : Tail(q)[i].kind = "Closed"
      BY <1>9 DEF Unbroken
    <3> QED
      BY <1>2, <3>1 DEF Silent, IsEvent
  <2> HIDE DEF c
  <2>3. LinksInv'
    <3> SUFFICES ASSUME NEW a \in Node, NEW b \in Node
                 PROVE  LinkInv(c[a][b], a \in transport[b], {a, b} \in up)
      BY <2>1 DEF LinksInv
    <3>1. CASE a = m /\ b = n
      <4>1. LinkInv(c[m][n], m \in transport[n], {m, n} \in up)
        BY <1>4, <1>5, <2>2, Zenon DEF LinkInv
      <4> QED
        BY <3>1, <4>1
    <3>2. CASE ~(a = m /\ b = n)
      BY <1>2, <1>5, <3>2
    <3> QED
      BY <3>1, <3>2
  <2>4. TypeOK' /\ TablesInv'
    BY <2>1, TablesKept
  <2> QED
    BY <1>2, <2>1, <2>3, <2>4 DEF IInv
<1> QED
  BY <1>8, <1>9

\* A set within one did has one element at most.
LEMMA OneAtMost ==
    ASSUME NEW x, NEW R, R \subseteq {x}
    PROVE  Cardinality(R) <= 1
<1>1. R = {} \/ R = {x}
  OBVIOUS
<1>2. Cardinality({}) = 0 /\ Cardinality({x}) = 1
  BY FS_EmptySet, FS_Singleton
<1> QED
  BY <1>1, <1>2

\* A closed transport leaves the registry, and its peer the tables; one finger
\* may refill the successors.
LEMMA ClosedInv ==
    ASSUME IInv, NEW m \in Node, NEW n \in Node, HandleClosed(m, n)
    PROVE  IInv'
<1> DEFINE q == chan[m][n]
           c == Taken(m, n)
<1>1. QueuesOK(chan) /\ TypeOK /\ TablesInv /\ LinksInv
  BY DEF IInv
<1>2. /\ q # <<>> /\ q \in Seq(Message) /\ Head(q) \in Message /\ Head(q).kind = "Closed" /\ m # n
      /\ QueuesOK(c) /\ c[m][n] = Tail(q)
      /\ \A a, b \in Node : ~(a = m /\ b = n) => c[a][b] = chan[a][b]
  <2>1. q # <<>> /\ Head(q).kind = "Closed"
    BY DEF HandleClosed, Handles
  <2>2. q \in Seq(Message)
    BY <1>1 DEF QueuesOK
  <2> QED
    BY <1>1, <2>1, <2>2, TakenOK
<1>3. IsEvent(Head(q))
  BY <1>2 DEF IsEvent
<1>4. /\ Shows(c[m][n], "Opened") => Shows(q, "Opened")
      /\ Shows(c[m][n], "Closed") => Shows(q, "Closed")
      /\ Silent(c[m][n]) => Shows(q, "Closed")
  BY <1>2, <1>3, TailEvents
<1>5. /\ LinkInv(q, m \in transport[n], {m, n} \in up)
      /\ \A a, b \in Node : LinkInv(chan[a][b], a \in transport[b], {a, b} \in up)
  BY <1>1 DEF LinksInv
<1>6. chan' = c /\ UNCHANGED <<fixIndex, up, toDial, alive>>
  BY DEF HandleClosed, Consumes
<1>7. LinkInv(c[m][n], FALSE, {m, n} \in up)
  <2> HIDE DEF c, q
  <2> QED
    BY <1>4, <1>5, Zenon DEF LinkInv
<1>8. CASE m \in transport[n]
  <2> DEFINE F == FingerRemove(finger[n], m)
             S == successors[n]
             T == SuccessorLeave(n, S, F, m)
  <2>1. /\ n \in Did /\ m \in Did /\ finger[n] \in Fingers /\ S \in SUBSET (Did \ {n})
        /\ Cardinality(S) <= SuccessorCap /\ transport[n] \in SUBSET Node
        /\ Cardinality(S \ transport[n]) <= 1 /\ n \notin transport[n]
    BY <1>1, TablesOf, NodesAreDids
  <2>2. F \in Fingers
    BY <2>1, FingerRemoveGone
  <2>3. /\ transport' = [transport EXCEPT ![n] = @ \ {m}]
        /\ predecessor' = [predecessor EXCEPT ![n] = IF @ = m THEN NoDid ELSE @]
        /\ finger' = [finger EXCEPT ![n] = F]
        /\ successors' = [successors EXCEPT ![n] = T]
    <3>1. /\ transport' = [transport EXCEPT ![n] = @ \ {m}]
          /\ predecessor' = [predecessor EXCEPT ![n] = IF @ = m THEN NoDid ELSE @]
          /\ finger' = [finger EXCEPT ![n] = F]
          /\ successors' = [successors EXCEPT ![n] = SuccessorLeave(n, @, finger'[n], m)]
      BY <1>8 DEF HandleClosed
    <3>2. finger'[n] = F
      BY <1>1, <3>1 DEF TypeOK
    <3> QED
      BY <3>1, <3>2
  <2> HIDE DEF F
  <2>4. /\ T \in SUBSET (Did \ {n})
        /\ Cardinality(T) <= SuccessorCap
        /\ T = S \ {m} \/ \E x \in Did : T \subseteq {x}
    BY <2>1, <2>2, SuccessorLeaveSound, Zenon
  <2> HIDE DEF T
  <2>5. TypeOK'
    BY <1>1, <1>6, <2>2, <2>3, <2>4 DEF TypeOK
  <2>6. TablesInv'
    <3> SUFFICES ASSUME NEW b \in Node
                 PROVE  /\ b \notin transport'[b] /\ b \notin successors'[b]
                        /\ Cardinality(successors'[b]) <= SuccessorCap
                        /\ Cardinality(successors'[b] \ transport'[b]) <= 1
      BY DEF TablesInv
    <3>1. CASE b = n
      <4>1. transport'[n] = transport[n] \ {m} /\ successors'[n] = T
        BY <1>1, <2>3 DEF TypeOK
      <4>2. CASE T = S \ {m}
        <5>1. S \ transport[n] \in SUBSET Did
          BY <2>1
        <5>2. T \ (transport[n] \ {m}) \subseteq S \ transport[n]
          BY <4>2
        <5> QED
          BY <2>1, <2>4, <3>1, <4>1, <5>1, <5>2, FewerStrays
      <4>3. CASE \E x \in Did : T \subseteq {x}
        <5>1. PICK x \in Did : T \ (transport[n] \ {m}) \subseteq {x}
          BY <4>3
        <5> QED
          BY <2>1, <2>4, <3>1, <4>1, <5>1, OneAtMost
      <4> QED
        BY <2>4, <4>2, <4>3
    <3>2. CASE b # n
      <4>1. transport'[b] = transport[b] /\ successors'[b] = successors[b]
        BY <1>1, <2>3, <3>2 DEF TypeOK
      <4> QED
        BY <1>1, <4>1 DEF TablesInv
    <3> QED
      BY <3>1, <3>2
  <2>7. LinksInv'
    <3> SUFFICES ASSUME NEW a \in Node, NEW b \in Node
                 PROVE  LinkInv(c[a][b], a \in transport'[b], {a, b} \in up)
      BY <1>6 DEF LinksInv
    <3>1. CASE a = m /\ b = n
      <4>1. (m \in transport'[n]) = FALSE
        BY <1>1, <2>3 DEF TypeOK
      <4> QED
        BY <1>7, <3>1, <4>1
    <3>2. CASE ~(a = m /\ b = n)
      <4>1. (a \in transport'[b]) = (a \in transport[b])
        BY <1>1, <2>3, <3>2 DEF TypeOK
      <4> QED
        BY <1>2, <1>5, <3>2, <4>1
    <3> QED
      BY <3>1, <3>2
  <2> QED
    BY <1>2, <1>6, <2>5, <2>6, <2>7 DEF IInv
<1>9. CASE m \notin transport[n]
  <2>1. UNCHANGED <<tables, transport, up, toDial, alive>>
    BY <1>6, <1>9 DEF HandleClosed, tables
  <2>2. TypeOK' /\ TablesInv'
    BY <2>1, TablesKept
  <2>3. LinksInv'
    <3> SUFFICES ASSUME NEW a \in Node, NEW b \in Node
                 PROVE  LinkInv(c[a][b], a \in transport[b], {a, b} \in up)
      BY <1>6, <2>1 DEF LinksInv
    <3>1. CASE a = m /\ b = n
      <4>1. (m \in transport[n]) = FALSE
        BY <1>9
      <4> QED
        BY <1>7, <3>1, <4>1
    <3>2. CASE ~(a = m /\ b = n)
      BY <1>2, <1>5, <3>2
    <3> QED
      BY <3>1, <3>2
  <2> QED
    BY <1>2, <1>6, <2>2, <2>3 DEF IInv
<1> QED
  BY <1>8, <1>9

\* A handler that leaves transports and links alone.
LEMMA HandlerKeeps ==
    ASSUME IInv, QueuesOK(chan'), \A a, b \in Node : Quieter(chan'[a][b], chan[a][b]),
           UNCHANGED <<transport, up>>, TypeOK', TablesInv'
    PROVE  IInv'
<1>1. LinksInv
  BY DEF IInv
<1>2. LinksInv'
  BY <1>1, LinksKept
<1> QED
  BY <1>2 DEF IInv

\* ... and the tables: it takes its message and may send another.
LEMMA MessageInv ==
    ASSUME IInv, NEW m \in Node, NEW n \in Node, NEW kind, kind \notin {"Opened", "Closed"},
           Handles(m, n, kind), UNCHANGED <<tables, transport, up, toDial, alive>>,
           \/ Consumes(m, n)
           \/ \E x \in Message \ Event :
                  Replies(m, n, x) /\ (x.relay.next \in transport[n] => Fits(x, x.relay.next))
    PROVE  IInv'
<1>1. TypeOK' /\ TablesInv'
  BY TablesKept
<1>2. QueuesOK(chan') /\ \A a, b \in Node : Quieter(chan'[a][b], chan[a][b])
  BY ConsumesKeeps, RepliesKeeps
<1> QED
  BY <1>1, <1>2, HandlerKeeps

\* A hop on the way to what is looked for comes nearer to it.
LEMMA HopAdvances ==
    ASSUME NEW x \in Question, NEW y \in Question, NEW n \in Node, NEW h \in Node,
           Advances(x, n), y.relay.path = Append(x.relay.path, n), y.did = x.did,
           y.handler = x.handler, h # n, Bias(n, h) < Bias(n, x.did)
    PROVE  Advances(y, h)
<1> DEFINE d == x.did
           q == Visits(x, n)
           p == Visits(y, h)
<1> SUFFICES ASSUME y.handler = "Connect"
             PROVE  /\ p[1] = d
                    /\ \A i \in 2..Len(p) : p[i] # d
                    /\ \A i, j \in 2..Len(p) : i < j => Bias(p[j], d) < Bias(p[i], d)
  BY DEF Advances
<1>1. /\ x.relay.path \in Seq(Node) /\ x.relay.path # <<>> /\ d \in Did
      /\ x.kind = "FindSuccessorSend" /\ x.handler = "Connect"
  BY DEF Question, Envelope
<1>2. q \in Seq(Node) /\ Len(q) \in Nat /\ Len(q) >= 2 /\ q[Len(q)] = n
  BY <1>1, EmptySeq, AppendProperties DEF Visits
<1>3. /\ q[1] = d
      /\ \A i \in 2..Len(q) : q[i] # d
      /\ \A i, j \in 2..Len(q) : i < j => Bias(q[j], d) < Bias(q[i], d)
  BY <1>1 DEF Advances
<1>4. p = Append(q, h)
  BY DEF Visits
<1> HIDE DEF p, q
<1>5. /\ Len(p) = Len(q) + 1 /\ p[Len(q) + 1] = h
      /\ \A i \in 1..Len(q) : p[i] = q[i]
  BY <1>2, <1>4, AppendProperties
<1>6. n \in Did /\ h \in Did
  BY NodesAreDids
<1>7. \A i \in 2..Len(q) : q[i] \in Did
  <2>1. \A i \in 2..Len(q) : q[i] \in Node
    BY <1>2
  <2> QED
    BY <2>1, NodesAreDids
<1>8. h # d /\ Bias(h, d) < Bias(n, d)
  <2>1. /\ Bias(n, h) \in Nat /\ Bias(n, d) \in Nat /\ Bias(h, d) \in Nat /\ Bias(n, h) # 0
    BY <1>1, <1>6, BiasNat, BiasZero
  <2>2. Bias(n, h) <= Bias(n, d)
    BY <2>1
  <2>3. Bias(h, d) = Bias(n, d) - Bias(n, h)
    BY <1>1, <1>6, <2>2, BiasBetween
  <2>4. Bias(h, d) # 0
    BY <2>1, <2>3
  <2>5. h # d
    BY <1>1, <1>6, <2>4, BiasZero
  <2> QED
    BY <2>1, <2>3, <2>5
<1>9. \A i \in 2..Len(q) : Bias(h, d) < Bias(q[i], d)
  <2> SUFFICES ASSUME NEW i \in 2..Len(q) PROVE Bias(h, d) < Bias(q[i], d)
    OBVIOUS
  <2>1. i = Len(q) \/ Bias(n, d) < Bias(q[i], d)
    BY <1>2, <1>3
  <2>2. Bias(h, d) \in Nat /\ Bias(n, d) \in Nat /\ Bias(q[i], d) \in Nat
    BY <1>1, <1>6, <1>7, BiasNat
  <2> QED
    BY <1>2, <1>8, <2>1, <2>2
<1>10. \A i \in 2..Len(p) : i = Len(q) + 1 \/ (i \in 2..Len(q) /\ p[i] = q[i])
  BY <1>2, <1>5
<1>11. p[1] = d
  BY <1>2, <1>3, <1>5
<1>12. ASSUME NEW i \in 2..Len(p) PROVE p[i] # d
  BY <1>3, <1>5, <1>8, <1>10
<1>13. ASSUME NEW i \in 2..Len(p), NEW j \in 2..Len(p), i < j
       PROVE  Bias(p[j], d) < Bias(p[i], d)
  <2>1. i \in 2..Len(q) /\ p[i] = q[i]
    BY <1>2, <1>5, <1>10, <1>13
  <2>2. CASE j = Len(q) + 1
    BY <1>5, <1>9, <2>1, <2>2
  <2>3. CASE j # Len(q) + 1
    BY <1>3, <1>10, <1>13, <2>1, <2>3
  <2> QED
    BY <2>2, <2>3
<1> QED
  BY <1>11, <1>12, <1>13

\* A lookup goes on to a peer that is nearer, or is answered.
LEMMA LookupOutcomeFits ==
    ASSUME TypeOK, TablesInv, NEW n \in Node, NEW msg \in Question, Fits(msg, n),
           NEW out \in LookupOutcome(n, msg)
    PROVE  /\ out \in Message \ Event
           /\ out.relay.next \in transport[n] => Fits(out, out.relay.next)
<1> DEFINE r == Lookup(n, msg.did)
           v == msg.relay
<1>1. /\ msg.did \in Did /\ v \in Envelope("SEND") /\ v.destination \in Did
      /\ msg.handler \in {"Connect", "FixFingerTable"}
      /\ msg = [kind |-> "FindSuccessorSend", did |-> msg.did, handler |-> msg.handler, relay |-> v]
  BY DEF Question, Envelope
<1>2. /\ r.did \in Did
      /\ r.action = "Remote" /\ r.did # n => Bias(n, r.did) < Bias(n, msg.did)
  BY <1>1, LookupType
<1>3. n \notin transport[n] /\ transport[n] \subseteq Node
  BY DEF TypeOK, TablesInv
<1>4. \/ /\ r.action = "Remote"
         /\ out = [msg EXCEPT !.relay = ResetDestination(RelaySend(@, n, r.did), r.did)]
      \/ out = [kind |-> "FindSuccessorReport", did |-> r.did, handler |-> msg.handler,
                relay |-> Report(RelaySend(v, n, NoDid))]
      \/ /\ msg.handler = "FixFingerTable"
         /\ out = [msg EXCEPT !.relay = RelaySend(@, n, v.destination)]
  BY DEF LookupOutcome, Strict
<1> HIDE DEF r
<1>5. CASE /\ r.action = "Remote"
           /\ out = [msg EXCEPT !.relay = ResetDestination(RelaySend(@, n, r.did), r.did)]
  <2> DEFINE s == RelaySend(v, n, r.did)
  <2>1. s \in Envelope("SEND") /\ s.path = Append(v.path, n) /\ s.next = r.did
    BY <1>1, <1>2, RelaySendType
  <2> HIDE DEF s
  <2>2. /\ ResetDestination(s, r.did) \in Envelope("SEND")
        /\ ResetDestination(s, r.did).path = s.path /\ ResetDestination(s, r.did).next = s.next
    BY <1>2, <2>1 DEF ResetDestination, Envelope
  <2>3. out = [kind |-> "FindSuccessorSend", did |-> msg.did, handler |-> msg.handler,
               relay |-> ResetDestination(s, r.did)]
    BY <1>1, <1>5 DEF s
  <2>4. /\ out \in Question /\ out.did = msg.did /\ out.handler = msg.handler
        /\ out.relay.path = Append(msg.relay.path, n) /\ out.relay.next = r.did
        /\ out.kind = "FindSuccessorSend"
    BY <1>1, <2>1, <2>2, <2>3 DEF Question
  <2>5. ASSUME r.did \in transport[n] PROVE Fits(out, r.did)
    <3>1. r.did \in Node /\ r.did # n
      BY <1>3, <2>5
    <3>2. Bias(n, r.did) < Bias(n, msg.did)
      BY <1>2, <1>5, <3>1
    <3>3. Advances(msg, n)
      BY DEF Fits
    <3>4. Advances(out, r.did)
      BY <2>4, <3>1, <3>2, <3>3, HopAdvances
    <3> QED
      BY <2>4, <3>4 DEF Fits, Elsewhere
  <2> QED
    BY <2>4, <2>5, Kinds DEF Message, Event, Opened, Closed
<1>6. CASE out = [kind |-> "FindSuccessorReport", did |-> r.did, handler |-> msg.handler,
                  relay |-> Report(RelaySend(v, n, NoDid))]
  <2>1. Report(RelaySend(v, n, NoDid)) \in Envelope("REPORT")
    BY <1>1, RelaySendType, ReportType
  <2>2. out \in Answer /\ out.kind = "FindSuccessorReport"
    BY <1>1, <1>2, <1>6, <2>1 DEF Answer
  <2> QED
    BY <2>2 DEF Message, Event, Opened, Closed, Fits, Advances, Elsewhere
<1>7. CASE /\ msg.handler = "FixFingerTable"
           /\ out = [msg EXCEPT !.relay = RelaySend(@, n, v.destination)]
  <2>1. RelaySend(v, n, v.destination) \in Envelope("SEND")
    BY <1>1, RelaySendType
  <2>2. out \in Question /\ out.kind = "FindSuccessorSend" /\ out.handler = "FixFingerTable"
    BY <1>1, <1>7, <2>1 DEF Question
  <2> QED
    BY <2>2 DEF Message, Event, Opened, Closed, Fits, Advances, Elsewhere
<1> QED
  BY <1>4, <1>5, <1>6, <1>7

\* A lookup is answered, forwarded or dropped.
LEMMA FindSuccessorSendInv ==
    ASSUME IInv, NEW m \in Node, NEW n \in Node, HandleFindSuccessorSend(m, n)
    PROVE  IInv'
<1> DEFINE msg == Head(chan[m][n])
<1>1. QueuesOK(chan) /\ TypeOK /\ TablesInv
  BY DEF IInv
<1>2. /\ Handles(m, n, "FindSuccessorSend")
      /\ UNCHANGED <<tables, transport, up, toDial, alive>>
  BY DEF HandleFindSuccessorSend
<1>3. msg \in Message /\ msg.kind = "FindSuccessorSend" /\ Fits(msg, n)
  BY <1>1, <1>2, HandledMessage
<1>4. msg \in Question
  BY <1>3, Kinds
<1>5. Consumes(m, n) \/ \E out \in LookupOutcome(n, msg) : Replies(m, n, out)
  BY DEF HandleFindSuccessorSend
<1> HIDE DEF msg
<1>6. \/ Consumes(m, n)
      \/ \E x \in Message \ Event :
             Replies(m, n, x) /\ (x.relay.next \in transport[n] => Fits(x, x.relay.next))
  BY <1>1, <1>3, <1>4, <1>5, LookupOutcomeFits
<1> QED
  BY <1>2, <1>6, MessageInv

\* What asks the way to a did is a message for it, unless the did is one's own.
LEMMA ConnectFits ==
    ASSUME TypeOK, TablesInv, NEW n \in Node, NEW d \in Did, d # n
    PROVE  /\ Connect(n, d) \in Message \ Event
           /\ \A h : Fits(Connect(n, d), h)
<1>1. Lookup(n, d).did \in Did
  BY LookupType
<1>2. /\ NewSend(n, Lookup(n, d).did, d) \in Envelope("SEND")
      /\ NewSend(n, Lookup(n, d).did, d).path = <<n>>
      /\ NewSend(n, Lookup(n, d).did, d).destination = d
  BY <1>1, NewSendType
<1>3. /\ Connect(n, d) \in Offer /\ Connect(n, d).kind = "ConnectNodeSend"
      /\ Connect(n, d).relay.path[1] # Connect(n, d).relay.destination
  BY <1>2 DEF Connect, Offer
<1> QED
  BY <1>3 DEF Message, Event, Opened, Closed, Fits, Advances, Elsewhere

\* A report keeps its form and path when it is passed on.
LEMMA PassedFits ==
    ASSUME NEW n \in Node, NEW msg \in Answer \cup Accept \cup Hint, CanRelay(msg.relay, n),
           Elsewhere(msg)
    PROVE  /\ Passed(n, msg) \in Message \ Event
           /\ \A h : Fits(Passed(n, msg), h)
<1> DEFINE v == RelayReport(msg.relay, n)
           p == [msg EXCEPT !.relay = v]
<1>1. msg.relay \in Envelope("REPORT")
  BY DEF Answer, Accept, Hint
<1>2. v \in Envelope("REPORT") /\ v.path = msg.relay.path
  BY <1>1, RelayReportType
<1>3. Passed(n, msg) = p
  BY DEF Passed
<1> HIDE DEF v
<1>4. CASE msg \in Answer
  <2>1. p \in Answer
    BY <1>2, <1>4 DEF Answer
  <2> QED
    BY <1>3, <2>1 DEF Answer, Message, Event, Opened, Closed, Fits, Advances, Elsewhere
<1>5. CASE msg \in Accept
  <2>1. p \in Accept /\ p.relay.path = msg.relay.path
    BY <1>2, <1>5 DEF Accept
  <2>2. msg.relay.path[1] # Last(msg.relay.path)
    BY <1>5 DEF Elsewhere, Accept
  <2> QED
    BY <1>3, <2>1, <2>2 DEF Accept, Message, Event, Opened, Closed, Fits, Advances, Elsewhere
<1>6. CASE msg \in Hint
  <2>1. p \in Hint
    BY <1>2, <1>6 DEF Hint
  <2> QED
    BY <1>3, <2>1 DEF Hint, Message, Event, Opened, Closed, Fits, Advances, Elsewhere
<1> QED
  BY <1>4, <1>5, <1>6

\* The answer of a lookup sets a finger or makes the node ask for a connection.
LEMMA FindSuccessorReportInv ==
    ASSUME IInv, NEW m \in Node, NEW n \in Node, HandleFindSuccessorReport(m, n)
    PROVE  IInv'
<1> DEFINE msg == Head(chan[m][n])
<1>1. QueuesOK(chan) /\ TypeOK /\ TablesInv
  BY DEF IInv
<1>2. /\ Handles(m, n, "FindSuccessorReport")
      /\ UNCHANGED <<fixIndex, successors, predecessor, transport, up, toDial, alive>>
      /\ finger' = finger \/ finger' = [finger EXCEPT ![n] = FingerSet(@, fixIndex[n], msg.did)]
  BY DEF HandleFindSuccessorReport
<1>3. msg \in Message /\ msg.kind = "FindSuccessorReport" /\ Fits(msg, n)
  BY <1>1, <1>2, HandledMessage
<1>4. msg \in Answer
  BY <1>3, Kinds
<1>5. msg.did \in Did /\ Elsewhere(msg)
  BY <1>3, <1>4 DEF Answer, Fits
<1>6. \/ Consumes(m, n)
      \/ CanRelay(msg.relay, n) /\ Replies(m, n, Passed(n, msg))
      \/ msg.did # n /\ Replies(m, n, Connect(n, msg.did))
  BY DEF HandleFindSuccessorReport, PassesOn
<1> HIDE DEF msg
<1>7. QueuesOK(chan') /\ \A a, b \in Node : Quieter(chan'[a][b], chan[a][b])
  <2>1. CASE Consumes(m, n)
    BY <1>2, <2>1, ConsumesKeeps
  <2>2. CASE CanRelay(msg.relay, n) /\ Replies(m, n, Passed(n, msg))
    <3>1. Passed(n, msg) \in Message \ Event /\ \A h : Fits(Passed(n, msg), h)
      BY <1>4, <1>5, <2>2, PassedFits
    <3> QED
      BY <1>2, <2>2, <3>1, RepliesKeeps
  <2>3. CASE msg.did # n /\ Replies(m, n, Connect(n, msg.did))
    <3>1. Connect(n, msg.did) \in Message \ Event /\ \A h : Fits(Connect(n, msg.did), h)
      BY <1>1, <1>5, <2>3, ConnectFits
    <3> QED
      BY <1>2, <2>3, <3>1, RepliesKeeps
  <2> QED
    BY <1>6, <2>1, <2>2, <2>3
<1>8. TypeOK'
  <2>1. FingerSet(finger[n], fixIndex[n], msg.did) \in Fingers
    BY <1>1, <1>5 DEF TypeOK, FingerSet, Fingers
  <2> QED
    BY <1>1, <1>2, <2>1 DEF TypeOK
<1>9. TablesInv'
  BY <1>1, <1>2 DEF TablesInv
<1> QED
  BY <1>2, <1>7, <1>8, <1>9, HandlerKeeps

\* A question for a connection goes on towards its peer or is answered there.
LEMMA ConnectNodeSendInv ==
    ASSUME IInv, NEW m \in Node, NEW n \in Node, HandleConnectNodeSend(m, n)
    PROVE  IInv'
<1> DEFINE msg == Head(chan[m][n])
           v   == msg.relay
           d   == v.destination
           on  == [msg EXCEPT !.relay = RelaySend(@, n, TowardsPeer(n, d))]
           acc == [kind |-> "ConnectNodeReport", relay |-> Report(RelaySend(v, n, NoDid))]
<1>1. QueuesOK(chan) /\ TypeOK /\ TablesInv
  BY DEF IInv
<1>2. /\ Handles(m, n, "ConnectNodeSend")
      /\ UNCHANGED <<tables, transport, up, toDial, alive>>
  BY DEF HandleConnectNodeSend
<1>3. msg \in Message /\ msg.kind = "ConnectNodeSend" /\ Fits(msg, n)
  BY <1>1, <1>2, HandledMessage
<1>4. msg \in Offer
  BY <1>3, Kinds
<1>5. v \in Envelope("SEND") /\ d \in Did /\ v.path[1] # d /\ v.path \in Seq(Node) /\ v.path # <<>>
  BY <1>3, <1>4 DEF Offer, Envelope, Fits, Elsewhere
<1>6. \/ Consumes(m, n)
      \/ Replies(m, n, on)
      \/ n = d /\ Replies(m, n, acc)
  BY DEF HandleConnectNodeSend
<1>7. on \in Message \ Event /\ \A h : Fits(on, h)
  <2>1. TowardsPeer(n, d) \in Did
    BY <1>1, <1>5, LookupType DEF TowardsPeer
  <2> DEFINE s == RelaySend(v, n, TowardsPeer(n, d))
  <2>2. /\ s \in Envelope("SEND") /\ s.path = Append(v.path, n) /\ s.destination = d
        /\ Append(v.path, n)[1] = v.path[1]
    <3> HIDE DEF v
    <3> DEFINE h == TowardsPeer(n, d)
    <3>1. h \in Did \cup {NoDid}
      BY <2>1
    <3> HIDE DEF h
    <3>2. /\ RelaySend(v, n, h) \in Envelope("SEND") /\ RelaySend(v, n, h).path = Append(v.path, n)
          /\ RelaySend(v, n, h).destination = v.destination /\ Append(v.path, n)[1] = v.path[1]
      BY <1>5, <3>1, RelaySendType
    <3> QED
      BY <3>2 DEF h
  <2>3. on = [msg EXCEPT !.relay = s]
    OBVIOUS
  <2> HIDE DEF s, on
  <2>4. /\ on \in Offer /\ on.kind = "ConnectNodeSend"
        /\ on.relay.path[1] # on.relay.destination
    BY <1>3, <1>4, <1>5, <2>2, <2>3 DEF Offer
  <2> QED
    BY <2>4 DEF Message, Event, Opened, Closed, Fits, Advances, Elsewhere
<1>8. ASSUME n = d PROVE acc \in Message \ Event /\ \A h : Fits(acc, h)
  <2> DEFINE s == RelaySend(v, n, NoDid)
  <2>1. /\ s \in Envelope("SEND") /\ s.path = Append(v.path, n)
        /\ Append(v.path, n)[1] = v.path[1]
    <3> HIDE DEF v
    <3>1. NoDid \in Did \cup {NoDid}
      OBVIOUS
    <3> QED
      BY <1>5, <3>1, RelaySendType
  <2>2. Last(Append(v.path, n)) = n
    <3> HIDE DEF v
    <3>1. /\ Len(Append(v.path, n)) = Len(v.path) + 1
          /\ Append(v.path, n)[Len(v.path) + 1] = n
      BY <1>5, AppendProperties
    <3> QED
      BY <3>1 DEF Last
  <2> HIDE DEF s
  <2>3. Report(s) \in Envelope("REPORT") /\ Report(s).path = s.path
    BY <2>1, ReportType
  <2>4. acc = [kind |-> "ConnectNodeReport", relay |-> Report(s)]
    BY DEF s
  <2> HIDE DEF acc, v
  <2>5. /\ acc \in Accept /\ acc.kind = "ConnectNodeReport"
        /\ acc.relay.path[1] # Last(acc.relay.path)
    BY <1>5, <1>8, <2>1, <2>2, <2>3, <2>4 DEF Accept
  <2> QED
    BY <2>5 DEF Message, Event, Opened, Closed, Fits, Advances, Elsewhere
<1> HIDE DEF on, acc, msg
<1>9. \/ Consumes(m, n)
      \/ \E x \in Message \ Event :
             Replies(m, n, x) /\ (x.relay.next \in transport[n] => Fits(x, x.relay.next))
  BY <1>6, <1>7, <1>8
<1> QED
  BY <1>2, <1>9, MessageInv

\* A notification may set the predecessor; the old one is reported.
LEMMA NotifyPredecessorSendInv ==
    ASSUME IInv, NEW m \in Node, NEW n \in Node, HandleNotifyPredecessorSend(m, n)
    PROVE  IInv'
<1> DEFINE msg == Head(chan[m][n])
           origin == Origin(msg.relay)
           hint == [kind |-> "NotifyPredecessorReport", did |-> predecessor[n],
                    relay |-> Report(RelaySend(msg.relay, n, NoDid))]
<1>1. QueuesOK(chan) /\ TypeOK /\ TablesInv
  BY DEF IInv
<1>2. /\ Handles(m, n, "NotifyPredecessorSend")
      /\ predecessor' = [predecessor EXCEPT ![n] = IF Nearer(n, @, origin) THEN origin ELSE @]
      /\ UNCHANGED <<finger, fixIndex, successors, transport, up, toDial, alive>>
      /\ Consumes(m, n) \/ (predecessor[n] # NoDid /\ Replies(m, n, hint))
  BY DEF HandleNotifyPredecessorSend
<1>3. msg \in Message /\ msg.kind = "NotifyPredecessorSend"
  BY <1>1, <1>2, HandledMessage
<1>4. msg.relay \in Envelope("SEND")
  BY <1>3, Kinds DEF Offer
<1>5. origin \in Did
  <2>1. msg.relay.path \in Seq(Node) /\ msg.relay.path # <<>>
    BY <1>4 DEF Envelope
  <2>2. origin \in Node
    BY <2>1, EmptySeq DEF Origin
  <2> QED
    BY <2>2, NodesAreDids
<1>6. ASSUME predecessor[n] # NoDid PROVE hint \in Message \ Event /\ \A h : Fits(hint, h)
  <2>1. predecessor[n] \in Did
    BY <1>1, <1>6 DEF TypeOK
  <2>2. Report(RelaySend(msg.relay, n, NoDid)) \in Envelope("REPORT")
    BY <1>4, RelaySendType, ReportType
  <2>3. hint \in Hint /\ hint.kind = "NotifyPredecessorReport"
    BY <2>1, <2>2 DEF Hint
  <2> HIDE DEF hint
  <2> QED
    BY <2>3 DEF Message, Event, Opened, Closed, Fits, Advances, Elsewhere
<1> HIDE DEF hint, origin
<1>7. QueuesOK(chan') /\ \A a, b \in Node : Quieter(chan'[a][b], chan[a][b])
  BY <1>2, <1>6, ConsumesKeeps, RepliesKeeps
<1>8. TypeOK'
  BY <1>1, <1>2, <1>5 DEF TypeOK
<1>9. TablesInv'
  BY <1>1, <1>2 DEF TablesInv
<1> QED
  BY <1>2, <1>7, <1>8, <1>9, HandlerKeeps

\* The did of a report becomes a successor only once it is a peer.
LEMMA NotifyPredecessorReportInv ==
    ASSUME IInv, NEW m \in Node, NEW n \in Node, HandleNotifyPredecessorReport(m, n)
    PROVE  IInv'
<1> DEFINE msg == Head(chan[m][n])
           d == msg.did
           S == successors[n]
           U == SuccessorUpdate(n, S, d)
<1>1. QueuesOK(chan) /\ TypeOK /\ TablesInv
  BY DEF IInv
<1>2. /\ Handles(m, n, "NotifyPredecessorReport")
      /\ UNCHANGED <<finger, fixIndex, predecessor, transport, up, toDial, alive>>
      /\ \/ d # n /\ Replies(m, n, Connect(n, d)) /\ UNCHANGED successors
         \/ /\ d \in transport[n] \cup {n}
            /\ Consumes(m, n) /\ successors' = [successors EXCEPT ![n] = U]
  BY DEF HandleNotifyPredecessorReport, CanSend
<1>3. msg \in Message /\ msg.kind = "NotifyPredecessorReport"
  BY <1>1, <1>2, HandledMessage
<1>4. d \in Did
  BY <1>3, Kinds DEF Hint
<1>5. /\ n \in Did /\ S \in SUBSET (Did \ {n}) /\ Cardinality(S) <= SuccessorCap
      /\ transport[n] \in SUBSET Node /\ Cardinality(S \ transport[n]) <= 1
  BY <1>1, TablesOf
<1>6. U \in SUBSET (Did \ {n}) /\ U \subseteq S \cup {d} /\ Cardinality(U) <= SuccessorCap
  BY <1>4, <1>5, UpdateSound
<1>7. d \in transport[n] \cup {n} => U \ transport[n] \subseteq S \ transport[n]
  BY <1>6
<1> HIDE DEF U
<1>8. QueuesOK(chan') /\ \A a, b \in Node : Quieter(chan'[a][b], chan[a][b])
  <2>1. CASE d # n /\ Replies(m, n, Connect(n, d))
    <3>1. Connect(n, d) \in Message \ Event /\ \A h : Fits(Connect(n, d), h)
      BY <1>1, <1>4, <2>1, ConnectFits
    <3> QED
      BY <1>2, <2>1, <3>1, RepliesKeeps
  <2>2. CASE Consumes(m, n)
    BY <1>2, <2>2, ConsumesKeeps
  <2> QED
    BY <1>2, <2>1, <2>2
<1>9. TypeOK'
  BY <1>1, <1>2, <1>6 DEF TypeOK
<1>10. TablesInv'
  <2>1. CASE UNCHANGED successors
    BY <1>1, <1>2, <2>1 DEF TablesInv
  <2>2. CASE d \in transport[n] \cup {n} /\ successors' = [successors EXCEPT ![n] = U]
    <3>1. Cardinality(U \ transport[n]) <= 1
      <4>1. S \ transport[n] \in SUBSET Did
        BY <1>5
      <4> QED
        BY <1>5, <1>7, <2>2, <4>1, FewerStrays
    <3>2. \A b \in Node : successors'[b] = IF b = n THEN U ELSE successors[b]
      BY <1>1, <2>2 DEF TypeOK
    <3> QED
      BY <1>1, <1>2, <1>6, <3>1, <3>2 DEF TablesInv
  <2> QED
    BY <1>2, <2>1, <2>2
<1> QED
  BY <1>2, <1>8, <1>9, <1>10, HandlerKeeps

\* Two transports connect.
LEMMA OpenLinkInv ==
    ASSUME IInv, NEW c, QueuesOK(c), \A a, b \in Node : Quieter(c[a][b], chan[a][b]),
           NEW x \in Node, NEW y \in Node, x # y,
           chan' = OpenLink(c, {x, y}), up' = up \cup {{x, y}},
           UNCHANGED transport, TypeOK', TablesInv'
    PROVE  IInv'
<1> DEFINE l == {x, y}
           d == OpenLink(c, l)
<1>1. LinksInv /\ c \in [Node -> [Node -> Seq(Message)]]
  BY DEF IInv, QueuesOK
<1>2. \A a, b \in Node : d[a][b] = IF {a, b} = l THEN Append(c[a][b], Opened) ELSE c[a][b]
  BY DEF OpenLink
<1>3. d = [a \in Node |-> [b \in Node |-> d[a][b]]]
  BY DEF OpenLink
<1>4. Opened \in Message /\ Opened \in Event /\ \A b : Fits(Opened, b)
  BY DEF Message, Event, Opened, Fits, Advances, Elsewhere
<1>5. QueuesOK(d)
  <2>1. \A a, b \in Node : {a, b} = l => a # b
    OBVIOUS
  <2> HIDE DEF d, l
  <2>2. Gains(c, d, Message)
    BY <1>2, <1>3, <1>4, <2>1 DEF Gains
  <2> QED
    BY <2>2, GainsOK
<1>6. chan' = d /\ up' = up \cup {l}
  OBVIOUS
<1> HIDE DEF d, l
<1>7. LinksInv'
  <2> SUFFICES ASSUME NEW a \in Node, NEW b \in Node
               PROVE  LinkInv(d[a][b], a \in transport[b], {a, b} \in up')
    BY <1>6 DEF LinksInv
  <2>1. CASE {a, b} = l
    <3>1. d[a][b] = Append(c[a][b], Opened) /\ c[a][b] \in Seq(Message)
      <4>1. d[a][b] = Append(c[a][b], Opened)
        BY <1>2, <2>1
      <4>2. c[a][b] \in Seq(Message)
        BY <1>1
      <4> QED
        BY <4>1, <4>2
    <3>2. ~Silent(d[a][b]) /\ ~Shows(d[a][b], "Closed")
      <4>1. Opened.kind # "Closed"
        BY DEF Opened
      <4> QED
        BY <1>4, <3>1, <4>1, EventShows
    <3>3. {a, b} \in up'
      BY <1>6, <2>1
    <3> QED
      BY <3>2, <3>3 DEF LinkInv
  <2>2. CASE {a, b} # l
    <3>1. d[a][b] = c[a][b] /\ ({a, b} \in up' <=> {a, b} \in up)
      BY <1>2, <1>6, <2>2
    <3>2. LinkInv(chan[a][b], a \in transport[b], {a, b} \in up) /\ Quieter(c[a][b], chan[a][b])
      BY <1>1 DEF LinksInv
    <3> QED
      BY <3>1, <3>2, Zenon DEF LinkInv, Quieter
  <2> QED
    BY <2>1, <2>2
<1> QED
  BY <1>5, <1>6, <1>7 DEF IInv

\* The answer of a peer passes on, or connects its transport with the origin's.
LEMMA ConnectNodeReportInv ==
    ASSUME IInv, NEW m \in Node, NEW n \in Node, HandleConnectNodeReport(m, n)
    PROVE  IInv'
<1> DEFINE msg == Head(chan[m][n])
           v == msg.relay
           peer == Last(v.path)
           c == Taken(m, n)
<1>1. QueuesOK(chan) /\ TypeOK /\ TablesInv
  BY DEF IInv
<1>2. /\ Handles(m, n, "ConnectNodeReport")
      /\ UNCHANGED <<tables, transport, toDial, alive>>
  BY DEF HandleConnectNodeReport
<1>3. msg \in Message /\ msg.kind = "ConnectNodeReport" /\ Fits(msg, n) /\ chan[m][n] # <<>>
  BY <1>1, <1>2, HandledMessage
<1>4. msg \in Accept
  BY <1>3, Kinds
<1>5. v \in Envelope("REPORT") /\ v.path \in Seq(Node) /\ v.path # <<>> /\ v.path[1] # peer
  BY <1>3, <1>4 DEF Accept, Envelope, Fits, Elsewhere
<1>6. CASE ComesHome(n, msg) /\ {n, peer} \subseteq alive
  <2>1. CanRelay(v, n) /\ RelayReport(v, n).next = NoDid
    BY <1>6 DEF ComesHome
  <2>2. n = v.path[1]
    BY <1>5, <2>1, RelayReportType
  <2>3. peer \in Node /\ n # peer
    BY <1>5, <2>2, EmptySeq DEF Last
  <2>4. chan' = OpenLink(c, {n, peer}) /\ up' = up \cup {{n, peer}}
    <3>1. ~PassesOn(n, msg)
      BY <1>6 DEF ComesHome, PassesOn
    <3> QED
      BY <1>6, <3>1 DEF HandleConnectNodeReport
  <2>5. QueuesOK(c) /\ \A a, b \in Node : Quieter(c[a][b], chan[a][b])
    <3>1. ~IsEvent(Head(chan[m][n]))
      BY <1>3 DEF IsEvent
    <3> QED
      BY <1>1, <1>3, <3>1, TakenOK, TakenQuieter
  <2>6. TypeOK' /\ TablesInv'
    BY <1>1, <1>2, <2>3, <2>4 DEF TypeOK, TablesInv, tables
  <2> HIDE DEF c, peer
  <2> QED
    BY <1>2, <2>3, <2>4, <2>5, <2>6, OpenLinkInv
<1>7. CASE ~(ComesHome(n, msg) /\ {n, peer} \subseteq alive)
  <2>1. /\ UNCHANGED up
        /\ \/ Consumes(m, n)
           \/ CanRelay(v, n) /\ Replies(m, n, Passed(n, msg))
    BY <1>7 DEF HandleConnectNodeReport, PassesOn
  <2>2. CASE Consumes(m, n)
    BY <1>2, <2>1, <2>2, MessageInv
  <2>3. CASE CanRelay(v, n) /\ Replies(m, n, Passed(n, msg))
    <3>1. Passed(n, msg) \in Message \ Event /\ \A h : Fits(Passed(n, msg), h)
      BY <1>3, <1>4, <2>3, PassedFits DEF Fits
    <3> HIDE DEF msg
    <3> QED
      BY <1>2, <2>1, <2>3, <3>1, MessageInv
  <2> QED
    BY <2>1, <2>2, <2>3
<1> QED
  BY <1>6, <1>7

\* A link of the seed is dialled by hand.
LEMMA DialInv ==
    ASSUME IInv, NEW l \in Seed, Dial(l)
    PROVE  IInv'
<1>1. PICK x \in Node, y \in Node : l = {x, y}
  BY NetAssumption
<1>2. x # y
  <2>1. ASSUME x = y PROVE FALSE
    <3>1. l = {x}
      BY <1>1, <2>1
    <3>2. Cardinality(l) = 1
      BY <3>1, FS_Singleton
    <3> QED
      BY <3>2, NetAssumption
  <2> QED
    BY <2>1
<1>3. /\ chan' = OpenLink(chan, {x, y}) /\ up' = up \cup {{x, y}}
      /\ UNCHANGED <<tables, transport, alive>> /\ toDial' \subseteq toDial
  BY <1>1 DEF Dial
<1>4. QueuesOK(chan) /\ \A a, b \in Node : Quieter(chan[a][b], chan[a][b])
  BY QuieterSame DEF IInv
<1>5. TypeOK' /\ TablesInv'
  BY <1>3 DEF IInv, TypeOK, TablesInv, tables
<1> QED
  BY <1>2, <1>3, <1>4, <1>5, OpenLinkInv

\* Every nonempty set of numbers up to a bound has a greatest, which Max returns.
LEMMA MaxUpTo ==
    ASSUME NEW N \in Nat, NEW I \in SUBSET (0..N), I # {}
    PROVE  Max(I) \in I
<1> DEFINE T == {N - i : i \in I}
<1>1. T \in SUBSET Nat /\ T # {}
  <2>1. \A i \in I : N - i \in Nat
    OBVIOUS
  <2> QED
    BY <2>1
<1>2. PICK t \in T : \A y \in T : t <= y
  BY <1>1, LeastNat
<1>3. PICK k \in I : t = N - k
  BY <1>2
<1>4. \A i \in I : k >= i
  <2>1. ASSUME NEW i \in I PROVE k >= i
    <3>1. N - k <= N - i
      BY <1>2, <1>3, <2>1
    <3> QED
      BY <3>1, <2>1
  <2> QED
    BY <2>1
<1> QED
  BY <1>4 DEF Max

\* What is left of a queue of a broken link ends with the news of it.
LEMMA CutOK ==
    ASSUME NEW n \in Node, NEW q \in Seq(Message), NEW k \in 0..Len(q),
           \A i \in 1..Len(q) : Fits(q[i], n)
    PROVE  /\ Cut(q, k) \in Seq(Message)
           /\ \A i \in 1..Len(Cut(q, k)) : Fits(Cut(q, k)[i], n)
           /\ ~Silent(Cut(q, k)) /\ ~Shows(Cut(q, k), "Opened")
<1> DEFINE I == Events(q) \cup {k}
           top == Max(I)
           p == SubSeq(q, 1, top)
           r == Append(p, Closed)
<1>1. Len(q) \in Nat
  OBVIOUS
<1>2. top \in 0..Len(q)
  <2>1. I \in SUBSET (0..Len(q)) /\ I # {}
    BY <1>1 DEF Events
  <2> HIDE DEF I
  <2> QED
    BY <1>1, <2>1, MaxUpTo
<1> HIDE DEF top
<1>3. /\ p \in Seq(Message) /\ Len(p) = top
      /\ \A i \in 1..top : p[i] = q[i]
  <2>1. top \in Int /\ \A i \in 1..top : i \in 1..Len(q) /\ q[i] \in Message
    BY <1>1, <1>2
  <2>2. /\ SubSeq(q, 1, top) \in Seq(Message)
        /\ Len(SubSeq(q, 1, top)) = IF 1 <= top THEN top - 1 + 1 ELSE 0
        /\ \A i \in 1..(top - 1 + 1) : SubSeq(q, 1, top)[i] = q[1 + i - 1]
    BY <2>1, SubSeqProperties
  <2>3. Len(p) = top
    BY <1>2, <2>2
  <2>4. \A i \in 1..top : p[i] = q[i]
    BY <1>2, <2>2
  <2> QED
    BY <2>2, <2>3, <2>4
<1>4. Closed \in Message /\ Closed \in Event /\ Fits(Closed, n) /\ Closed.kind = "Closed"
  BY DEF Message, Event, Closed, Fits, Advances, Elsewhere
<1>5. Cut(q, k) = r
  BY DEF Cut, top
<1> HIDE DEF p
<1>6. /\ r \in Seq(Message) /\ Len(r) = top + 1 /\ r[top + 1] = Closed
      /\ \A i \in 1..top : r[i] = p[i]
  BY <1>3, <1>4, AppendProperties
<1>7. ~Silent(r) /\ ~Shows(r, "Opened")
  BY <1>3, <1>4, EventShows
<1> HIDE DEF r
<1>8. ASSUME NEW i \in 1..Len(r) PROVE Fits(r[i], n)
  <2>1. CASE i = top + 1
    BY <1>4, <1>6, <2>1
  <2>2. CASE i # top + 1
    <3>1. i \in 1..top /\ i \in 1..Len(q)
      BY <1>1, <1>2, <1>6, <2>2
    <3> QED
      BY <1>3, <1>6, <3>1
  <2> QED
    BY <2>1, <2>2
<1> QED
  BY <1>5, <1>6, <1>7, <1>8

\* Links of two nodes may break after any part of their queues has arrived.
Breakable(L, arrived) ==
    /\ \A n \in Node : {n} \notin L
    /\ \A m, n \in Node : {m, n} \in L => arrived[n] \in Nat

\* The links L are known to have broken, and nothing else has changed.
Parted(c, L) ==
    /\ \A m, n \in Node : {m, n} \in L => ~Silent(c[m][n]) /\ ~Shows(c[m][n], "Opened")
    /\ \A m, n \in Node : {m, n} \notin L => c[m][n] = chan[m][n]

\* What breaking links does to the queues.
LEMMA BrokenOK ==
    ASSUME QueuesOK(chan), NEW L, NEW arrived, Breakable(L, arrived)
    PROVE  QueuesOK(Broken(L, arrived)) /\ Parted(Broken(L, arrived), L)
<1> DEFINE c == Broken(L, arrived)
<1>1. ASSUME NEW m \in Node, NEW n \in Node
      PROVE  /\ c[m][n] \in Seq(Message)
             /\ m = n => c[m][n] = <<>>
             /\ \A i \in 1..Len(c[m][n]) : Fits(c[m][n][i], n)
             /\ {m, n} \in L => ~Silent(c[m][n]) /\ ~Shows(c[m][n], "Opened")
             /\ {m, n} \notin L => c[m][n] = chan[m][n]
  <2> DEFINE q == chan[m][n]
             k == IF arrived[n] <= Len(q) THEN arrived[n] ELSE Len(q)
  <2>1. \A i \in 1..Len(q) : Fits(q[i], n)
    BY DEF QueuesOK
  <2>2. c[m][n] = IF {m, n} \in L THEN Cut(q, k) ELSE q
    BY DEF Broken
  <2> HIDE DEF c
  <2>3. q \in Seq(Message)
    BY DEF QueuesOK
  <2>4. CASE {m, n} \in L
    <3>1. k \in 0..Len(q)
      BY <2>3, <2>4 DEF Breakable
    <3> HIDE DEF k, q
    <3>2. /\ Cut(q, k) \in Seq(Message)
          /\ \A i \in 1..Len(Cut(q, k)) : Fits(Cut(q, k)[i], n)
          /\ ~Silent(Cut(q, k)) /\ ~Shows(Cut(q, k), "Opened")
      BY <2>1, <2>3, <3>1, CutOK
    <3>3. m # n
      BY <2>4 DEF Breakable
    <3> QED
      BY <2>2, <2>4, <3>2, <3>3
  <2>5. CASE {m, n} \notin L
    <3>1. m = n => q = <<>>
      BY DEF QueuesOK
    <3> QED
      BY <2>1, <2>2, <2>3, <2>5, <3>1
  <2> QED
    BY <2>4, <2>5
<1>2. c = [m \in Node |-> [n \in Node |-> c[m][n]]]
  BY DEF Broken
<1> HIDE DEF c
<1>3. c \in [Node -> [Node -> Seq(Message)]]
  <2>1. [m \in Node |-> [n \in Node |-> c[m][n]]] \in [Node -> [Node -> Seq(Message)]]
    BY <1>1
  <2> QED
    BY <1>2, <2>1
<1>4. QueuesOK(c) /\ Parted(c, L)
  BY <1>1, <1>3 DEF QueuesOK, Parted
<1> QED
  BY <1>4 DEF c

\* No node has a link to itself.
LEMMA NoSelfLink ==
    ASSUME IInv, NEW n \in Node
    PROVE  {n} \notin up
<1>1. chan[n][n] = <<>> /\ n \notin transport[n]
      /\ LinkInv(chan[n][n], n \in transport[n], {n, n} \in up)
  BY DEF IInv, QueuesOK, LinksInv, TablesInv
<1>2. Silent(chan[n][n])
  BY <1>1 DEF Silent
<1>3. {n, n} = {n}
  OBVIOUS
<1> QED
  BY <1>1, <1>2, <1>3 DEF LinkInv

\* A link breaks.
LEMMA LinkFailsInv ==
    ASSUME IInv, NEW l \in up, LinkFails(l)
    PROVE  IInv'
<1>1. PICK arrived \in [l -> 0..Longest] : chan' = Broken({l}, arrived)
  BY DEF LinkFails
<1>2. up' = up \ {l} /\ UNCHANGED <<tables, transport, toDial, alive>>
  BY DEF LinkFails
<1>3. \A n \in Node : {n} \notin {l}
  BY NoSelfLink
<1>4. \A m, n \in Node : {m, n} \in {l} => arrived[n] \in Nat
  <2>1. \A k \in l : arrived[k] \in Nat
    BY <1>1, SMT
  <2> QED
    BY <2>1
<1>5. QueuesOK(chan) /\ LinksInv /\ TypeOK
  BY DEF IInv
<1>6. QueuesOK(chan') /\ Parted(chan', {l})
  <2>1. Breakable({l}, arrived)
    BY <1>3, <1>4 DEF Breakable
  <2> QED
    BY <1>1, <1>5, <2>1, BrokenOK
<1>7. LinksInv'
  <2> SUFFICES ASSUME NEW a \in Node, NEW b \in Node
               PROVE  LinkInv(chan'[a][b], a \in transport[b], {a, b} \in up')
    BY <1>2 DEF LinksInv
  <2>1. CASE {a, b} = l
    BY <1>2, <1>6, <2>1 DEF LinkInv, Parted
  <2>2. CASE {a, b} # l
    <3>1. ({a, b} \in up') = ({a, b} \in up)
      BY <1>2, <2>2
    <3> QED
      BY <1>5, <1>6, <2>2, <3>1 DEF LinksInv, Parted
  <2> QED
    BY <2>1, <2>2
<1>8. TypeOK' /\ TablesInv'
  BY <1>2 DEF IInv, TypeOK, TablesInv, tables
<1> QED
  BY <1>6, <1>7, <1>8 DEF IInv

\* A node crashes.
LEMMA CrashInv ==
    ASSUME IInv, NEW x \in Node, Crash(x)
    PROVE  IInv'
<1> DEFINE L == up \ up'
<1>1. PICK arrived \in [Node -> 0..Longest] :
          chan' = [m \in Node |-> [n \in Node |->
                      IF n = x THEN <<>> ELSE Broken(L, arrived)[m][n]]]
  BY DEF Crash
<1>2. /\ up' = {l \in up : x \notin l}
      /\ alive' = alive \ {x}
      /\ finger' = [finger EXCEPT ![x] = NoFingers]
      /\ fixIndex' = [fixIndex EXCEPT ![x] = 0]
      /\ successors' = [successors EXCEPT ![x] = {}]
      /\ predecessor' = [predecessor EXCEPT ![x] = NoDid]
      /\ transport' = [transport EXCEPT ![x] = {}]
      /\ UNCHANGED toDial
  BY DEF Crash
<1> DEFINE c == Broken(L, arrived)
<1>3. QueuesOK(chan) /\ LinksInv /\ TypeOK /\ TablesInv
  BY DEF IInv
<1>4. \A n \in Node : {n} \notin L
  BY NoSelfLink
<1>5. \A m, n \in Node : {m, n} \in L => arrived[n] \in Nat
  BY <1>1, SMT
<1> HIDE DEF L
<1>6. QueuesOK(c) /\ Parted(c, L)
  <2>1. Breakable(L, arrived)
    BY <1>4, <1>5 DEF Breakable
  <2> QED
    BY <1>3, <2>1, BrokenOK
<1> HIDE DEF c
<1>7. \A m, n \in Node : chan'[m][n] = IF n = x THEN <<>> ELSE c[m][n]
  BY <1>1 DEF c
<1>8. QueuesOK(chan')
  <2>1. ASSUME NEW m \in Node, NEW n \in Node
        PROVE  /\ chan'[m][n] \in Seq(Message)
               /\ m = n => chan'[m][n] = <<>>
               /\ \A i \in 1..Len(chan'[m][n]) : Fits(chan'[m][n][i], n)
    <3>1. CASE n = x
      <4>1. chan'[m][n] = <<>>
        BY <1>7, <3>1
      <4>2. chan'[m][n] \in Seq(Message) /\ Len(chan'[m][n]) = 0
        BY <4>1
      <4>3. 1..Len(chan'[m][n]) = {}
        BY <4>2
      <4> QED
        BY <4>1, <4>2, <4>3
    <3>2. CASE n # x
      <4>1. chan'[m][n] = c[m][n]
        BY <1>7, <3>2
      <4> QED
        BY <1>6, <4>1 DEF QueuesOK
    <3> QED
      BY <3>1, <3>2
  <2>2. chan' = [m \in Node |-> [n \in Node |-> chan'[m][n]]]
    BY <1>1
  <2>3. [m \in Node |-> [n \in Node |-> chan'[m][n]]] \in [Node -> [Node -> Seq(Message)]]
    BY <2>1
  <2>4. chan' \in [Node -> [Node -> Seq(Message)]]
    BY <2>2, <2>3
  <2> QED
    BY <2>1, <2>4 DEF QueuesOK
<1>9. LinksInv'
  <2> SUFFICES ASSUME NEW a \in Node, NEW b \in Node
               PROVE  LinkInv(chan'[a][b], a \in transport'[b], {a, b} \in up')
    BY DEF LinksInv
  <2>1. CASE b = x
    <3>1. chan'[a][b] = <<>> /\ a \notin transport'[b] /\ {a, b} \notin up'
      BY <1>2, <1>3, <1>7, <2>1 DEF TypeOK
    <3>2. 1..Len(chan'[a][b]) = {}
      BY <3>1
    <3> QED
      BY <3>1, <3>2 DEF LinkInv, Shows, Silent
  <2>2. CASE b # x /\ {a, b} \in L
    <3>1. chan'[a][b] = c[a][b] /\ {a, b} \notin up'
      BY <1>7, <2>2 DEF L
    <3> QED
      BY <1>6, <2>2, <3>1 DEF LinkInv, Parted
  <2>3. CASE b # x /\ {a, b} \notin L
    <3>1. chan'[a][b] = chan[a][b]
      BY <1>6, <1>7, <2>3 DEF Parted
    <3>2. ({a, b} \in up') = ({a, b} \in up)
      <4>1. {a, b} \in up => {a, b} \in up'
        BY <2>3 DEF L
      <4>2. {a, b} \in up' => {a, b} \in up
        BY <1>2
      <4> QED
        BY <4>1, <4>2
    <3>3. (a \in transport'[b]) = (a \in transport[b])
      BY <1>2, <1>3, <2>3 DEF TypeOK
    <3> QED
      BY <1>3, <3>1, <3>2, <3>3 DEF LinksInv
  <2> QED
    BY <2>1, <2>2, <2>3
<1>10. TypeOK'
  <2>1. 0 \in Slot /\ NoFingers \in Fingers
    BY RingAssumption DEF Slot, NoFingers, Fingers
  <2> QED
    BY <1>2, <1>3, <2>1 DEF TypeOK
<1>11. TablesInv'
  <2> SUFFICES ASSUME NEW n \in Node
               PROVE  /\ n \notin transport'[n] /\ n \notin successors'[n]
                      /\ Cardinality(successors'[n]) <= SuccessorCap
                      /\ Cardinality(successors'[n] \ transport'[n]) <= 1
    BY DEF TablesInv
  <2>1. CASE n = x
    <3>1. transport'[n] = {} /\ successors'[n] = {} /\ successors'[n] \ transport'[n] = {}
      BY <1>2, <1>3, <2>1 DEF TypeOK
    <3>2. Cardinality({}) = 0 /\ SuccessorCap \in Nat
      BY FS_EmptySet, TablesAssumption
    <3> QED
      BY <3>1, <3>2
  <2>2. CASE n # x
    <3>1. transport'[n] = transport[n] /\ successors'[n] = successors[n]
      BY <1>2, <1>3, <2>2 DEF TypeOK
    <3> QED
      BY <1>3, <3>1 DEF TablesInv
  <2> QED
    BY <2>1, <2>2
<1> QED
  BY <1>8, <1>9, <1>10, <1>11 DEF IInv

\* The stabilizer notifies successors and fixes one finger.
LEMMA StabilizeInv ==
    ASSUME IInv, NEW n \in Node, Stabilize(n)
    PROVE  IInv'
<1> DEFINE i == NextFix(fixIndex[n])
           target == Plus(n, Pow[i])
           r == Lookup(n, target)
           c == [chan EXCEPT ![n] = [m \in Node |->
                    IF m \in Notified(n) THEN Append(@[m], Notify(n, m)) ELSE @[m]]]
           x == FindSuccessorSend(n, r.did, n, target, "FixFingerTable")
<1>1. QueuesOK(chan) /\ TypeOK /\ TablesInv
  BY DEF IInv
<1>2. n \in Did /\ fixIndex[n] \in Slot
  BY <1>1, TablesOf
<1>3. i \in Slot
  <2>1. Bits \in Nat \ {0}
    BY RingAssumption
  <2> QED
    BY <1>2, <2>1 DEF NextFix, Slot
<1>4. target \in Did
  BY <1>2, <1>3, PowDid, PlusType
<1>5. r.did \in Did
  BY <1>1, <1>4, LookupType
<1>6. /\ fixIndex' = [fixIndex EXCEPT ![n] = i]
      /\ \/ finger' = [finger EXCEPT ![n] = FingerSet(@, i, r.did)] /\ chan' = c
         \/ UNCHANGED finger /\ chan' = Sent(c, n, x)
      /\ UNCHANGED <<successors, predecessor, transport, up, toDial, alive>>
  BY DEF Stabilize
<1> HIDE DEF i, target, r
<1>7. \A m \in Notified(n) : m \in transport[n] /\ m \in Node /\ m # n
  <2> SUFFICES ASSUME NEW m \in Notified(n) PROVE m \in transport[n] /\ m \in Node /\ m # n
    OBVIOUS
  <2>1. m \in successors[n] /\ (Bias(n, m) <= Bias(n, m) => CanSend(n, m))
    BY DEF Notified
  <2>2. m \in Did
    BY <1>1, <2>1, TablesOf
  <2>3. Bias(n, m) <= Bias(n, m)
    BY <1>2, <2>2, BiasNat
  <2>4. m \in transport[n]
    BY <2>1, <2>3 DEF CanSend
  <2> QED
    BY <1>1, <2>4 DEF TypeOK, TablesInv
<1>8. \A m \in Node : Notify(n, m) \in Message \ Event /\ Fits(Notify(n, m), m)
  <2> SUFFICES ASSUME NEW m \in Node
               PROVE  Notify(n, m) \in Message \ Event /\ Fits(Notify(n, m), m)
    OBVIOUS
  <2>1. NewSend(n, m, n) \in Envelope("SEND")
    BY <1>2, NodesAreDids, NewSendType
  <2>2. Notify(n, m) \in Offer /\ Notify(n, m).kind = "NotifyPredecessorSend"
    BY <2>1 DEF Notify, Offer
  <2> QED
    BY <2>2 DEF Message, Event, Opened, Closed, Fits, Advances, Elsewhere
<1>9. Gains(chan, c, Message \ Event)
  <2>1. chan \in [Node -> [Node -> Seq(Message)]]
    BY <1>1 DEF QueuesOK
  <2>2. c = [a \in Node |-> [b \in Node |->
                IF a = n /\ b \in Notified(n) THEN Append(chan[a][b], Notify(n, b)) ELSE chan[a][b]]]
    BY <2>1
  <2> HIDE DEF c
  <2>3. \A a, b \in Node :
            c[a][b] = IF a = n /\ b \in Notified(n)
                      THEN Append(chan[a][b], Notify(n, b)) ELSE chan[a][b]
    BY <2>2
  <2>4. c = [a \in Node |-> [b \in Node |-> c[a][b]]]
    BY <2>2
  <2>5. ASSUME NEW a \in Node, NEW b \in Node, c[a][b] # chan[a][b]
        PROVE  a # b /\ \E y \in Message \ Event : Fits(y, b) /\ c[a][b] = Append(chan[a][b], y)
    <3>1. a = n /\ b \in Notified(n) /\ c[a][b] = Append(chan[a][b], Notify(n, b))
      BY <2>3, <2>5
    <3> QED
      BY <1>7, <1>8, <3>1
  <2> QED
    BY <2>4, <2>5 DEF Gains
<1> HIDE DEF c
<1>10. QueuesOK(c) /\ \A a, b \in Node : Quieter(c[a][b], chan[a][b])
  BY <1>1, <1>9, GainsOK, GainsQuieter
<1>11. x \in Message \ Event /\ \A h : Fits(x, h)
  <2>1. NewSend(n, r.did, n) \in Envelope("SEND")
    BY <1>2, <1>5, NewSendType
  <2>2. x \in Question /\ x.kind = "FindSuccessorSend" /\ x.handler = "FixFingerTable"
    BY <1>4, <2>1 DEF FindSuccessorSend, Question
  <2> HIDE DEF x
  <2> QED
    BY <2>2 DEF Message, Event, Opened, Closed, Fits, Advances, Elsewhere
<1> HIDE DEF x
<1>12. QueuesOK(chan') /\ \A a, b \in Node : Quieter(chan'[a][b], chan[a][b])
  <2>1. CASE chan' = c
    BY <1>10, <2>1
  <2>2. CASE chan' = Sent(c, n, x)
    <3>1. Gains(c, chan', Message \ Event)
      BY <1>1, <1>10, <1>11, <2>2, SentGains
    <3>2. QueuesOK(chan') /\ \A a, b \in Node : Quieter(chan'[a][b], c[a][b])
      BY <1>10, <3>1, GainsOK, GainsQuieter
    <3> QED
      BY <1>10, <3>2, QuieterTransitive
  <2> QED
    BY <1>6, <2>1, <2>2
<1>13. TypeOK'
  <2>1. FingerSet(finger[n], i, r.did) \in Fingers
    BY <1>1, <1>5 DEF TypeOK, FingerSet, Fingers
  <2> QED
    BY <1>1, <1>3, <1>6, <2>1 DEF TypeOK
<1>14. TablesInv'
  BY <1>1, <1>6 DEF TablesInv
<1> QED
  BY <1>6, <1>12, <1>13, <1>14, HandlerKeeps

-----------------------------------------------------------------------------
(* The theorems *)

\* Every step keeps the invariant: links open and break, nodes crash, and
\* messages are handled in any order the links allow.
LEMMA StepInv == IInv /\ [Next]_vars => IInv'
<1> SUFFICES ASSUME IInv, [Next]_vars PROVE IInv'
  OBVIOUS
<1>1. ASSUME NEW l \in Seed, Dial(l) PROVE IInv'
  BY <1>1, DialInv
<1>2. ASSUME NEW m \in Node, NEW n \in Node, Handle(m, n) PROVE IInv'
  BY <1>2, OpenedInv, ClosedInv, FindSuccessorSendInv, FindSuccessorReportInv,
     ConnectNodeSendInv, ConnectNodeReportInv, NotifyPredecessorSendInv,
     NotifyPredecessorReportInv DEF Handle
<1>3. ASSUME NEW n \in Node, Stabilize(n) PROVE IInv'
  BY <1>3, StabilizeInv
<1>4. ASSUME NEW l \in up, LinkFails(l) PROVE IInv'
  BY <1>4, LinkFailsInv
<1>5. ASSUME NEW x \in Node, Crash(x) PROVE IInv'
  BY <1>5, CrashInv
<1>6. CASE UNCHANGED vars
  <2>1. TypeOK' /\ TablesInv'
    BY <1>6, TablesKept DEF vars
  <2>2. QueuesOK(chan') /\ LinksInv'
    BY <1>6 DEF IInv, QueuesOK, LinksInv, vars
  <2> QED
    BY <2>1, <2>2 DEF IInv
<1> QED
  BY <1>1, <1>2, <1>3, <1>4, <1>5, <1>6 DEF Next

\* What holds of the tables, the transports, the links and all that is under
\* way in the overlay: the handlers of connection.rs and stabilization.rs keep
\* it together with the transport events of swarm.rs.
THEOREM OverlayInvariant == Spec => []IInv
<1>1. Init => IInv
  BY InitInv
<1>2. IInv /\ [Next]_vars => IInv'
  BY StepInv
<1> QED
  BY <1>1, <1>2, PTL DEF Spec

\* Event::RegisterTransport and Event::ConnectClosed leave no half-open link:
\* once everything is handled, both ends hold a transport of every link there is.
THEOREM LinksAgreeAlways == Spec => []LinksAgree
<1>1. IInv => LinksAgree
  <2> SUFFICES ASSUME IInv, \A m, n \in Node : chan[m][n] = <<>>, NEW n \in Node
               PROVE  transport[n] = {m \in Node : {n, m} \in up}
    BY DEF LinksAgree
  <2>1. ASSUME NEW m \in Node PROVE m \in transport[n] <=> {n, m} \in up
    <3>1. chan[m][n] = <<>>
      OBVIOUS
    <3>2. Silent(chan[m][n])
      BY <3>1 DEF Silent
    <3>3. LinkInv(chan[m][n], m \in transport[n], {m, n} \in up)
      BY DEF IInv, LinksInv
    <3>4. {m, n} = {n, m}
      OBVIOUS
    <3> QED
      BY <3>2, <3>3, <3>4 DEF LinkInv
  <2>2. transport[n] \subseteq Node
    BY DEF IInv, TypeOK
  <2> QED
    BY <2>1, <2>2
<1> QED
  BY <1>1, OverlayInvariant, PTL

\* The successor sequence of PeerRing follows the transports of Swarm: at most
\* one entry, the one PeerRing::remove refilled it with, has no transport.
THEOREM OneStraySuccessorAlways == Spec => []OneStraySuccessor
<1>1. IInv => OneStraySuccessor
  BY DEF IInv, TablesInv, OneStraySuccessor
<1> QED
  BY <1>1, OverlayInvariant, PTL

\* The lookup of a joining node goes round the ring once: no node handles it
\* twice and the node it is for never does, whatever the tables on its way hold.
THEOREM JoinLookupsAdvanceAlways == Spec => []JoinLookupsAdvance
<1>1. IInv => JoinLookupsAdvance
  <2> SUFFICES ASSUME IInv, NEW m \in Node, NEW n \in Node, NEW i \in 1..Len(chan[m][n]),
                      chan[m][n][i].kind = "FindSuccessorSend", ~Strict(chan[m][n][i])
               PROVE  /\ IsInjective(Append(chan[m][n][i].relay.path, n))
                      /\ chan[m][n][i].did = Origin(chan[m][n][i].relay)
    BY DEF JoinLookupsAdvance
  <2> DEFINE x == chan[m][n][i]
             q == Visits(x, n)
             d == x.did
  <2>1. chan[m][n] \in Seq(Message) /\ Fits(x, n)
    BY DEF IInv, QueuesOK
  <2>2. x \in Message
    BY <2>1
  <2>3. x \in Question
    BY <2>2, Kinds
  <2>4. x.kind = "FindSuccessorSend" /\ x.handler = "Connect"
    BY <2>3 DEF Question, Strict
  <2> HIDE DEF x
  <2>5. /\ d \in Did /\ x.relay.path \in Seq(Node) /\ x.relay.path # <<>>
    BY <2>3 DEF Question, Envelope
  <2>6. /\ q \in Seq(Node) /\ Len(q) \in Nat /\ q[1] = x.relay.path[1]
    BY <2>5, EmptySeq, AppendProperties DEF Visits
  <2>7. /\ q[1] = d
        /\ \A j \in 2..Len(q) : q[j] # d
        /\ \A j, k \in 2..Len(q) : j < k => Bias(q[k], d) < Bias(q[j], d)
    BY <2>1, <2>4 DEF Fits, Advances
  <2> HIDE DEF q
  <2>8. ASSUME NEW j \in 1..Len(q), NEW k \in 1..Len(q), j < k PROVE q[j] # q[k]
    <3>1. k \in 2..Len(q) /\ q[k] \in Node
      BY <2>6, <2>8
    <3>2. CASE j = 1
      BY <2>7, <3>1, <3>2
    <3>3. CASE j # 1
      <4>1. j \in 2..Len(q)
        BY <2>6, <3>3
      <4>2. Bias(q[k], d) < Bias(q[j], d) /\ Bias(q[k], d) \in Nat
        BY <2>5, <2>7, <2>8, <3>1, <4>1, BiasNat, NodesAreDids
      <4> QED
        BY <4>2
    <3> QED
      BY <3>2, <3>3
  <2>9. DOMAIN q = 1..Len(q)
    BY <2>6
  <2>10. IsInjective(q)
    <3> SUFFICES ASSUME NEW j \in 1..Len(q), NEW k \in 1..Len(q), j # k PROVE q[j] # q[k]
      BY <2>9 DEF IsInjective
    <3>1. j < k \/ k < j
      BY <2>6
    <3> QED
      BY <2>8, <3>1
  <2> QED
    BY <2>6, <2>7, <2>10 DEF x, q, Visits, Origin
<1> QED
  BY <1>1, OverlayInvariant, PTL

\* A node that does not crash gives its predecessor up for a nearer one or when
\* the predecessor's transport goes (PeerRing::notify, PeerRing::remove).
THEOREM PredecessorOnlyGetsNearerAlways == Spec => PredecessorOnlyGetsNearer
<1> DEFINE Ok(n) == predecessor'[n] # predecessor[n] /\ predecessor[n] # NoDid =>
                        \/ predecessor[n] \notin transport'[n]
                        \/ predecessor'[n] # NoDid /\ Bias(n, predecessor'[n]) > Bias(n, predecessor[n])
<1>1. ASSUME IInv, Next, NEW n \in alive' PROVE Ok(n)
  <2>1. TypeOK /\ QueuesOK(chan) /\ TypeOK'
    BY <1>1, StepInv DEF IInv
  <2>2. n \in Node
    BY <2>1 DEF TypeOK
  <2>3. ASSUME NEW l \in Seed, Dial(l) PROVE Ok(n)
    BY <2>3 DEF Dial, tables
  <2>4. ASSUME NEW a \in Node, NEW b \in Node, HandleClosed(a, b) PROVE Ok(n)
    <3>1. CASE a \in transport[b]
      <4>1. /\ predecessor' = [predecessor EXCEPT ![b] = IF @ = a THEN NoDid ELSE @]
            /\ transport' = [transport EXCEPT ![b] = @ \ {a}]
        BY <2>4, <3>1 DEF HandleClosed
      <4> QED
        BY <2>1, <2>2, <4>1 DEF TypeOK
    <3>2. CASE a \notin transport[b]
      BY <2>4, <3>2 DEF HandleClosed
    <3> QED
      BY <3>1, <3>2
  <2>5. ASSUME NEW a \in Node, NEW b \in Node, HandleNotifyPredecessorSend(a, b) PROVE Ok(n)
    <3> DEFINE origin == Origin(Head(chan[a][b]).relay)
    <3>1. predecessor' = [predecessor EXCEPT ![b] = IF Nearer(b, @, origin) THEN origin ELSE @]
      BY <2>5 DEF HandleNotifyPredecessorSend
    <3>2. predecessor' \in [Node -> Did \cup {NoDid}] /\ predecessor \in [Node -> Did \cup {NoDid}]
      BY <2>1 DEF TypeOK
    <3> HIDE DEF origin
    <3> SUFFICES ASSUME predecessor'[n] # predecessor[n], predecessor[n] # NoDid
                 PROVE  /\ predecessor'[n] # NoDid
                        /\ Bias(n, predecessor'[n]) > Bias(n, predecessor[n])
      OBVIOUS
    <3>3. n = b /\ predecessor'[n] = origin /\ Bias(n, predecessor[n]) < Bias(n, origin)
      BY <2>2, <3>1, <3>2 DEF Nearer
    <3>4. origin # NoDid
      <4>1. Head(chan[a][b]) \in Message /\ Head(chan[a][b]).kind = "NotifyPredecessorSend"
        BY <2>1, <2>5, HandledMessage DEF HandleNotifyPredecessorSend
      <4>2. Head(chan[a][b]).relay \in Envelope("SEND")
        BY <4>1, Kinds DEF Offer
      <4>3. /\ Head(chan[a][b]).relay.path \in Seq(Node)
            /\ Head(chan[a][b]).relay.path # <<>>
        BY <4>2 DEF Envelope
      <4>4. origin \in Node
        BY <4>3, EmptySeq DEF origin, Origin
      <4> QED
        BY <4>4, NodesAreDids
    <3>5. Bias(n, predecessor[n]) \in Nat /\ Bias(n, origin) \in Nat
      BY <2>2, <3>2, <3>3, <3>4, NodesAreDids, BiasNat
    <3> QED
      BY <3>3, <3>4, <3>5
  <2>6. ASSUME NEW a \in Node, NEW b \in Node, Handle(a, b), UNCHANGED predecessor PROVE Ok(n)
    BY <2>6
  <2>7. ASSUME NEW a \in Node, NEW b \in Node, Handle(a, b) PROVE Ok(n)
    <3>1. CASE HandleClosed(a, b)
      BY <2>4, <3>1
    <3>2. CASE HandleNotifyPredecessorSend(a, b)
      BY <2>5, <3>2
    <3>3. CASE ~HandleClosed(a, b) /\ ~HandleNotifyPredecessorSend(a, b)
      <4>1. UNCHANGED predecessor
        BY <2>7, <3>3 DEF Handle, HandleOpened, HandleFindSuccessorSend,
           HandleFindSuccessorReport, HandleConnectNodeSend, HandleConnectNodeReport,
           HandleNotifyPredecessorReport, tables
      <4> QED
        BY <2>6, <2>7, <4>1
    <3> QED
      BY <3>1, <3>2, <3>3
  <2>8. ASSUME NEW a \in Node, Stabilize(a) PROVE Ok(n)
    BY <2>8 DEF Stabilize
  <2>9. ASSUME NEW l \in up, LinkFails(l) PROVE Ok(n)
    BY <2>9 DEF LinkFails, tables
  <2>10. ASSUME NEW x \in Node, Crash(x) PROVE Ok(n)
    <3>1. n # x /\ predecessor' = [predecessor EXCEPT ![x] = NoDid]
      BY <1>1, <2>10 DEF Crash
    <3> QED
      BY <2>1, <2>2, <3>1 DEF TypeOK
  <2> QED
    BY <1>1, <2>3, <2>7, <2>8, <2>9, <2>10 DEF Next
<1>2. IInv /\ [Next]_vars => [\A n \in alive' : Ok(n)]_vars
  BY <1>1
<1> QED
  BY <1>2, OverlayInvariant, PTL DEF Spec, PredecessorOnlyGetsNearer
=============================================================================
