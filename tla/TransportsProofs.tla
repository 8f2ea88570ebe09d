-------------------------- MODULE TransportsProofs --------------------------
(* One connection: what its handshake info and its chunks come to.           *)
EXTENDS IceTransport, FiniteSetTheorems, SequenceTheorems, TLAPS

-----------------------------------------------------------------------------
(* One connection: IceTransport *)

AllCandidates == UNION {Candidate[e] : e \in End}

HandshakeType ==
    /\ step \in [End -> {"new", "started", "refused", "gathering", "described",
                         "registering", "registered"}]
    /\ gathering \in [End -> {"not yet", "on", "over"}]
    /\ pending_candidates \in [End -> SUBSET AllCandidates]
    /\ info \in [End -> {NoInfo} \cup {Info(c) : c \in SUBSET AllCandidates}]

\* Once the info is made the end does not gather again: the offerer goes on to
\* take the answer, the answerer is through.
InfoInv ==
    \A e \in End : info[e].made =>
        /\ gathering[e] = "over"
        /\ info[e].candidates = pending_candidates[e]
        /\ step[e] \in IF e = "offerer" THEN {"described", "registering", "registered"}
                                        ELSE {"described"}

HandshakeInv == HandshakeType /\ InfoInv

\* Steps outside the handshake, and those of it that add remote candidates.
LEMMA HandshakeKept ==
    ASSUME HandshakeInv, UNCHANGED <<step, gathering, pending_candidates, info>>
    PROVE  HandshakeInv'
  BY DEF HandshakeInv, HandshakeType, InfoInv

\* Steps of an end whose info is not made yet, and stays so.
LEMMA BeforeInfo ==
    ASSUME HandshakeInv, NEW e \in End, HandshakeType', info' = info, ~info[e].made,
           \A f \in End \ {e} : /\ step'[f] = step[f] /\ gathering'[f] = gathering[f]
                                /\ pending_candidates'[f] = pending_candidates[f]
    PROVE  HandshakeInv'
  BY DEF HandshakeInv, InfoInv

LEMMA StartKeepsInfo ==
    ASSUME HandshakeInv, NEW e \in End, Starts(e)
    PROVE  HandshakeInv'
<1>1. PICK next \in {"started", "refused"} : step' = [step EXCEPT ![e] = next]
  BY DEF Starts, Only
<1>2. HandshakeType'
  BY <1>1 DEF Starts, HandshakeInv, HandshakeType
<1>3. ~info[e].made
  BY DEF Starts, HandshakeInv, InfoInv
<1>4. QED
  BY <1>1, <1>2, <1>3, BeforeInfo DEF Starts, HandshakeInv, HandshakeType

LEMMA DescribeKeepsInfo ==
    ASSUME HandshakeInv, NEW e \in End, MayOffer(e) \/ MayAnswer(e), Describes(e)
    PROVE  HandshakeInv'
<1>1. HandshakeType'
  BY DEF Describes, Only, HandshakeInv, HandshakeType
<1>2. ~info[e].made
  BY DEF MayOffer, MayAnswer, HandshakeInv, InfoInv
<1>3. QED
  BY <1>1, <1>2, BeforeInfo DEF Describes, Only, HandshakeInv, HandshakeType

LEMMA GatherKeepsInfo ==
    ASSUME HandshakeInv, NEW e \in End, Gathers(e)
    PROVE  HandshakeInv'
<1>1. PICK c \in Candidate[e] :
          pending_candidates' = [pending_candidates EXCEPT ![e] = @ \cup {c}]
  BY DEF Gathers
<1>2. c \in AllCandidates
  BY <1>1 DEF AllCandidates
<1>3. HandshakeType'
  BY <1>1, <1>2 DEF Gathers, HandshakeInv, HandshakeType
<1>4. ~info[e].made
  BY DEF Gathers, HandshakeInv, InfoInv
<1>5. QED
  BY <1>1, <1>3, <1>4, BeforeInfo DEF Gathers, HandshakeInv, HandshakeType

LEMMA GatheringEndKeepsInfo ==
    ASSUME HandshakeInv, NEW e \in End, GatheringEnds(e)
    PROVE  HandshakeInv'
<1>1. HandshakeType'
  BY DEF GatheringEnds, HandshakeInv, HandshakeType
<1>2. ~info[e].made
  BY DEF GatheringEnds, HandshakeInv, InfoInv
<1>3. QED
  BY <1>1, <1>2, BeforeInfo DEF GatheringEnds, HandshakeInv, HandshakeType

\* The info is made of what was gathered, after the gathering is over.
LEMMA InformKeepsInfo ==
    ASSUME HandshakeInv, NEW e \in End, Informs(e)
    PROVE  HandshakeInv'
<1> DEFINE found == pending_candidates[e]
<1>1. /\ step' = [step EXCEPT ![e] = IF found = {} THEN "refused" ELSE "described"]
      /\ info' = [info EXCEPT ![e] = IF found = {} THEN info[e] ELSE Info(found)]
      /\ UNCHANGED <<gathering, pending_candidates>>
      /\ step[e] = "gathering" /\ gathering[e] = "over"
  BY DEF Informs, Only, Gathered
<1>2. found \in SUBSET AllCandidates /\ step[e] # "described" /\ ~info[e].made
  BY <1>1 DEF HandshakeInv, HandshakeType, InfoInv
<1>3. HandshakeType'
  BY <1>1, <1>2 DEF HandshakeInv, HandshakeType
<1>4. CASE found = {}
  <2>1. info' = info
    BY <1>1, <1>4 DEF HandshakeInv, HandshakeType
  <2>2. QED
    BY <1>1, <1>2, <1>3, <2>1, BeforeInfo DEF HandshakeInv, HandshakeType
<1>5. CASE found # {}
  <2>1. info'[e] = Info(found) /\ step'[e] = "described"
    BY <1>1, <1>5 DEF HandshakeInv, HandshakeType
  <2>2. \A f \in End \ {e} : info'[f] = info[f] /\ step'[f] = step[f]
    BY <1>1 DEF HandshakeInv, HandshakeType
  <2>3. Info(found).candidates = found
    BY DEF Info
  <2>4. InfoInv'
    BY <1>1, <2>1, <2>2, <2>3 DEF HandshakeInv, InfoInv
  <2>5. QED
    BY <1>3, <2>4 DEF HandshakeInv
<1>6. QED
  BY <1>4, <1>5

\* The answer is taken by an offerer that made its info, the offer by an
\* answerer that has not.
LEMMA RegisterKeepsInfo ==
    ASSUME HandshakeInv, NEW e \in End, SetRemoteDescription(e) \/ RegisterRemoteInfo(e)
    PROVE  HandshakeInv'
<1>1. PICK next \in {"registering", "registered"} : step' = [step EXCEPT ![e] = next]
  BY DEF SetRemoteDescription, RegisterRemoteInfo, Only
<1>2. UNCHANGED <<gathering, pending_candidates, info>>
  BY DEF SetRemoteDescription, RegisterRemoteInfo
<1>3. HandshakeType'
  BY <1>1, <1>2 DEF HandshakeInv, HandshakeType
<1>4. info[e].made => e = "offerer"
  BY DEF SetRemoteDescription, RegisterRemoteInfo, HandshakeInv, InfoInv
<1>5. /\ step'[e] \in {"registering", "registered"}
      /\ \A f \in End \ {e} : step'[f] = step[f]
  BY <1>1 DEF HandshakeInv, HandshakeType
<1>6. InfoInv'
  BY <1>2, <1>4, <1>5 DEF HandshakeInv, InfoInv
<1>7. QED
  BY <1>3, <1>6 DEF HandshakeInv

LEMMA HandshakeKeepsInfo ==
    ASSUME HandshakeInv, NEW e \in End, Handshake(e)
    PROVE  HandshakeInv'
<1>1. CASE AddIceCandidate(e)
  BY <1>1, HandshakeKept DEF AddIceCandidate
<1>2. CASE NativeHandshake(e)
  BY <1>2, StartKeepsInfo, DescribeKeepsInfo, GatherKeepsInfo, InformKeepsInfo
     DEF NativeHandshake, NativeStart, NativeGetOffer, NativeGetAnswer, NativeOnIceCandidate,
         NativeGetHandshakeInfo
<1>3. CASE BrowserHandshake(e)
  BY <1>3, StartKeepsInfo, DescribeKeepsInfo, GatherKeepsInfo, InformKeepsInfo
     DEF BrowserHandshake, BrowserStart, BrowserGetOffer, BrowserGetAnswer, BrowserOnIceCandidate,
         BrowserGetHandshakeInfo
<1>4. QED
  BY <1>1, <1>2, <1>3, GatheringEndKeepsInfo, RegisterKeepsInfo DEF Handshake

\* The steps of the connection, its callbacks and its tasks.
LEMMA OthersKeepHandshake ==
    ASSUME \/ \E e \in End : \/ Connection(e) \/ ConnectionFails(e) \/ Close(e)
                             \/ OnStateChange(e) \/ OnOpen(e) \/ OnMessage(e)
           \/ \E t \in Task : Calls(t) \/ Runs(t)
           \/ UNCHANGED iceVars
    PROVE  UNCHANGED handshake
<1>1. ASSUME NEW e \in End, Connection(e) \/ ConnectionFails(e) \/ Close(e)
      PROVE  UNCHANGED handshake
  BY <1>1 DEF Connection, IceConnects, Secured, ChannelOpens, ConnectionFails, Close, Ends
<1>2. ASSUME NEW e \in End, OnStateChange(e) \/ OnOpen(e) \/ OnMessage(e)
      PROVE  UNCHANGED handshake
  BY <1>2 DEF OnStateChange, NativeOnIceConnectionStateChange, BrowserOnIceConnectionStateChange,
     StateChanges, OnOpen, OnMessage, NativeOnMessage, BrowserOnMessage, Receives
<1>3. ASSUME NEW t \in Task, Calls(t)
      PROVE  UNCHANGED handshake
  BY <1>3 DEF Calls, FindsOpen, NativeChecksOpen, BrowserWaitsForOpen,
     NativeConnectSuccessPromise, BrowserConnectSuccessPromise
<1>4. ASSUME NEW t \in Task, Runs(t)
      PROVE  UNCHANGED handshake
  BY <1>4 DEF Runs, NativeRegistersOpen, Poll, NativeSends, BrowserSends, Puts, SendFails
<1>5. QED
  BY <1>1, <1>2, <1>3, <1>4 DEF iceVars

\* What get_offer and get_answer send the other end is all the candidates
\* there will be: for any candidates, tasks and breaks, and ends of any build
\* (transports/default and transports/wasm).
THEOREM InfoCompleteAlways == IceSpec => []InfoComplete
<1>1. IceInit => HandshakeInv
  <2> SUFFICES ASSUME IceInit PROVE HandshakeInv
    OBVIOUS
  <2>1. \A e \in End : info[e] = NoInfo /\ ~info[e].made
    BY DEF IceInit, NoInfo
  <2>2. HandshakeType
    BY <2>1 DEF IceInit, HandshakeType
  <2>3. QED
    BY <2>1, <2>2 DEF HandshakeInv, InfoInv
<1>2. HandshakeInv /\ [IceNext]_iceVars => HandshakeInv'
  BY HandshakeKeepsInfo, OthersKeepHandshake, HandshakeKept DEF IceNext, handshake
<1>3. HandshakeInv => InfoComplete
  BY DEF HandshakeInv, InfoInv, InfoComplete
<1>4. QED
  BY <1>1, <1>2, <1>3, PTL DEF IceSpec

\* The chunks on the channel from e, and those its tasks have put there.
OnWire(e) == {wire[e][k] : k \in DOMAIN wire[e]}
PutOn(e) == {c \in Task \X (1 .. Chunks) : EndOf[c[1]] = e /\ c[2] <= sent[c[1]]}

ChunkType == Task \X (1 .. Chunks)
WaitType == {"idle", "checked", "registered", "polled", "woken", "broken",
             "ready", "sent", "returned"}

DataType ==
    /\ build \in [End -> {"native", "browser"}]
    /\ wait \in [Task -> WaitType]
    /\ sent \in [Task -> 0 .. Chunks]
    /\ wire \in [End -> Seq(ChunkType)]
    /\ chunks \in [End -> SUBSET ChunkType]
    /\ messages \in [End -> SUBSET Task]
    /\ breaks \in Nat

\* How much a task has sent shows in where it is: a browser sends all at once.
WaitInv ==
    \A t \in Task :
        /\ wait[t] = "sent" => sent[t] = Chunks
        /\ wait[t] = "ready" => sent[t] < Chunks /\ (InBrowser(EndOf[t]) => sent[t] = 0)
        /\ wait[t] \notin {"ready", "sent", "returned"} => sent[t] = 0

WireInv == \A e \in End : OnWire(e) \subseteq PutOn(e)

\* The chunk list of an end holds chunks from the other, and no whole message.
HeldInv ==
    \A e \in End : /\ chunks[e] \subseteq PutOn(Other(e))
                   /\ \A t \in Task : ~Complete(chunks[e], t)

MessageInv == \A e \in End : \A t \in messages[e] : sent[t] = Chunks

\* Where a chunk may be once it was put on the channel.
Somewhere(t, i) ==
    \/ t \in messages[Other(EndOf[t])]
    \/ <<t, i>> \in chunks[Other(EndOf[t])]
    \/ <<t, i>> \in OnWire(EndOf[t])

LossInv == breaks = 0 => \A t \in Task : \A i \in 1 .. sent[t] : Somewhere(t, i)

DataInv == DataType /\ WaitInv /\ WireInv /\ HeldInv /\ MessageInv /\ LossInv

LEMMA BothEnds ==
    /\ \A e \in End : Other(e) \in End /\ Other(e) # e /\ Other(Other(e)) = e
    /\ \A e, f \in End : f # e => f = Other(e)
<1>1. Other("offerer") = "answerer" /\ Other("answerer") = "offerer"
  BY DEF Other, End
<1>2. QED
  BY <1>1 DEF End

\* The moves a wait makes without sending: it may give up at any time, and a
\* task that has not sent yet may become ready to.
WaitMoves(before, after) ==
    \/ after = before
    \/ after = "returned"
    \/ before \notin {"ready", "sent", "returned"} /\ after # "sent"

\* The steps that send and take nothing.
LEMMA WaitsKeepData ==
    ASSUME DataInv, UNCHANGED <<build, data, breaks>>,
           wait' \in [Task -> WaitType], \A t \in Task : WaitMoves(wait[t], wait'[t])
    PROVE  DataInv'
<1>1. UNCHANGED <<build, sent, wire, chunks, messages, breaks>>
  BY DEF data
<1>2. DataType'
  BY <1>1 DEF DataInv, DataType, WaitType
<1>3. WireInv' /\ HeldInv' /\ MessageInv'
  BY <1>1 DEF DataInv, WireInv, HeldInv, MessageInv, OnWire, PutOn
<1>4. LossInv'
  <2> SUFFICES ASSUME breaks = 0, NEW t \in Task, NEW i \in 1 .. sent[t]
               PROVE  Somewhere(t, i)'
    BY <1>1 DEF LossInv
  <2>1. Somewhere(t, i)
    BY DEF DataInv, LossInv
  <2>2. QED
    BY <1>1, <2>1 DEF Somewhere, OnWire
<1>5. WaitInv'
  <2> SUFFICES ASSUME NEW t \in Task
               PROVE  /\ wait'[t] = "sent" => sent[t] = Chunks
                      /\ wait'[t] = "ready" => sent[t] < Chunks /\ (InBrowser(EndOf[t]) => sent[t] = 0)
                      /\ wait'[t] \notin {"ready", "sent", "returned"} => sent[t] = 0
    BY <1>1 DEF WaitInv, InBrowser
  <2>1. CASE wait'[t] = wait[t] \/ wait'[t] = "returned"
    BY <2>1 DEF DataInv, WaitInv
  <2>2. CASE wait[t] \notin {"ready", "sent", "returned"} /\ wait'[t] # "sent"
    <3>1. sent[t] = 0
      BY <2>2 DEF DataInv, WaitInv
    <3>2. 0 < Chunks
      BY IceAssumption
    <3>3. QED
      BY <2>2, <3>1, <3>2
  <2>3. QED
    BY <2>1, <2>2 DEF WaitMoves
<1>6. QED
  BY <1>2, <1>3, <1>5, <1>4 DEF DataInv

LEMMA DataUntouched ==
    ASSUME DataInv, UNCHANGED <<build, data, breaks, wait>>
    PROVE  DataInv'
<1>1. wait' \in [Task -> WaitType]
  BY DEF DataInv, DataType, WaitType
<1>2. QED
  BY <1>1, WaitsKeepData DEF WaitMoves

\* The move of one task.
LEMMA TaskMoves ==
    ASSUME DataInv, UNCHANGED <<build, data, breaks>>, NEW t \in Task,
           NEW after \in WaitType, WaitMoves(wait[t], after), wait' = [wait EXCEPT ![t] = after]
    PROVE  DataInv'
<1>1. wait \in [Task -> WaitType]
  BY DEF DataInv, DataType, WaitType
<1>2. \A u \in Task : WaitMoves(wait[u], wait'[u])
  BY <1>1 DEF WaitMoves
<1>3. QED
  BY <1>1, <1>2, WaitsKeepData

\* A promise is completed for a task that waits.
LEMMA PromiseMoves ==
    ASSUME DataInv, UNCHANGED <<build, data, breaks>>,
           \/ \E e \in End : \E outcome \in {"woken", "broken"} : wait' = PeerChanged(e, outcome)
           \/ \E e \in End : wait' = [t \in Task |-> IF t = onOpen[e] THEN Woken(t) ELSE wait[t]]
    PROVE  DataInv'
<1>1. wait \in [Task -> WaitType]
  BY DEF DataInv, DataType, WaitType
<1>2. ASSUME NEW t \in Task
      PROVE  wait'[t] = wait[t] \/ (wait[t] = "polled" /\ wait'[t] \in {"woken", "broken"})
  BY DEF PeerChanged, Woken
<1>3. DOMAIN wait' = Task /\ wait' = [t \in Task |-> wait'[t]]
  BY DEF PeerChanged
<1>4. wait' \in [Task -> WaitType]
  <2>1. \A t \in Task : wait'[t] \in WaitType
    BY <1>1, <1>2 DEF WaitType
  <2>2. QED
    BY <1>3, <2>1
<1>5. \A t \in Task : WaitMoves(wait[t], wait'[t])
  BY <1>2 DEF WaitMoves
<1>6. QED
  BY <1>4, <1>5, WaitsKeepData

\* The end of the connection takes the channel with it: what is on the way is
\* lost, what has arrived stays.
LEMMA EndKeepsData ==
    ASSUME DataInv, NEW e \in End, ConnectionFails(e) \/ Close(e)
    PROVE  DataInv'
<1>1. /\ UNCHANGED <<build, sent, chunks, messages>>
      /\ wire' = [f \in End |-> <<>>] /\ breaks' = breaks + 1
  BY DEF ConnectionFails, Close, Ends
<1>2. wait' = wait \/ wait' = PeerChanged(e, "broken")
  BY DEF ConnectionFails, Close
<1>3. wait \in [Task -> WaitType]
  BY DEF DataInv, DataType, WaitType
<1>4. ASSUME NEW t \in Task
      PROVE  wait'[t] = wait[t] \/ (wait[t] = "polled" /\ wait'[t] = "broken")
  BY <1>2 DEF PeerChanged
<1>5. wait' \in [Task -> WaitType]
  BY <1>2, <1>3 DEF PeerChanged, WaitType
<1>6. DataType'
  BY <1>1, <1>5 DEF DataInv, DataType, WaitType
<1>7. WaitInv'
  BY <1>1, <1>4 DEF DataInv, WaitInv, InBrowser
<1>8. WireInv' /\ HeldInv' /\ MessageInv'
  BY <1>1 DEF DataInv, WireInv, HeldInv, MessageInv, OnWire, PutOn
<1>9. LossInv'
  BY <1>1 DEF DataInv, DataType, LossInv
<1>10. QED
  BY <1>6, <1>7, <1>8, <1>9 DEF DataInv

-----------------------------------------------------------------------------
(* Chunks on the channel *)

\* What is left of a sequence without its i-th element.
LEMMA RemovedFrom ==
    ASSUME NEW S, NEW q \in Seq(S), NEW i \in 1 .. Len(q)
    PROVE  /\ RemoveAt(q, i) \in Seq(S)
           /\ \A k \in DOMAIN RemoveAt(q, i) : \E j \in DOMAIN q : RemoveAt(q, i)[k] = q[j]
           /\ \A j \in DOMAIN q \ {i} : \E k \in DOMAIN RemoveAt(q, i) : RemoveAt(q, i)[k] = q[j]
<1> DEFINE front == SubSeq(q, 1, i - 1)
           back == SubSeq(q, i + 1, Len(q))
           left == front \o back
<1>1. /\ front \in Seq(S) /\ Len(front) = i - 1
      /\ \A k \in 1 .. i - 1 : front[k] = q[k]
  BY SubSeqProperties
<1>2. /\ back \in Seq(S) /\ Len(back) = Len(q) - i
      /\ \A k \in 1 .. Len(q) - i : back[k] = q[i + k]
  <2>1. \A k \in i + 1 .. Len(q) : q[k] \in S
    OBVIOUS
  <2>2. /\ back \in Seq(S)
        /\ Len(back) = IF i + 1 <= Len(q) THEN Len(q) - (i + 1) + 1 ELSE 0
        /\ \A k \in 1 .. Len(q) - (i + 1) + 1 : back[k] = q[(i + 1) + k - 1]
    BY <2>1, SubSeqProperties
  <2>3. QED
    BY <2>2
<1> HIDE DEF front, back
<1>3. /\ left \in Seq(S) /\ Len(left) = Len(q) - 1
      /\ \A k \in 1 .. Len(q) - 1 : left[k] = IF k <= i - 1 THEN front[k] ELSE back[k - (i - 1)]
  BY <1>1, <1>2, ConcatProperties
<1> HIDE DEF left
<1>4. DOMAIN left = 1 .. Len(q) - 1
  BY <1>3
<1>5. \A k \in 1 .. Len(q) - 1 : left[k] = IF k <= i - 1 THEN q[k] ELSE q[k + 1]
  <2> SUFFICES ASSUME NEW k \in 1 .. Len(q) - 1
               PROVE  left[k] = IF k <= i - 1 THEN q[k] ELSE q[k + 1]
    OBVIOUS
  <2>1. CASE k <= i - 1
    BY <1>1, <1>3, <2>1
  <2>2. CASE ~ (k <= i - 1)
    <3>1. k - (i - 1) \in 1 .. Len(q) - i /\ i + (k - (i - 1)) = k + 1
      BY <2>2
    <3>2. back[k - (i - 1)] = q[k + 1]
      BY <1>2, <3>1
    <3>3. QED
      BY <1>3, <2>2, <3>2
  <2>3. QED
    BY <2>1, <2>2
<1>6. \A k \in DOMAIN left : \E j \in DOMAIN q : left[k] = q[j]
  <2> SUFFICES ASSUME NEW k \in 1 .. Len(q) - 1
               PROVE  \E j \in 1 .. Len(q) : left[k] = q[j]
    BY <1>4
  <2>1. k \in 1 .. Len(q) /\ k + 1 \in 1 .. Len(q)
    OBVIOUS
  <2>2. QED
    BY <1>5, <2>1
<1>7. DOMAIN q = 1 .. Len(q)
  OBVIOUS
<1>8. \A j \in DOMAIN q \ {i} : \E k \in DOMAIN left : left[k] = q[j]
  <2> SUFFICES ASSUME NEW j \in 1 .. Len(q), j # i
               PROVE  \E k \in 1 .. Len(q) - 1 : left[k] = q[j]
    BY <1>4, <1>7
  <2>1. CASE j < i
    <3>1. j \in 1 .. Len(q) - 1 /\ j <= i - 1
      BY <2>1
    <3>2. QED
      BY <1>5, <3>1
  <2>2. CASE j > i
    <3>1. j - 1 \in 1 .. Len(q) - 1 /\ ~ (j - 1 <= i - 1) /\ (j - 1) + 1 = j
      BY <2>2
    <3>2. QED
      BY <1>5, <3>1
  <2>3. QED
    BY <2>1, <2>2
<1>9. RemoveAt(q, i) = left
  BY DEF RemoveAt, left, front, back
<1>10. QED
  BY <1>3, <1>6, <1>8, <1>9

LEMMA ChunkFields ==
    ASSUME NEW c \in ChunkType
    PROVE  /\ c[1] \in Task /\ c[2] \in 1 .. Chunks /\ c = <<c[1], c[2]>>
           /\ \A t : c \in Whole(t) <=> c[1] = t
  BY DEF ChunkType, Whole

LEMMA WholeMessage ==
    ASSUME NEW t \in Task
    PROVE  <<t, 1>> \in Whole(t) /\ <<t, Chunks>> \in Whole(t)
  BY IceAssumption DEF Whole

\* What the chunk list makes of a chunk: it keeps it, or with it gives a whole
\* message away.
Taken(e, c, X, M) ==
    /\ chunks' = [chunks EXCEPT ![e] = X] /\ X \subseteq chunks[e] \cup {c}
    /\ messages' = [messages EXCEPT ![e] = M]
    /\ messages[e] \subseteq M /\ M \subseteq messages[e] \cup {c[1]}
    /\ \A t \in M : sent[t] = Chunks
    /\ \A t \in Task : ~Complete(X, t)
    /\ \A d \in chunks[e] \cup {c} : d \in X \/ d[1] \in M

\* No message is whole unless all of it was sent.
LEMMA TakenChunk ==
    ASSUME DataInv, NEW e \in End, NEW i \in DOMAIN wire[Other(e)], Receives(e, i),
           NEW c, c = wire[Other(e)][i]
    PROVE  /\ c \in PutOn(Other(e))
           /\ \E X, M : Taken(e, c, X, M)
<1> DEFINE o == Other(e)
           held == chunks[e] \cup {c}
           u == c[1]
<1>1. o \in End
  BY BothEnds
<1>2. c \in OnWire(o)
  BY DEF OnWire
<1>3. c \in PutOn(o)
  BY <1>1, <1>2 DEF DataInv, WireInv
<1>4. held \subseteq PutOn(o) /\ held \subseteq ChunkType
  BY <1>3 DEF DataInv, HeldInv, PutOn, ChunkType
<1>5. u \in Task
  BY <1>4, ChunkFields
<1>6. \A t \in messages[e] : sent[t] = Chunks
  BY DEF DataInv, MessageInv
<1>7. chunks[e] \in SUBSET ChunkType /\ messages[e] \subseteq Task /\ sent \in [Task -> 0 .. Chunks]
  BY DEF DataInv, DataType
<1>8. \A t \in Task : ~Complete(chunks[e], t)
  BY DEF DataInv, HeldInv
<1>9. IF Complete(held, u)
      THEN /\ chunks' = [chunks EXCEPT ![e] = held \ Whole(u)]
           /\ messages' = [messages EXCEPT ![e] = messages[e] \cup {u}]
      ELSE /\ chunks' = [chunks EXCEPT ![e] = held]
           /\ messages' = messages
  BY DEF Receives
<1>10. ASSUME NEW t \in Task, t # u, NEW X \in SUBSET held, Complete(X, t)
       PROVE  FALSE
  <2>1. c \notin Whole(t)
    BY <1>4, <1>10, ChunkFields
  <2>2. Whole(t) \subseteq chunks[e]
    BY <2>1, <1>10 DEF Complete
  <2>3. QED
    BY <2>2, <1>8 DEF Complete
<1>11. CASE Complete(held, u)
  <2> DEFINE X == held \ Whole(u)
             M == messages[e] \cup {u}
  <2>1. chunks' = [chunks EXCEPT ![e] = X] /\ messages' = [messages EXCEPT ![e] = M]
    BY <1>9, <1>11
  <2>2. sent[u] = Chunks
    <3>1. <<u, Chunks>> \in PutOn(o)
      BY <1>4, <1>5, <1>11, WholeMessage DEF Complete
    <3>2. Chunks <= sent[u]
      BY <3>1 DEF PutOn
    <3>3. QED
      BY <3>2, <1>5, <1>7, IceAssumption
  <2>3. ASSUME NEW t \in Task, Complete(X, t)
        PROVE  FALSE
    <3>1. CASE t = u
      BY <3>1, <2>3, WholeMessage DEF Complete
    <3>2. CASE t # u
      BY <3>2, <2>3, <1>10
    <3>3. QED
      BY <3>1, <3>2
  <2>4. \A d \in held : d \in X \/ d[1] \in M
    BY <1>4, ChunkFields
  <2>5. /\ X \subseteq held /\ messages[e] \subseteq M /\ M \subseteq messages[e] \cup {u}
        /\ \A t \in M : sent[t] = Chunks
    BY <1>6, <2>2
  <2>6. Taken(e, c, X, M)
    BY <2>1, <2>3, <2>4, <2>5 DEF Taken
  <2>7. QED
    BY <1>3, <2>6
<1>12. CASE ~Complete(held, u)
  <2>1. chunks' = [chunks EXCEPT ![e] = held] /\ messages' = messages
    BY <1>9, <1>12
  <2>2. messages = [messages EXCEPT ![e] = messages[e]]
    BY DEF DataInv, DataType
  <2>3. \A t \in Task : ~Complete(held, t)
    BY <1>10, <1>12
  <2>4. Taken(e, c, held, messages[e])
    BY <1>6, <2>1, <2>2, <2>3 DEF Taken
  <2>5. QED
    BY <1>3, <2>4
<1>13. QED
  BY <1>11, <1>12

LEMMA ReceiveKeepsData ==
    ASSUME DataInv, NEW e \in End, NEW i \in DOMAIN wire[Other(e)], Receives(e, i)
    PROVE  DataInv'
<1> DEFINE o == Other(e)
           c == wire[Other(e)][i]
<1>1. o \in End /\ o # e /\ Other(o) = e /\ \A f \in End : f # e => f = o
  BY BothEnds
<1>2. /\ UNCHANGED <<build, wait, sent, breaks>>
      /\ wire' = [wire EXCEPT ![o] = RemoveAt(wire[o], i)]
  BY DEF Receives, waiting
<1>3. wire \in [End -> Seq(ChunkType)] /\ wire[o] \in Seq(ChunkType) /\ i \in 1 .. Len(wire[o])
  BY <1>1 DEF DataInv, DataType
<1>4. c \in PutOn(o)
  BY TakenChunk
<1>5. PICK X, M : Taken(e, c, X, M)
  BY TakenChunk
<1>6. /\ chunks' = [chunks EXCEPT ![e] = X] /\ X \subseteq chunks[e] \cup {c}
      /\ messages' = [messages EXCEPT ![e] = M]
      /\ messages[e] \subseteq M /\ M \subseteq messages[e] \cup {c[1]}
      /\ \A t \in M : sent[t] = Chunks
      /\ \A t \in Task : ~Complete(X, t)
      /\ \A d \in chunks[e] \cup {c} : d \in X \/ d[1] \in M
  BY <1>5 DEF Taken
<1>7. c \in ChunkType /\ c[1] \in Task
  BY <1>4 DEF PutOn, ChunkType
<1>8. wire'[o] = RemoveAt(wire[o], i) /\ wire'[e] = wire[e]
  BY <1>1, <1>2, <1>3
<1>9. /\ wire'[o] \in Seq(ChunkType)
      /\ \A k \in DOMAIN wire'[o] : \E j \in DOMAIN wire[o] : wire'[o][k] = wire[o][j]
      /\ \A j \in DOMAIN wire[o] \ {i} : \E k \in DOMAIN wire'[o] : wire'[o][k] = wire[o][j]
  BY <1>3, <1>8, RemovedFrom
<1>10. /\ OnWire(o)' \subseteq OnWire(o) /\ OnWire(o) \subseteq OnWire(o)' \cup {c}
      /\ OnWire(e)' = OnWire(e)
  BY <1>8, <1>9 DEF OnWire
<1> HIDE DEF c
<1>11. /\ chunks \in [End -> SUBSET ChunkType] /\ messages \in [End -> SUBSET Task]
       /\ chunks'[e] = X /\ chunks'[o] = chunks[o]
       /\ messages'[e] = M /\ messages'[o] = messages[o]
  BY <1>1, <1>6 DEF DataInv, DataType
<1>12. X \subseteq ChunkType /\ M \subseteq Task
  BY <1>6, <1>7, <1>11
<1>13. DataType'
  BY <1>2, <1>6, <1>8, <1>9, <1>12 DEF DataInv, DataType
<1>14. WaitInv'
  BY <1>2 DEF DataInv, WaitInv, InBrowser
<1>15. \A f \in End : PutOn(f)' = PutOn(f)
  BY <1>2 DEF PutOn
<1>16. WireInv'
  BY <1>1, <1>10, <1>15 DEF DataInv, WireInv
<1>17. HeldInv'
  BY <1>1, <1>4, <1>6, <1>11, <1>15 DEF DataInv, HeldInv
<1>18. MessageInv'
  BY <1>1, <1>2, <1>6, <1>11 DEF DataInv, MessageInv
<1>19. LossInv'
  <2> SUFFICES ASSUME breaks = 0, NEW t \in Task, NEW j \in 1 .. sent[t]
               PROVE  Somewhere(t, j)'
    BY <1>2 DEF LossInv
  <2>1. Somewhere(t, j)
    BY DEF DataInv, LossInv
  <2>2. EndOf[t] \in End
    BY IceAssumption
  <2>3. CASE EndOf[t] = e
    <3>1. Other(EndOf[t]) = o
      BY <2>3
    <3>2. QED
      BY <1>10, <1>11, <2>1, <2>3, <3>1 DEF Somewhere
  <2>4. CASE EndOf[t] = o
    <3>1. Other(EndOf[t]) = e
      BY <1>1, <2>4
    <3>2. <<t, j>>[1] = t
      OBVIOUS
    <3>3. CASE t \in messages[e]
      BY <1>6, <1>11, <3>1, <3>3 DEF Somewhere
    <3>4. CASE <<t, j>> \in chunks[e] \cup {c}
      BY <1>6, <1>11, <3>1, <3>2, <3>4 DEF Somewhere
    <3>5. CASE <<t, j>> \in OnWire(o)'
      BY <2>4, <3>5 DEF Somewhere
    <3>6. QED
      BY <1>10, <2>1, <2>4, <3>1, <3>3, <3>4, <3>5 DEF Somewhere
  <2>5. QED
    BY <1>1, <2>2, <2>3, <2>4
<1>20. QED
  BY <1>13, <1>14, <1>16, <1>17, <1>18, <1>19 DEF DataInv

\* What a task puts on the channel has room in its message, and a browser that
\* puts there all has put nothing there before.
LEMMA RoomToSend ==
    ASSUME DataInv, NEW t \in Task, wait[t] = "ready", NEW n,
           \/ n = 1 /\ Native(EndOf[t])
           \/ n = Chunks /\ InBrowser(EndOf[t])
    PROVE  /\ n \in Nat \ {0} /\ sent[t] + n \in 1 .. Chunks
           /\ InBrowser(EndOf[t]) => sent[t] + n = Chunks
<1>1. sent[t] \in 0 .. Chunks /\ sent[t] < Chunks /\ (InBrowser(EndOf[t]) => sent[t] = 0)
  BY DEF DataInv, DataType, WaitInv
<1>2. Native(EndOf[t]) => ~InBrowser(EndOf[t])
  BY DEF Native, InBrowser
<1>3. Chunks \in Nat \ {0}
  BY IceAssumption
<1>4. QED
  BY <1>1, <1>2, <1>3

LEMMA PutKeepsData ==
    ASSUME DataInv, NEW t \in Task, wait[t] = "ready", NEW n, Puts(t, n),
           n \in Nat \ {0}, sent[t] + n \in 1 .. Chunks,
           InBrowser(EndOf[t]) => sent[t] + n = Chunks
    PROVE  DataInv'
<1> DEFINE e == EndOf[t]
           more == [i \in 1 .. n |-> <<t, sent[t] + i>>]
<1>1. /\ UNCHANGED <<build, chunks, messages, breaks>>
      /\ sent' = [sent EXCEPT ![t] = sent[t] + n]
      /\ wire' = [wire EXCEPT ![e] = wire[e] \o more]
      /\ wait' = [wait EXCEPT ![t] = IF sent'[t] = Chunks THEN "sent" ELSE "ready"]
  BY DEF Puts
<1>2. /\ e \in End /\ Chunks \in Nat \ {0}
      /\ sent \in [Task -> 0 .. Chunks] /\ sent[t] \in Nat /\ sent[t] < Chunks
      /\ wire \in [End -> Seq(ChunkType)] /\ wire[e] \in Seq(ChunkType)
      /\ Len(wire[e]) \in Nat /\ DOMAIN wire[e] = 1 .. Len(wire[e])
      /\ wait \in [Task -> WaitType]
  <2>1. e \in End /\ Chunks \in Nat \ {0}
    BY IceAssumption
  <2>2. sent \in [Task -> 0 .. Chunks] /\ sent[t] < Chunks
    BY DEF DataInv, DataType, WaitInv
  <2>3. wire \in [End -> Seq(ChunkType)] /\ wait \in [Task -> WaitType]
    BY DEF DataInv, DataType, WaitType
  <2>4. wire[e] \in Seq(ChunkType)
    BY <2>1, <2>3
  <2>5. sent[t] \in Nat
    BY <2>1, <2>2
  <2>6. Len(wire[e]) \in Nat /\ DOMAIN wire[e] = 1 .. Len(wire[e])
    BY <2>4
  <2>7. QED
    BY <2>1, <2>2, <2>3, <2>4, <2>5, <2>6
<1>3. /\ sent'[t] = sent[t] + n
      /\ \A u \in Task \ {t} : sent'[u] = sent[u] /\ wait'[u] = wait[u]
      /\ wait'[t] = IF sent[t] + n = Chunks THEN "sent" ELSE "ready"
  BY <1>1, <1>2
<1>4. \A i \in 1 .. n : sent[t] + i \in 1 .. Chunks
  BY <1>2
<1>5. more \in Seq(ChunkType) /\ Len(more) = n
  BY <1>4 DEF ChunkType
<1>6. /\ wire'[e] = wire[e] \o more
      /\ wire'[e] \in Seq(ChunkType) /\ Len(wire'[e]) = Len(wire[e]) + n
      /\ DOMAIN wire'[e] = 1 .. Len(wire[e]) + n
      /\ \A k \in 1 .. Len(wire[e]) + n :
            wire'[e][k] = IF k <= Len(wire[e]) THEN wire[e][k] ELSE <<t, sent[t] + (k - Len(wire[e]))>>
  <2>1. wire'[e] = wire[e] \o more
    BY <1>1, <1>2
  <2>2. /\ wire[e] \o more \in Seq(ChunkType) /\ Len(wire[e] \o more) = Len(wire[e]) + Len(more)
        /\ \A k \in 1 .. Len(wire[e]) + Len(more) :
              (wire[e] \o more)[k] = IF k <= Len(wire[e]) THEN wire[e][k] ELSE more[k - Len(wire[e])]
    BY <1>2, <1>5, ConcatProperties
  <2>3. \A k \in 1 .. Len(wire[e]) + n : ~ (k <= Len(wire[e])) => k - Len(wire[e]) \in 1 .. n
    BY <1>2
  <2>4. \A i \in 1 .. n : more[i] = <<t, sent[t] + i>>
    OBVIOUS
  <2> HIDE DEF more
  <2>5. wire'[e] \in Seq(ChunkType) /\ Len(wire'[e]) = Len(wire[e]) + n
    BY <1>5, <2>1, <2>2
  <2>6. DOMAIN wire'[e] = 1 .. Len(wire[e]) + n
    BY <2>5
  <2>7. ASSUME NEW k \in 1 .. Len(wire[e]) + n
        PROVE  wire'[e][k] = IF k <= Len(wire[e]) THEN wire[e][k]
                                                  ELSE <<t, sent[t] + (k - Len(wire[e]))>>
    BY <1>5, <2>1, <2>2, <2>3, <2>4
  <2>8. QED
    BY <2>1, <2>5, <2>6, <2>7
<1>7. \A f \in End \ {e} : wire'[f] = wire[f]
  BY <1>1, <1>2
<1> HIDE DEF more
<1>8. \A f \in End : PutOn(f) \subseteq PutOn(f)'
  <2> SUFFICES ASSUME NEW f \in End, NEW c \in Task \X (1 .. Chunks), c[2] <= sent[c[1]]
               PROVE  c[2] <= sent'[c[1]]
    BY DEF PutOn
  <2>1. c[2] \in Nat /\ c[1] \in Task
    BY <1>2
  <2>2. QED
    BY <1>2, <1>3, <2>1
<1>9. OnWire(e)' \subseteq PutOn(e)'
  <2> SUFFICES ASSUME NEW k \in 1 .. Len(wire'[e])
               PROVE  wire'[e][k] \in PutOn(e)'
    BY <1>6 DEF OnWire
  <2>1. CASE k <= Len(wire[e])
    <3>1. wire'[e][k] = wire[e][k] /\ wire[e][k] \in OnWire(e)
      <4>1. k \in 1 .. Len(wire[e]) + n /\ k \in DOMAIN wire[e]
        BY <1>2, <1>6, <2>1
      <4>2. QED
        BY <1>6, <2>1, <4>1 DEF OnWire
    <3>2. wire[e][k] \in PutOn(e)
      BY <1>2, <3>1 DEF DataInv, WireInv
    <3>3. QED
      BY <1>2, <1>8, <3>1, <3>2
  <2>2. CASE ~ (k <= Len(wire[e]))
    <3> DEFINE i == k - Len(wire[e])
               d == <<t, sent[t] + i>>
    <3>1. i \in 1 .. n /\ wire'[e][k] = d
      <4>1. k \in 1 .. Len(wire[e]) + n
        BY <1>6
      <4>2. wire'[e][k] = d
        BY <1>6, <2>2, <4>1
      <4>3. i \in 1 .. n
        BY <1>2, <2>2, <4>1
      <4>4. QED
        BY <4>2, <4>3
    <3>2. d \in Task \X (1 .. Chunks) /\ d[1] = t /\ d[2] = sent[t] + i
      BY <1>4, <3>1
    <3>3. sent[t] + i <= sent'[t]
      BY <1>2, <1>3, <3>1
    <3> HIDE DEF d, i
    <3>4. QED
      BY <3>1, <3>2, <3>3 DEF PutOn
  <2>3. QED
    BY <2>1, <2>2
<1>10. WireInv'
  <2>1. \A f \in End \ {e} : OnWire(f)' = OnWire(f)
    BY <1>7 DEF OnWire
  <2>2. QED
    BY <1>8, <1>9, <2>1 DEF DataInv, WireInv
<1>11. DataType'
  <2>1. sent' \in [Task -> 0 .. Chunks]
    BY <1>1, <1>2
  <2>2. wire' \in [End -> Seq(ChunkType)]
    BY <1>1, <1>2, <1>6
  <2>3. wait' \in [Task -> WaitType]
    BY <1>1, <1>2 DEF WaitType
  <2>4. QED
    BY <1>1, <2>1, <2>2, <2>3 DEF DataInv, DataType, WaitType
<1>12. WaitInv'
  <2> SUFFICES ASSUME NEW u \in Task
               PROVE  /\ wait'[u] = "sent" => sent'[u] = Chunks
                      /\ wait'[u] = "ready" => sent'[u] < Chunks /\ (InBrowser(EndOf[u]) => sent'[u] = 0)
                      /\ wait'[u] \notin {"ready", "sent", "returned"} => sent'[u] = 0
    BY <1>1 DEF WaitInv, InBrowser
  <2>1. CASE u = t
    BY <1>2, <1>3, <2>1
  <2>2. CASE u # t
    BY <1>3, <2>2 DEF DataInv, WaitInv
  <2>3. QED
    BY <2>1, <2>2
<1>13. HeldInv'
  BY <1>1, <1>8, BothEnds DEF DataInv, HeldInv
<1>14. MessageInv'
  <2>1. \A f \in End : t \notin messages[f]
    BY <1>2 DEF DataInv, MessageInv
  <2>2. QED
    BY <1>1, <1>3, <2>1 DEF DataInv, DataType, MessageInv
<1>15. LossInv'
  <2> SUFFICES ASSUME breaks = 0, NEW u \in Task, NEW j \in 1 .. sent'[u]
               PROVE  Somewhere(u, j)'
    BY <1>1 DEF LossInv
  <2>1. \A f \in End : OnWire(f) \subseteq OnWire(f)'
    <3>1. \A f \in End \ {e} : OnWire(f)' = OnWire(f)
      BY <1>7 DEF OnWire
    <3>2. \A k \in DOMAIN wire[e] : k \in DOMAIN wire'[e] /\ wire'[e][k] = wire[e][k]
      <4> SUFFICES ASSUME NEW k \in 1 .. Len(wire[e])
                   PROVE  k \in DOMAIN wire'[e] /\ wire'[e][k] = wire[e][k]
        BY <1>2
      <4>1. k \in 1 .. Len(wire[e]) + n /\ k <= Len(wire[e])
        BY <1>2
      <4>2. QED
        BY <1>6, <4>1
    <3>3. OnWire(e) \subseteq OnWire(e)'
      BY <3>2 DEF OnWire
    <3>4. QED
      BY <3>1, <3>3
  <2>2. EndOf[u] \in End
    BY IceAssumption
  <2>3. CASE j \in 1 .. sent[u]
    <3>1. Somewhere(u, j)
      BY <2>3 DEF DataInv, LossInv
    <3>2. QED
      BY <1>1, <2>1, <2>2, <3>1 DEF Somewhere
  <2>4. CASE j \notin 1 .. sent[u]
    <3>1. u = t /\ j \in sent[t] + 1 .. sent[t] + n
      BY <1>2, <1>3, <2>4
    <3> DEFINE k == Len(wire[e]) + (j - sent[t])
    <3>2. /\ k \in 1 .. Len(wire[e]) + n /\ ~ (k <= Len(wire[e]))
          /\ sent[t] + (k - Len(wire[e])) = j
      BY <1>2, <3>1
    <3> HIDE DEF k
    <3>3. wire'[e][k] = <<t, j>> /\ k \in DOMAIN wire'[e]
      BY <1>6, <3>2
    <3>4. <<t, j>> \in OnWire(e)'
      BY <3>3 DEF OnWire
    <3>5. QED
      BY <3>1, <3>4 DEF Somewhere
  <2>5. QED
    BY <2>3, <2>4
<1>16. QED
  BY <1>10, <1>11, <1>12, <1>13, <1>14, <1>15 DEF DataInv

-----------------------------------------------------------------------------
(* Every step *)

LEMMA EndStepKeepsData ==
    ASSUME DataInv, NEW e \in End, Handshake(e) \/ Connection(e) \/ OnStateChange(e) \/ OnOpen(e)
    PROVE  DataInv'
<1>1. CASE Handshake(e)
  BY <1>1, DataUntouched
     DEF Handshake, NativeHandshake, BrowserHandshake, NativeStart, BrowserStart, Starts,
         NativeGetOffer, NativeGetAnswer, BrowserGetOffer, BrowserGetAnswer, Describes,
         NativeOnIceCandidate, BrowserOnIceCandidate, Gathers, NativeGetHandshakeInfo,
         BrowserGetHandshakeInfo, Informs, GatheringEnds, SetRemoteDescription, AddIceCandidate,
         RegisterRemoteInfo, waiting
<1>2. CASE Connection(e)
  BY <1>2, DataUntouched, PromiseMoves
     DEF Connection, IceConnects, Secured, ChannelOpens, waiting
<1>3. CASE OnStateChange(e)
  BY <1>3, DataUntouched
     DEF OnStateChange, NativeOnIceConnectionStateChange, BrowserOnIceConnectionStateChange,
         StateChanges, waiting
<1>4. CASE OnOpen(e)
  BY <1>4, PromiseMoves DEF OnOpen
<1>5. QED
  BY <1>1, <1>2, <1>3, <1>4

LEMMA TaskStepKeepsData ==
    ASSUME DataInv, NEW t \in Task, Calls(t) \/ Runs(t)
    PROVE  DataInv'
<1>1. CASE \/ FindsOpen(t) \/ NativeChecksOpen(t) \/ BrowserWaitsForOpen(t)
           \/ NativeConnectSuccessPromise(t) \/ BrowserConnectSuccessPromise(t)
           \/ NativeRegistersOpen(t)
  <2>1. \E after \in WaitType : /\ wait' = [wait EXCEPT ![t] = after] /\ after # "sent"
                                /\ wait[t] \notin {"ready", "sent", "returned"}
    BY <1>1 DEF FindsOpen, NativeChecksOpen, BrowserWaitsForOpen, NativeConnectSuccessPromise,
       BrowserConnectSuccessPromise, NativeRegistersOpen, MayWait, MayWatch, WaitType
  <2>2. UNCHANGED <<build, data, breaks>>
    BY <1>1 DEF FindsOpen, NativeChecksOpen, BrowserWaitsForOpen, NativeConnectSuccessPromise,
       BrowserConnectSuccessPromise, NativeRegistersOpen
  <2>3. QED
    BY <2>1, <2>2, TaskMoves DEF WaitMoves
<1>2. CASE Poll(t)
  <2>1. \E after \in WaitType : /\ wait' = [wait EXCEPT ![t] = after] /\ after # "sent"
                                /\ wait[t] \notin {"ready", "sent", "returned"}
    BY <1>2 DEF Poll, WaitType
  <2>2. QED
    BY <1>2, <2>1, TaskMoves DEF Poll, WaitMoves
<1>3. CASE SendFails(t)
  BY <1>3, TaskMoves DEF SendFails, WaitMoves, WaitType
<1>4. CASE NativeSends(t)
  BY <1>4, RoomToSend, PutKeepsData DEF NativeSends
<1>5. CASE BrowserSends(t)
  BY <1>5, RoomToSend, PutKeepsData DEF BrowserSends
<1>6. QED
  BY <1>1, <1>2, <1>3, <1>4, <1>5 DEF Calls, Runs

\* The chunks of all messages are accounted for, and no end holds one whole.
THEOREM DataInvariant == IceSpec => []DataInv
<1>1. IceInit => DataInv
  <2> SUFFICES ASSUME IceInit PROVE DataInv
    OBVIOUS
  <2>1. Chunks \in Nat \ {0} /\ EndOf \in [Task -> End] /\ Builds \subseteq [End -> {"native", "browser"}]
    BY IceAssumption
  <2>2. DataType
    <3>1. build \in [End -> {"native", "browser"}]
      BY <2>1 DEF IceInit
    <3>2. sent \in [Task -> 0 .. Chunks] /\ breaks \in Nat
      <4>1. 0 \in 0 .. Chunks
        BY <2>1
      <4>2. sent = [t \in Task |-> 0] /\ breaks = 0
        BY DEF IceInit
      <4>3. QED
        BY <4>1, <4>2
    <3>3. wire \in [End -> Seq(ChunkType)]
      <4>1. wire = [e \in End |-> <<>>]
        BY DEF IceInit
      <4>2. QED
        BY <4>1
    <3>4. QED
      BY <3>1, <3>2, <3>3 DEF IceInit, DataType, WaitType
  <2>3. WaitInv /\ MessageInv
    BY <2>1 DEF IceInit, WaitInv, MessageInv
  <2>4. WireInv
    <3>1. \A e \in End : wire[e] = <<>>
      BY DEF IceInit
    <3>2. QED
      BY <3>1 DEF WireInv, OnWire
  <2>5. HeldInv
    BY WholeMessage DEF IceInit, HeldInv, Complete
  <2>6. LossInv
    <3>1. \A t \in Task : sent[t] = 0
      BY DEF IceInit
    <3>2. 1 .. 0 = {}
      OBVIOUS
    <3>3. QED
      BY <3>1, <3>2 DEF LossInv
  <2>7. QED
    BY <2>2, <2>3, <2>4, <2>5, <2>6 DEF DataInv
<1>2. DataInv /\ [IceNext]_iceVars => DataInv'
  <2> SUFFICES ASSUME DataInv, [IceNext]_iceVars PROVE DataInv'
    OBVIOUS
  <2>1. ASSUME NEW e \in End, OnMessage(e) PROVE DataInv'
    <3>1. PICK i \in DOMAIN wire[Other(e)] : Receives(e, i)
      <4>1. wire[Other(e)] \in Seq(ChunkType)
        BY BothEnds DEF DataInv, DataType
      <4>2. wire[Other(e)] # <<>> => 1 \in DOMAIN wire[Other(e)]
        BY <4>1
      <4>3. QED
        BY <2>1, <4>2 DEF OnMessage, NativeOnMessage, BrowserOnMessage
    <3>2. QED
      BY <3>1, ReceiveKeepsData
  <2>2. CASE UNCHANGED iceVars
    BY <2>2, DataUntouched DEF iceVars, waiting
  <2>3. QED
    BY <2>1, <2>2, EndStepKeepsData, EndKeepsData, TaskStepKeepsData DEF IceNext
<1>3. QED
  BY <1>1, <1>2, PTL DEF IceSpec

\* A message reaches the swarm of the other end only whole, and while the
\* connection lasts every message whose send_message returned does, once the
\* channel is empty: for any tasks at either end, any builds, chunks that come
\* in any order at a browser and in order at a native node.
THEOREM SentArrivesAlways == IceSpec => []SentArrives
<1>1. DataInv => SentArrives
  <2> SUFFICES ASSUME DataInv, NEW t \in Task
               PROVE  /\ t \in messages[Other(EndOf[t])] => sent[t] = Chunks
                      /\ wait[t] = "sent" /\ breaks = 0 /\ wire[EndOf[t]] = <<>>
                            => t \in messages[Other(EndOf[t])]
    BY DEF SentArrives
  <2>1. EndOf[t] \in End /\ Other(EndOf[t]) \in End
    BY IceAssumption, BothEnds
  <2>2. t \in messages[Other(EndOf[t])] => sent[t] = Chunks
    BY <2>1 DEF DataInv, MessageInv
  <2>3. ASSUME wait[t] = "sent", breaks = 0, wire[EndOf[t]] = <<>>,
               t \notin messages[Other(EndOf[t])]
        PROVE  FALSE
    <3>1. sent[t] = Chunks /\ OnWire(EndOf[t]) = {}
      BY <2>3 DEF DataInv, WaitInv, OnWire
    <3>2. \A i \in 1 .. Chunks : <<t, i>> \in chunks[Other(EndOf[t])]
      BY <2>3, <3>1 DEF DataInv, LossInv, Somewhere
    <3>3. Complete(chunks[Other(EndOf[t])], t)
      BY <3>2 DEF Complete, Whole
    <3>4. QED
      BY <2>1, <3>3 DEF DataInv, HeldInv
  <2>4. QED
    BY <2>2, <2>3
<1>2. QED
  BY <1>1, DataInvariant, PTL
=============================================================================
