------------------------------ MODULE PeerRing ------------------------------
(***************************************************************************)
(* The routing state of one node: PeerRing of dht/chord.rs, with every     *)
(* operation the message handlers and the stabilizer apply to it.  The     *)
(* operations that write are called from one task (processor.rs joins the  *)
(* message listener and the stabilizer), never across an await, so each is *)
(* one action; module DhtLocks looks inside them.                          *)
(*                                                                         *)
(* The callers choose the arguments: a peer joins when a transport to it   *)
(* is registered, leaves when its transport closes, notifies when it       *)
(* believes to precede this node, and reports arrive in any order.         *)
(***************************************************************************)
EXTENDS DhtTables

CONSTANTS Self,   \* the did of this node
          Peers   \* the dids of the other nodes of the network

ASSUME PeersAssumption == Self \in Did /\ Peers \subseteq Did \ {Self}

VARIABLES finger,      \* FingerTable.finger
          fixIndex,    \* FingerTable.fix_finger_index
          successors,  \* SuccessorSeq.successors
          predecessor  \* PeerRing.predecessor

vars == <<finger, fixIndex, successors, predecessor>>

Init ==
    /\ finger = NoFingers
    /\ fixIndex = 0
    /\ successors = {}
    /\ predecessor = NoDid

-----------------------------------------------------------------------------
\* PeerRing::join, from the JoinDHT handler: a transport to d is registered.
Join(d) ==
    /\ finger' = FingerJoin(Self, finger, d)
    /\ successors' = SuccessorJoin(Self, successors, d)
    /\ UNCHANGED <<fixIndex, predecessor>>

\* PeerRing::remove, from the LeaveDHT handler: the transport to d is gone.
Remove(d) ==
    /\ predecessor' = IF predecessor = d THEN NoDid ELSE predecessor
    /\ finger' = FingerRemove(finger, d)
    /\ successors' = SuccessorLeave(Self, successors, finger', d)
    /\ UNCHANGED fixIndex

\* PeerRing::notify, from the NotifyPredecessorSend handler.
Notify(d) ==
    /\ Nearer(Self, predecessor, d)
    /\ predecessor' = d
    /\ UNCHANGED <<finger, fixIndex, successors>>

\* PeerRing::fix_fingers, from the stabilizer.  An answer found here goes
\* into the slot; otherwise the question leaves for a remote node and only
\* the index advances.
FixFingers ==
    LET i == NextFix(fixIndex)
        r == FindSuccessor(Self, finger, successors, Plus(Self, Pow[i]))
    IN  /\ fixIndex' = i
        /\ finger' = IF r.action = "Some" THEN FingerSet(finger, i, r.did) ELSE finger
        /\ UNCHANGED <<successors, predecessor>>

\* FindSuccessorReport for FixFingerTable: the answer goes into whatever
\* slot the index points to when it arrives.
FixReport(d) ==
    /\ finger' = FingerSet(finger, fixIndex, d)
    /\ UNCHANGED <<fixIndex, successors, predecessor>>

\* FindSuccessorReport for SyncStorage and NotifyPredecessorReport: the
\* successor sequence learns d, the finger table does not.
SuccessorReport(d) ==
    /\ successors' = SuccessorUpdate(Self, successors, d)
    /\ UNCHANGED <<finger, fixIndex, predecessor>>

Next ==
    \/ \E d \in Peers : Join(d)
    \/ \E d \in Peers : Remove(d)
    \/ \E d \in Peers : Notify(d)
    \/ FixFingers
    \/ \E d \in Peers \cup {Self} : FixReport(d)
    \/ \E d \in Peers : SuccessorReport(d)

Spec == Init /\ [][Next]_vars

-----------------------------------------------------------------------------
(* Properties *)

TypeOK ==
    /\ finger \in Fingers
    /\ fixIndex \in Slot
    /\ successors \subseteq Did
    /\ predecessor \in Did \cup {NoDid}

\* The successor sequence never holds the node itself, whatever joins,
\* leaves, reports and refills reach it, and never outgrows its capacity
\* (SuccessorSeq::update; remove refills it from a finger table that may
\* hold the node itself).
SuccessorsSound ==
    /\ Self \notin successors
    /\ Cardinality(successors) <= SuccessorCap

\* A remote lookup never overshoots: the node asked next lies strictly
\* between this node and the target, so the distance left shrinks at every
\* hop and a lookup cannot circle, however stale the finger table is
\* (FingerTable::closest).  The node itself as next hop is another matter:
\* FixFingers of a node without successors writes it into the table.
LookupProgress ==
    \A d \in Did :
        LET r == FindSuccessor(Self, finger, successors, d)
        IN  r.action = "Remote" /\ r.did # Self =>
                /\ Bias(r.did, d) < Bias(Self, d)
                /\ Bias(Self, r.did) < Bias(Self, d)

\* A lookup the node answers itself names the first successor at or after
\* the target: no other entry of the sequence lies between the two
\* (PeerRing::find_successor, SuccessorSeq::min).
LookupAnswerIsNearest ==
    \A d \in Did :
        LET r == FindSuccessor(Self, finger, successors, d)
        IN  r.action = "Some" =>
                \A s \in successors : Bias(d, r.did) <= Bias(d, s)

\* After a node is removed no table mentions it: not the slot next to the
\* last one it held, not the successor the fingers refill (PeerRing::remove).
RemovedIsGone ==
    [][\A d \in Peers : Remove(d) =>
            /\ d \notin successors'
            /\ d # predecessor'
            /\ \A k \in Slot : finger'[k] # d]_vars

\* The sequence loses an entry only to a removal of that entry or, when it
\* is full, to entries that are all nearer (PeerRing::join, SuccessorSeq).
SuccessorsOnlyGetNearer ==
    [][\A x \in successors \ successors' :
            \/ Remove(x)
            \/ /\ Cardinality(successors') = SuccessorCap
               /\ \A y \in successors' : Bias(Self, y) < Bias(Self, x)]_vars
=============================================================================
