----------------------------- MODULE DhtTables ------------------------------
(***************************************************************************)
(* The tables one node of the ring keeps, and the operations on them: the  *)
(* successor sequence (dht/successor.rs), the finger table (dht/finger.rs) *)
(* and the lookup of PeerRing that reads both (dht/chord.rs).  Each        *)
(* operator takes the did n of the node that owns the table.               *)
(*                                                                         *)
(* The Vec of a SuccessorSeq never holds a did twice and is sorted by bias *)
(* after every insertion, so it is represented by the set of its elements: *)
(* the order is the order of their biases.                                 *)
(***************************************************************************)
EXTENDS Ring, FiniteSetsExt

CONSTANTS SuccessorCap,  \* the `max` of SuccessorSeq
          NoDid          \* Option::None

ASSUME TablesAssumption ==
    /\ SuccessorCap \in Nat
    /\ NoDid \notin Did

Slot == 0..(Bits - 1)

Fingers == [Slot -> Did \cup {NoDid}]

-----------------------------------------------------------------------------
(* SuccessorSeq *)

\* Mutants of the tables: each is one plausible slip in the code beside it,
\* used to show that a property notices it.
TruncateNothing(n, S) == S

TruncateNearest(n, S) ==
    {d \in S : Cardinality({e \in S : Bias(n, e) > Bias(n, d)}) < SuccessorCap}

TruncateByDid(n, S) ==
    {d \in S : Cardinality({e \in S : e < d}) < SuccessorCap}

SuccessorMinByDid(n, S) ==
    IF S = {} THEN n ELSE CHOOSE d \in S : \A e \in S : d <= e

FingerRemoveOffByOne(F, d) ==
    LET held == {k \in Slot : F[k] = d}
    IN  [k \in Slot |-> IF k \in held /\ k # Max(held)
                        THEN IF Max(held) + 1 \in Slot THEN F[Max(held) + 1] ELSE NoDid
                        ELSE F[k]]

SuccessorIsFull(S) == Cardinality(S) >= SuccessorCap

SuccessorMin(n, S) ==
    IF S = {} THEN n ELSE CHOOSE d \in S : \A e \in S : Bias(n, d) <= Bias(n, e)

SuccessorMax(n, S) ==
    IF S = {} THEN n ELSE CHOOSE d \in S : \A e \in S : Bias(n, e) <= Bias(n, d)

\* sort by bias, then truncate(max): the SuccessorCap dids nearest to n.
Truncate(n, S) ==
    {d \in S : Cardinality({e \in S : Bias(n, e) < Bias(n, d)}) < SuccessorCap}

SuccessorUpdate(n, S, d) ==
    IF d \in S \cup {n} THEN S ELSE Truncate(n, S \cup {d})

SuccessorRemove(S, d) == S \ {d}

-----------------------------------------------------------------------------
(* FingerTable *)

NoFingers == [k \in Slot |-> NoDid]

FingerSlots(F, d) == {k \in Slot : F[k] = d}

KnownSlots(F) == {k \in Slot : F[k] # NoDid}

FingerFirst(F) ==
    IF KnownSlots(F) = {} THEN NoDid ELSE F[Min(KnownSlots(F))]

\* Slot k takes d when d is at least 2^k away and nearer than what k holds.
FingerJoin(n, F, d) ==
    [k \in Slot |->
        IF /\ Bias(n, d) >= Pow[k]
           /\ F[k] = NoDid \/ Bias(n, d) < Bias(n, F[k])
        THEN d ELSE F[k]]

\* Every slot from the first to the last that holds d takes the value of the
\* slot after the last one; slots between them are overwritten too.
FingerRemove(F, d) ==
    LET held == FingerSlots(F, d)
        next == Max(held) + 1
        fix  == IF next \in Slot THEN F[next] ELSE NoDid
    IN  [k \in Slot |->
            IF (\E i \in held : i <= k) /\ (\E j \in held : k <= j)
            THEN fix ELSE F[k]]

FingerSet(F, k, d) == [F EXCEPT ![k] = d]

ClosestByDid(n, F, d) ==
    LET before == {k \in KnownSlots(F) : F[k] < d}
    IN  IF before = {} THEN n ELSE F[Max(before)]

\* A mutant: the lookup may be sent to the very did it looks for.
ClosestOrAt(n, F, d) ==
    LET before == {k \in KnownSlots(F) : Bias(n, F[k]) <= Bias(n, d)}
    IN  IF before = {} THEN n ELSE F[Max(before)]

\* closest: the highest slot that holds a did nearer to n than d is.
Closest(n, F, d) ==
    LET before == {k \in KnownSlots(F) : Bias(n, F[k]) < Bias(n, d)}
    IN  IF before = {} THEN n ELSE F[Max(before)]

-----------------------------------------------------------------------------
(* PeerRing *)

\* The node answers for d itself: it has no successor, or d is not past the
\* nearest one.
AnswersFor(n, S, d) == S = {} \/ Bias(n, d) <= Bias(n, SuccessorMin(n, S))

\* PeerRingAction::Some(did), or RemoteAction(did, FindSuccessor(d)).
FindSuccessor(n, F, S, d) ==
    IF AnswersFor(n, S, d)
    THEN [action |-> "Some",   did |-> SuccessorMin(n, S)]
    ELSE [action |-> "Remote", did |-> Closest(n, F, d)]

\* PeerRing::join on the successor sequence.
SuccessorJoin(n, S, d) ==
    IF Bias(n, d) < Bias(n, SuccessorMax(n, S)) \/ ~SuccessorIsFull(S)
    THEN SuccessorUpdate(n, S, d) ELSE S

\* PeerRing::remove on the successor sequence; F is the finger table after
\* the removal.  When the sequence runs empty the first finger refills it.
SuccessorLeave(n, S, F, d) ==
    LET rest == SuccessorRemove(S, d)
    IN  IF rest = {} /\ FingerFirst(F) # NoDid
        THEN SuccessorUpdate(n, rest, FingerFirst(F)) ELSE rest

\* A mutant: the last node to notify is the predecessor.
NearerAlways(n, p, d) == TRUE

\* PeerRing::notify: a candidate predecessor is taken when it is nearer.
Nearer(n, p, d) == p # NoDid => Bias(n, p) < Bias(n, d)

NextFixOffByOne(i) == IF i + 1 > Bits THEN 0 ELSE i + 1

\* PeerRing::fix_fingers: the slot after i.  The last slot is never fixed.
NextFix(i) == IF i + 1 >= Bits - 1 THEN 0 ELSE i + 1
=============================================================================
