--------------------------- MODULE PeerRingProofs ---------------------------
(***************************************************************************)
(* What the routing state of one node keeps true, for a ring of any size,  *)
(* any capacity of the successor sequence and any set of peers.            *)
(***************************************************************************)
EXTENDS PeerRing, DhtTablesProofs

\* The dids that reach a node, its own and its peers', are dids.
LEMMA PeersAreDids == Self \in Did /\ \A d \in Peers : d \in Did /\ d # Self
  BY PeersAssumption

\* The slots of the finger table are numbered from zero.
LEMMA ZeroSlot == 0 \in Slot
  BY RingAssumption DEF Slot

\* fix_fingers moves from slot to slot.
LEMMA NextFixType ==
    ASSUME NEW i \in Slot
    PROVE  NextFix(i) \in Slot
  BY RingAssumption DEF NextFix, Slot

\* A slot can be set to any did.
LEMMA FingerSetType ==
    ASSUME NEW F \in Fingers, NEW i \in Slot, NEW d \in Did
    PROVE  FingerSet(F, i, d) \in Fingers
  BY DEF FingerSet, Fingers

\* An answer names a did.
LEMMA AnswerType ==
    ASSUME NEW F \in Fingers, NEW S \in SUBSET Did, NEW d,
           FindSuccessor(Self, F, S, d).action = "Some"
    PROVE  FindSuccessor(Self, F, S, d).did \in Did
<1>1. AnswersFor(Self, S, d)
  BY DEF FindSuccessor
<1>2. FindSuccessor(Self, F, S, d).did = SuccessorMin(Self, S)
  BY <1>1 DEF FindSuccessor
<1> QED
  BY <1>2, SuccessorMinType, PeersAreDids

-----------------------------------------------------------------------------
(* The inductive invariant: the tables have their types, and the successor *)
(* sequence is free of the node and within its capacity.  Neither part is  *)
(* preserved alone: the refill of remove takes its did from the fingers.   *)

Inv == TypeOK /\ SuccessorsSound

\* What each operation does to the successor sequence.
LEMMA UpdateKeepsSound ==
    ASSUME Inv, NEW d \in Did
    PROVE  LET U == SuccessorUpdate(Self, successors, d)
           IN  /\ U \subseteq Did
               /\ Self \notin U
               /\ Cardinality(U) <= SuccessorCap
               /\ \A x \in successors \ U :
                     /\ Cardinality(U) = SuccessorCap
                     /\ \A y \in U : Bias(Self, y) < Bias(Self, x)
<1>1. /\ successors \in SUBSET (Did \ {Self})
      /\ Cardinality(successors) <= SuccessorCap
  BY DEF Inv, TypeOK, SuccessorsSound
<1> DEFINE U == SuccessorUpdate(Self, successors, d)
<1>2. /\ U \in SUBSET (Did \ {Self})
      /\ Cardinality(U) <= SuccessorCap
      /\ \A x \in successors \ U :
            /\ Cardinality(U) = SuccessorCap
            /\ \A y \in U : Bias(Self, y) < Bias(Self, x)
  BY <1>1, PeersAreDids, SuccessorUpdateSound
<1> QED
  BY <1>2

\* remove leaves the sequence sound, without the did that left, and drops
\* nothing else.
LEMMA LeaveKeepsSound ==
    ASSUME Inv, NEW d \in Did, NEW F \in Fingers, \A k \in Slot : F[k] # d
    PROVE  LET L == SuccessorLeave(Self, successors, F, d)
           IN  /\ L \subseteq Did
               /\ Self \notin L
               /\ Cardinality(L) <= SuccessorCap
               /\ d \notin L
               /\ \A x \in successors \ L : x = d
<1> DEFINE rest == SuccessorRemove(successors, d)
           f    == FingerFirst(F)
           L    == SuccessorLeave(Self, successors, F, d)
<1>1. successors \subseteq Did /\ Self \notin successors /\ Cardinality(successors) <= SuccessorCap
  BY DEF Inv, TypeOK, SuccessorsSound
<1>2. /\ rest \in SUBSET (Did \ {Self})
      /\ rest \subseteq successors
      /\ d \notin rest
      /\ \A x \in successors \ rest : x = d
  BY <1>1 DEF SuccessorRemove
<1>3. Cardinality(rest) <= SuccessorCap
  <2>1. /\ IsFiniteSet(successors)
        /\ Cardinality(successors) \in Nat
        /\ Cardinality(rest) \in Nat
    BY <1>1, <1>2, DidsFinite
  <2>2. Cardinality(rest) <= Cardinality(successors)
    BY <1>2, <2>1, FS_Subset
  <2> HIDE DEF rest
  <2> QED
    BY <1>1, <2>1, <2>2, TablesAssumption
<1>4. CASE rest = {} /\ f # NoDid
  <2>1. f \in Did /\ \E k \in Slot : f = F[k]
    BY <1>4, FingerFirstType
  <2>2. f # d
    BY <2>1
  <2>3. L = SuccessorUpdate(Self, rest, f)
    BY <1>4 DEF SuccessorLeave
  <2>4. /\ L \in SUBSET (Did \ {Self})
        /\ L \subseteq rest \cup {f}
        /\ Cardinality(L) <= SuccessorCap
    <3> HIDE DEF L, rest, f
    <3> QED
      BY <1>2, <1>3, <2>1, <2>3, PeersAreDids, SuccessorUpdateSound
  <2>5. \A x \in successors : x = d
    BY <1>2, <1>4
  <2> QED
    BY <1>2, <2>2, <2>4, <2>5
<1>5. CASE ~ (rest = {} /\ f # NoDid)
  <2>1. L = rest
    BY <1>5 DEF SuccessorLeave
  <2> QED
    BY <1>2, <1>3, <2>1
<1> QED
  BY <1>4, <1>5

\* A fresh node satisfies the invariant.
LEMMA InitInv == Init => Inv
<1> SUFFICES ASSUME Init PROVE Inv
  OBVIOUS
<1>1. finger \in Fingers
  BY DEF Init, NoFingers, Fingers
<1>2. Cardinality({}) = 0
  BY FS_EmptySet
<1> QED
  BY <1>1, <1>2, ZeroSlot, TablesAssumption DEF Init, Inv, TypeOK, SuccessorsSound

\* Every operation preserves the invariant.
LEMMA NextInv == Inv /\ [Next]_vars => Inv'
<1> SUFFICES ASSUME Inv, [Next]_vars PROVE Inv'
  OBVIOUS
<1> USE PeersAreDids
<1>0. /\ finger \in Fingers /\ fixIndex \in Slot
      /\ successors \subseteq Did /\ predecessor \in Did \cup {NoDid}
      /\ Self \notin successors /\ Cardinality(successors) <= SuccessorCap
  BY DEF Inv, TypeOK, SuccessorsSound
<1>1. ASSUME NEW d \in Peers, Join(d) PROVE Inv'
  <2>1. finger' \in Fingers
    BY <1>0, <1>1, FingerJoinType DEF Join
  <2>2. successors' = SuccessorUpdate(Self, successors, d) \/ successors' = successors
    BY <1>1 DEF Join, SuccessorJoin
  <2>3. /\ successors' \subseteq Did
        /\ Self \notin successors'
        /\ Cardinality(successors') <= SuccessorCap
    BY <1>0, <2>2, UpdateKeepsSound
  <2> QED
    BY <1>0, <1>1, <2>1, <2>3 DEF Join, Inv, TypeOK, SuccessorsSound
<1>2. ASSUME NEW d \in Peers, Remove(d) PROVE Inv'
  <2>1. finger' \in Fingers /\ \A k \in Slot : finger'[k] # d
    BY <1>0, <1>2, FingerRemoveGone DEF Remove
  <2>2. successors' = SuccessorLeave(Self, successors, finger', d)
    BY <1>2 DEF Remove
  <2>3. /\ successors' \subseteq Did
        /\ Self \notin successors'
        /\ Cardinality(successors') <= SuccessorCap
    BY <2>1, <2>2, LeaveKeepsSound
  <2>4. predecessor' \in Did \cup {NoDid}
    BY <1>0, <1>2 DEF Remove
  <2> QED
    BY <1>0, <1>2, <2>1, <2>3, <2>4 DEF Remove, Inv, TypeOK, SuccessorsSound
<1>3. ASSUME NEW d \in Peers, Notify(d) PROVE Inv'
  BY <1>0, <1>3 DEF Notify, Inv, TypeOK, SuccessorsSound
<1>4. CASE FixFingers
  <2> DEFINE i == NextFix(fixIndex)
             r == FindSuccessor(Self, finger, successors, Plus(Self, Pow[i]))
  <2>1. i \in Slot
    BY <1>0, NextFixType
  <2>2. finger' = IF r.action = "Some" THEN FingerSet(finger, i, r.did) ELSE finger
    BY <1>4 DEF FixFingers
  <2>3. r.action = "Some" => r.did \in Did
    BY <1>0, AnswerType
  <2>4. finger' \in Fingers
    <3> HIDE DEF i, r
    <3> QED
      BY <1>0, <2>1, <2>2, <2>3, FingerSetType
  <2> QED
    BY <1>0, <1>4, <2>1, <2>4 DEF FixFingers, Inv, TypeOK, SuccessorsSound
<1>5. ASSUME NEW d \in Peers \cup {Self}, FixReport(d) PROVE Inv'
  <2>1. finger' \in Fingers
    BY <1>0, <1>5, FingerSetType DEF FixReport
  <2> QED
    BY <1>0, <1>5, <2>1 DEF FixReport, Inv, TypeOK, SuccessorsSound
<1>6. ASSUME NEW d \in Peers, SuccessorReport(d) PROVE Inv'
  <2>1. /\ successors' \subseteq Did
        /\ Self \notin successors'
        /\ Cardinality(successors') <= SuccessorCap
    BY <1>0, <1>6, UpdateKeepsSound DEF SuccessorReport
  <2> QED
    BY <1>0, <1>6, <2>1 DEF SuccessorReport, Inv, TypeOK, SuccessorsSound
<1>7. CASE UNCHANGED vars
  BY <1>0, <1>7 DEF vars, Inv, TypeOK, SuccessorsSound
<1> QED
  BY <1>1, <1>2, <1>3, <1>4, <1>5, <1>6, <1>7 DEF Next

\* The inductive invariant holds in every reachable state.
THEOREM Invariance == Spec => []Inv
<1>1. Init => Inv
  BY InitInv
<1>2. Inv /\ [Next]_vars => Inv'
  BY NextInv
<1> QED
  BY <1>1, <1>2, PTL DEF Spec

\* The tables of a node have their types in every reachable state.
THEOREM TypeCorrect == Spec => []TypeOK
<1>1. Inv => TypeOK
  BY DEF Inv
<1> QED
  BY <1>1, Invariance, PTL

\* The successor sequence never holds the node, nor more than its capacity.
THEOREM SuccessorsAreSound == Spec => []SuccessorsSound
<1>1. Inv => SuccessorsSound
  BY DEF Inv
<1> QED
  BY <1>1, Invariance, PTL

-----------------------------------------------------------------------------
(* Lookups *)

\* Whatever the fingers hold, the next hop of a lookup lies strictly between
\* the node and the target, unless it is the node itself.
THEOREM LookupsProgress == Spec => []LookupProgress
<1>1. Inv => LookupProgress
  <2> SUFFICES ASSUME Inv, NEW d \in Did,
                      FindSuccessor(Self, finger, successors, d).action = "Remote",
                      FindSuccessor(Self, finger, successors, d).did # Self
               PROVE  LET c == FindSuccessor(Self, finger, successors, d).did
                      IN  Bias(c, d) < Bias(Self, d) /\ Bias(Self, c) < Bias(Self, d)
    BY DEF LookupProgress
  <2> DEFINE c == Closest(Self, finger, d)
  <2>1. FindSuccessor(Self, finger, successors, d).did = c
    BY DEF FindSuccessor
  <2>2. /\ c \in Did
        /\ Bias(Self, c) < Bias(Self, d)
    BY <2>1, ClosestBefore, PeersAreDids DEF Inv, TypeOK
  <2>3. c # Self
    BY <2>1
  <2> HIDE DEF c
  <2>4. Bias(Self, c) \in Nat /\ Bias(Self, d) \in Nat /\ Bias(Self, c) # 0
    BY <2>2, <2>3, PeersAreDids, BiasNat, BiasZero
  <2>5. Bias(c, d) = Bias(Self, d) - Bias(Self, c)
    BY <2>2, <2>4, PeersAreDids, BiasBetween
  <2> QED
    BY <2>1, <2>2, <2>4, <2>5
<1> QED
  BY <1>1, Invariance, PTL

\* An answer is the successor nearest to the target among those known.
THEOREM LookupAnswersAreNearest == Spec => []LookupAnswerIsNearest
<1>1. Inv => LookupAnswerIsNearest
  <2> SUFFICES ASSUME Inv, NEW d \in Did, NEW s \in successors,
                      FindSuccessor(Self, finger, successors, d).action = "Some"
               PROVE  Bias(d, FindSuccessor(Self, finger, successors, d).did) <= Bias(d, s)
    BY DEF LookupAnswerIsNearest
  <2> DEFINE m == SuccessorMin(Self, successors)
  <2>1. AnswersFor(Self, successors, d)
    BY DEF FindSuccessor
  <2>2. FindSuccessor(Self, finger, successors, d).did = m
    BY <2>1 DEF FindSuccessor
  <2>3. successors \in SUBSET Did /\ successors # {}
    BY DEF Inv, TypeOK
  <2>4. Bias(Self, d) <= Bias(Self, m)
    BY <2>1, <2>3 DEF AnswersFor
  <2>5. m \in Did /\ s \in Did /\ Bias(Self, m) <= Bias(Self, s)
    BY <2>3, SuccessorMinLeast, PeersAreDids
  <2> HIDE DEF m
  <2>6. /\ Bias(Self, d) \in Nat /\ Bias(Self, m) \in Nat /\ Bias(Self, s) \in Nat
    BY <2>5, PeersAreDids, BiasNat
  <2>7. Bias(Self, d) <= Bias(Self, s)
    BY <2>4, <2>5, <2>6
  <2>8. /\ Bias(d, m) = Bias(Self, m) - Bias(Self, d)
        /\ Bias(d, s) = Bias(Self, s) - Bias(Self, d)
    BY <2>4, <2>5, <2>7, PeersAreDids, BiasBetween
  <2> QED
    BY <2>2, <2>5, <2>6, <2>8
<1> QED
  BY <1>1, Invariance, PTL

-----------------------------------------------------------------------------
(* Steps *)

\* A removal leaves no trace of the peer in any table.
THEOREM RemovedPeersAreGone == Spec => RemovedIsGone
<1>1. ASSUME Inv, NEW d \in Peers, Remove(d)
      PROVE  d \notin successors' /\ d # predecessor' /\ \A k \in Slot : finger'[k] # d
  <2>1. d \in Did /\ finger \in Fingers
    BY <1>1, PeersAreDids DEF Inv, TypeOK
  <2>2. finger' \in Fingers /\ \A k \in Slot : finger'[k] # d
    BY <1>1, <2>1, FingerRemoveGone DEF Remove
  <2>3. d \notin successors'
    BY <1>1, <2>1, <2>2, LeaveKeepsSound DEF Remove
  <2>4. d # predecessor'
    BY <1>1, <2>1, TablesAssumption DEF Remove
  <2> QED
    BY <2>2, <2>3, <2>4
<1>2. Inv /\ [Next]_vars =>
        [\A d \in Peers : Remove(d) =>
            /\ d \notin successors'
            /\ d # predecessor'
            /\ \A k \in Slot : finger'[k] # d]_vars
  BY <1>1
<1> QED
  BY <1>2, Invariance, PTL DEF Spec, RemovedIsGone

\* The sequence gives an entry up only when the entry leaves, or to nearer
\* entries that fill it.
THEOREM SuccessorsApproach == Spec => SuccessorsOnlyGetNearer
<1> DEFINE Ok(x) == \/ Remove(x)
                    \/ /\ Cardinality(successors') = SuccessorCap
                       /\ \A y \in successors' : Bias(Self, y) < Bias(Self, x)
<1>1. ASSUME Inv, Next, NEW x \in successors \ successors' PROVE Ok(x)
  <2>1. ASSUME NEW d \in Peers, Join(d) PROVE Ok(x)
    <3>1. successors' = SuccessorUpdate(Self, successors, d)
      BY <1>1, <2>1 DEF Join, SuccessorJoin
    <3> QED
      BY <1>1, <2>1, <3>1, UpdateKeepsSound, PeersAreDids
  <2>2. ASSUME NEW d \in Peers, Remove(d) PROVE Ok(x)
    <3>1. d \in Did /\ finger' \in Fingers /\ \A k \in Slot : finger'[k] # d
      BY <1>1, <2>2, PeersAreDids, FingerRemoveGone DEF Remove, Inv, TypeOK
    <3>2. x = d
      BY <1>1, <2>2, <3>1, LeaveKeepsSound DEF Remove
    <3> QED
      BY <2>2, <3>2
  <2>3. ASSUME NEW d \in Peers, SuccessorReport(d) PROVE Ok(x)
    BY <1>1, <2>3, UpdateKeepsSound, PeersAreDids DEF SuccessorReport
  <2>4. ASSUME NEW d \in Peers, Notify(d) PROVE Ok(x)
    BY <1>1, <2>4 DEF Notify
  <2>5. CASE FixFingers
    BY <1>1, <2>5 DEF FixFingers
  <2>6. ASSUME NEW d \in Peers \cup {Self}, FixReport(d) PROVE Ok(x)
    BY <1>1, <2>6 DEF FixReport
  <2> QED
    BY <1>1, <2>1, <2>2, <2>3, <2>4, <2>5, <2>6 DEF Next
<1>2. Inv /\ [Next]_vars => [\A x \in successors \ successors' : Ok(x)]_vars
  BY <1>1
<1> QED
  BY <1>2, Invariance, PTL DEF Spec, SuccessorsOnlyGetNearer
=============================================================================
