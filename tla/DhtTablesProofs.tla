-------------------------- MODULE DhtTablesProofs ---------------------------
(***************************************************************************)
(* Lemmas about the ring and about the tables of module DhtTables, cited   *)
(* by the proofs of the modules that keep such tables.                     *)
(***************************************************************************)
EXTENDS DhtTables, FiniteSetTheorems, WellFoundedInduction, NaturalsInduction, TLAPS

-----------------------------------------------------------------------------
(* The ring *)

\* The size of the ring is a positive natural number.
LEMMA RingSizeType == RingSize \in Nat \ {0}
  BY RingAssumption DEF RingSize

\* The distance between two dids is a did.
LEMMA BiasType ==
    ASSUME NEW n \in Did, NEW d \in Did
    PROVE  Bias(n, d) \in Did
  BY RingSizeType DEF Bias, Minus, Did

\* Did is a range of natural numbers, and so is every distance.
LEMMA BiasNat ==
    ASSUME NEW n \in Did, NEW d \in Did
    PROVE  Bias(n, d) \in Nat /\ Bias(n, d) < RingSize
  BY BiasType, RingSizeType DEF Did

\* A node is at distance zero from itself and from nothing else.
LEMMA BiasZero ==
    ASSUME NEW n \in Did, NEW d \in Did
    PROVE  Bias(n, d) = 0 <=> d = n
  BY RingSizeType DEF Bias, Minus, Did

\* Two dids at the same distance are the same did: ordering by bias is total.
LEMMA BiasInjective ==
    ASSUME NEW n \in Did, NEW d \in Did, NEW e \in Did, Bias(n, d) = Bias(n, e)
    PROVE  d = e
  BY RingSizeType DEF Bias, Minus, Did

\* Distances add up along the ring.
LEMMA BiasBetween ==
    ASSUME NEW n \in Did, NEW d \in Did, NEW e \in Did, Bias(n, d) <= Bias(n, e)
    PROVE  Bias(d, e) = Bias(n, e) - Bias(n, d)
  BY RingSizeType DEF Bias, Minus, Did

\* Adding to a did stays on the ring.
LEMMA PlusType ==
    ASSUME NEW n \in Did, NEW k \in Did
    PROVE  Plus(n, k) \in Did
  BY RingSizeType DEF Plus, Did

-----------------------------------------------------------------------------
(* Least and greatest elements *)

\* Every nonempty set of natural numbers has a least element.
LEMMA LeastNat ==
    ASSUME NEW T \in SUBSET Nat, T # {}
    PROVE  \E x \in T : \A y \in T : x <= y
<1> DEFINE R == OpToRel(<, Nat)
<1>1. IsWellFoundedOn(R, Nat)
  BY NatLessThanWellFounded
<1>2. PICK x \in T : \A y \in T : ~ (<<y, x>> \in R)
  BY <1>1, WFMin
<1>3. \A y \in T : ~ (y < x)
  BY <1>2 DEF OpToRel
<1> QED
  BY <1>3

\* Every nonempty set of dids has a nearest element.
LEMMA NearestExists ==
    ASSUME NEW n \in Did, NEW S \in SUBSET Did, S # {}
    PROVE  \E d \in S : \A e \in S : Bias(n, d) <= Bias(n, e)
<1> DEFINE T == {Bias(n, d) : d \in S}
<1>1. T \in SUBSET Nat /\ T # {}
  <2>1. \A d \in S : Bias(n, d) \in Nat
    BY BiasNat
  <2> QED
    BY <2>1
<1>2. PICK x \in T : \A y \in T : x <= y
  BY <1>1, LeastNat
<1> QED
  BY <1>2

\* Every nonempty set of dids has a farthest element.
LEMMA FarthestExists ==
    ASSUME NEW n \in Did, NEW S \in SUBSET Did, S # {}
    PROVE  \E d \in S : \A e \in S : Bias(n, e) <= Bias(n, d)
<1> DEFINE T == {RingSize - Bias(n, d) : d \in S}
<1>1. T \in SUBSET Nat /\ T # {}
  <2>1. \A d \in S : RingSize - Bias(n, d) \in Nat
    <3>1. ASSUME NEW d \in S PROVE RingSize - Bias(n, d) \in Nat
      <4>1. d \in Did
        BY <3>1
      <4>2. Bias(n, d) \in Nat /\ Bias(n, d) < RingSize
        BY <4>1, BiasNat
      <4> QED
        BY <4>2, RingSizeType
    <3> QED
      BY <3>1
  <2> QED
    BY <2>1
<1>2. PICK x \in T : \A y \in T : x <= y
  BY <1>1, LeastNat
<1>3. PICK d \in S : x = RingSize - Bias(n, d)
  BY <1>2
<1>4. ASSUME NEW e \in S PROVE Bias(n, e) <= Bias(n, d)
  <2>1. RingSize - Bias(n, d) <= RingSize - Bias(n, e)
    BY <1>2, <1>3, <1>4
  <2> QED
    BY <2>1, <1>4, BiasType, RingSizeType DEF Did
<1> QED
  BY <1>4

\* Every nonempty set of slots has a greatest element, which Max returns.
LEMMA MaxSlot ==
    ASSUME NEW I \in SUBSET Slot, I # {}
    PROVE  Max(I) \in I /\ \A i \in I : i <= Max(I)
<1> DEFINE T == {Bits - i : i \in I}
<1>1. T \in SUBSET Nat /\ T # {}
  <2>1. \A i \in I : Bits - i \in Nat
    BY RingAssumption DEF Slot
  <2> QED
    BY <2>1
<1>2. PICK x \in T : \A y \in T : x <= y
  BY <1>1, LeastNat
<1>3. PICK m \in I : x = Bits - m
  BY <1>2
<1>4. \A i \in I : m >= i
  <2>1. ASSUME NEW i \in I PROVE m >= i
    <3>1. Bits - m <= Bits - i
      BY <1>2, <1>3, <2>1
    <3> QED
      BY <3>1, <2>1, RingAssumption DEF Slot
  <2> QED
    BY <2>1
<1>5. Max(I) \in I /\ \A i \in I : Max(I) >= i
  BY <1>4 DEF Max
<1> QED
  BY <1>5 DEF Slot

\* Every nonempty set of slots has a least element, which Min returns.
LEMMA MinSlot ==
    ASSUME NEW I \in SUBSET Slot, I # {}
    PROVE  Min(I) \in I /\ \A i \in I : Min(I) <= i
<1>1. I \in SUBSET Nat
  BY RingAssumption DEF Slot
<1>2. PICK m \in I : \A i \in I : m <= i
  BY <1>1, LeastNat
<1> QED
  BY <1>2 DEF Min

-----------------------------------------------------------------------------
(* The successor sequence *)

\* The ring is finite, and so is every set of dids.
LEMMA DidsFinite ==
    ASSUME NEW S \in SUBSET Did
    PROVE  IsFiniteSet(S) /\ Cardinality(S) \in Nat
<1>1. IsFiniteSet(Did)
  BY RingSizeType, FS_Interval DEF Did
<1> QED
  BY <1>1, FS_Subset, FS_CardinalityType

\* What a slot is away from the node is a did, so its target is one.
LEMMA PowDid ==
    ASSUME NEW k \in Slot
    PROVE  Pow[k] \in Did
<1> DEFINE T == {Bits - j : j \in {i \in 0..Bits : Pow[i] > Pow[Bits]}}
<1>1. T = {}
  <2> SUFFICES ASSUME T # {} PROVE FALSE
    OBVIOUS
  <2>1. ASSUME NEW j \in 0..Bits PROVE Bits - j \in Nat
    <3>1. Bits \in Nat
      BY RingAssumption
    <3> QED
      BY <3>1
  <2>2. T \in SUBSET Nat
    BY <2>1
  <2>3. PICK x \in T : \A y \in T : x <= y
    BY <2>2, LeastNat
  <2>4. PICK i \in 0..Bits : Pow[i] > Pow[Bits] /\ x = Bits - i
    BY <2>3
  <2>5. i \in 0..(Bits - 1) /\ i + 1 \in 0..Bits /\ Pow[i] \in Nat \ {0} /\ Pow[Bits] \in Nat
    BY <2>4, RingAssumption
  <2>6. Pow[i + 1] > Pow[Bits]
    BY <2>4, <2>5, RingAssumption
  <2>7. Bits - (i + 1) \in T
    BY <2>5, <2>6
  <2>8. Bits - i <= Bits - (i + 1)
    BY <2>3, <2>4, <2>7
  <2> QED
    BY <2>5, <2>8, RingAssumption
<1>2. k \in 0..(Bits - 1) /\ k + 1 \in 0..Bits
  BY RingAssumption DEF Slot
<1>3. ~(Pow[k + 1] > Pow[Bits])
  BY <1>1, <1>2
<1>4. Pow[k] \in Nat \ {0} /\ Pow[k + 1] = 2 * Pow[k] /\ Pow[Bits] \in Nat
  BY <1>2, RingAssumption
<1> QED
  BY <1>3, <1>4 DEF Did, RingSize

\* min names an entry, and one that no entry precedes.
LEMMA SuccessorMinLeast ==
    ASSUME NEW n \in Did, NEW S \in SUBSET Did, S # {}
    PROVE  /\ SuccessorMin(n, S) \in S
           /\ \A e \in S : Bias(n, SuccessorMin(n, S)) <= Bias(n, e)
  BY NearestExists DEF SuccessorMin

\* min is a did: of an entry, or of the node when there is none.
LEMMA SuccessorMinType ==
    ASSUME NEW n \in Did, NEW S \in SUBSET Did
    PROVE  SuccessorMin(n, S) \in Did
<1>1. CASE S = {}
  BY <1>1 DEF SuccessorMin
<1>2. CASE S # {}
  BY <1>2, SuccessorMinLeast
<1> QED
  BY <1>1, <1>2

\* What truncate drops from a sequence one over its capacity is the farthest
\* entry, and nothing else.
LEMMA TruncateOne ==
    ASSUME NEW n \in Did, NEW S \in SUBSET Did,
           Cardinality(S) <= SuccessorCap + 1,
           NEW x \in S, x \notin Truncate(n, S)
    PROVE  /\ Truncate(n, S) = S \ {x}
           /\ Cardinality(S \ {x}) = SuccessorCap
           /\ \A y \in S \ {x} : Bias(n, y) < Bias(n, x)
<1> DEFINE Before(z) == {e \in S : Bias(n, e) < Bias(n, z)}
<1>1. /\ IsFiniteSet(S) /\ Cardinality(S) \in Nat /\ SuccessorCap \in Nat
      /\ IsFiniteSet(S \ {x}) /\ Cardinality(S \ {x}) = Cardinality(S) - 1
  BY DidsFinite, FS_RemoveElement, TablesAssumption
<1>2. \A z \in S : Before(z) \subseteq S \ {z}
  BY BiasType, RingSizeType DEF Did
<1>3. \A z \in S : IsFiniteSet(Before(z)) /\ Cardinality(Before(z)) \in Nat
  BY DidsFinite
<1>4. Cardinality(Before(x)) >= SuccessorCap
  <2>1. ~ (Cardinality(Before(x)) < SuccessorCap)
    BY DEF Truncate
  <2>2. Cardinality(Before(x)) \in Nat
    BY <1>3
  <2> HIDE DEF Before
  <2> QED
    BY <1>1, <2>1, <2>2
<1>5. Cardinality(Before(x)) <= Cardinality(S \ {x})
  BY <1>1, <1>2, FS_Subset
<1>6. Cardinality(S \ {x}) = SuccessorCap /\ Cardinality(Before(x)) = Cardinality(S \ {x})
  <2>1. Cardinality(Before(x)) \in Nat
    BY <1>3
  <2> HIDE DEF Before
  <2> QED
    BY <1>1, <1>4, <1>5, <2>1
<1>7. Before(x) = S \ {x}
  BY <1>1, <1>2, <1>6, FS_Subset
<1>8. \A y \in S \ {x} : Bias(n, y) < Bias(n, x)
  BY <1>7
<1>9. ASSUME NEW y \in S \ {x} PROVE y \in Truncate(n, S)
  <2>1. Before(y) \subseteq (S \ {x}) \ {y}
    BY <1>2, <1>8, <1>9, BiasType, RingSizeType DEF Did
  <2>2. /\ IsFiniteSet((S \ {x}) \ {y})
        /\ Cardinality((S \ {x}) \ {y}) = SuccessorCap - 1
    BY <1>1, <1>6, <1>9, FS_RemoveElement
  <2>3. Cardinality(Before(y)) <= SuccessorCap - 1
    BY <2>1, <2>2, FS_Subset
  <2>4. Cardinality(Before(y)) \in Nat
    BY <1>3, <1>9
  <2>5. Cardinality(Before(y)) < SuccessorCap
    <3> HIDE DEF Before
    <3> QED
      BY <1>1, <2>3, <2>4
  <2> QED
    BY <2>5, <1>9 DEF Truncate
<1>10. Truncate(n, S) = S \ {x}
  BY <1>9 DEF Truncate
<1> QED
  BY <1>6, <1>8, <1>10

\* update keeps the sequence within its capacity and free of the node, and
\* what it drops is farther than all it keeps in a full sequence.
LEMMA SuccessorUpdateSound ==
    ASSUME NEW n \in Did, NEW d \in Did, NEW S \in SUBSET (Did \ {n}),
           Cardinality(S) <= SuccessorCap
    PROVE  LET U == SuccessorUpdate(n, S, d)
           IN  /\ U \in SUBSET (Did \ {n})
               /\ U \subseteq S \cup {d}
               /\ Cardinality(U) <= SuccessorCap
               /\ \A x \in S \ U : /\ Cardinality(U) = SuccessorCap
                                   /\ \A y \in U : Bias(n, y) < Bias(n, x)
<1> DEFINE U == SuccessorUpdate(n, S, d)
           W == S \cup {d}
<1>1. CASE d \in S \cup {n}
  <2>1. U = S
    BY <1>1 DEF SuccessorUpdate
  <2> QED
    BY <2>1
<1>2. CASE d \notin S \cup {n}
  <2>1. U = Truncate(n, W)
    BY <1>2 DEF SuccessorUpdate
  <2>2. U \subseteq W /\ U \in SUBSET (Did \ {n})
    BY <2>1, <1>2 DEF Truncate
  <2>3. W \in SUBSET Did /\ Cardinality(W) <= SuccessorCap + 1
    BY DidsFinite, FS_AddElement, TablesAssumption
  <2>4. ASSUME NEW x \in W, x \notin U
        PROVE  /\ U = W \ {x}
               /\ Cardinality(U) = SuccessorCap
               /\ \A y \in U : Bias(n, y) < Bias(n, x)
    <3> HIDE DEF U, W
    <3>1. x \notin Truncate(n, W)
      BY <2>1, <2>4
    <3>2. /\ Truncate(n, W) = W \ {x}
          /\ Cardinality(W \ {x}) = SuccessorCap
          /\ \A y \in W \ {x} : Bias(n, y) < Bias(n, x)
      BY <3>1, <2>3, <2>4, TruncateOne
    <3> QED
      BY <2>1, <3>2
  <2>5. Cardinality(U) <= SuccessorCap
    <3>1. CASE U = W
      <4>1. SuccessorCap \in Nat /\ Cardinality(W) \in Nat /\ IsFiniteSet(W)
        BY <2>3, DidsFinite, TablesAssumption
      <4>2. SUFFICES ASSUME Cardinality(W) = SuccessorCap + 1 PROVE FALSE
        BY <3>1, <2>3, <4>1
      <4>3. W # {}
        BY <1>2
      <4>4. PICK x \in W : \A e \in W : Bias(n, e) <= Bias(n, x)
        BY <4>3, <2>3, FarthestExists
      <4> DEFINE B == {e \in W : Bias(n, e) < Bias(n, x)}
      <4>5. B = W \ {x}
        <5>1. ASSUME NEW e \in W, e # x PROVE Bias(n, e) < Bias(n, x)
          <6>1. e \in Did /\ x \in Did
            BY <2>3, <4>4
          <6>2. Bias(n, e) # Bias(n, x)
            BY <5>1, <6>1, BiasInjective
          <6>3. Bias(n, e) \in Nat /\ Bias(n, x) \in Nat
            BY <6>1, BiasNat
          <6>4. Bias(n, e) <= Bias(n, x)
            BY <5>1, <4>4
          <6> DEFINE a == Bias(n, e)
                     b == Bias(n, x)
          <6>5. a # b /\ a \in Nat /\ b \in Nat /\ a <= b
            BY <6>2, <6>3, <6>4
          <6> HIDE DEF a, b
          <6>6. a < b
            BY <6>5
          <6> QED
            BY <6>6 DEF a, b
        <5>2. ~ (Bias(n, x) < Bias(n, x))
          <6>1. x \in Did
            BY <2>3, <4>4
          <6> DEFINE b == Bias(n, x)
          <6>2. b \in Nat
            BY <6>1, BiasNat
          <6> HIDE DEF b
          <6>3. ~ (b < b)
            BY <6>2
          <6> QED
            BY <6>3 DEF b
        <5> HIDE DEF W
        <5> QED
          BY <5>1, <5>2
      <4>6. Cardinality(B) = SuccessorCap
        <5> HIDE DEF B, W
        <5>1. Cardinality(W \ {x}) = Cardinality(W) - 1
          BY <4>1, <4>4, FS_RemoveElement
        <5> QED
          BY <4>5, <4>1, <4>2, <5>1
      <4>7. x \notin Truncate(n, W)
        <5>1. B = {e \in W : Bias(n, e) < Bias(n, x)}
          OBVIOUS
        <5>2. ~ (Cardinality(B) < SuccessorCap)
          BY <4>6, <4>1
        <5> HIDE DEF B, W
        <5> QED
          BY <5>1, <5>2 DEF Truncate
      <4> HIDE DEF U, W
      <4> QED
        BY <4>4, <4>7, <3>1, <2>1
    <3>2. CASE U # W
      BY <3>2, <2>2, <2>4, TablesAssumption
    <3> QED
      BY <3>1, <3>2
  <2> QED
    BY <2>2, <2>4, <2>5
<1> QED
  BY <1>1, <1>2

-----------------------------------------------------------------------------
(* The finger table *)

\* join and set keep the table a table.
LEMMA FingerJoinType ==
    ASSUME NEW n \in Did, NEW d \in Did, NEW F \in Fingers
    PROVE  FingerJoin(n, F, d) \in Fingers
  BY DEF FingerJoin, Fingers

\* The first finger, if there is one, is a did.
LEMMA FingerFirstType ==
    ASSUME NEW F \in Fingers
    PROVE  /\ FingerFirst(F) \in Did \cup {NoDid}
           /\ FingerFirst(F) # NoDid => \E k \in Slot : FingerFirst(F) = F[k]
<1>1. CASE KnownSlots(F) = {}
  BY <1>1 DEF FingerFirst
<1>2. CASE KnownSlots(F) # {}
  <2>1. KnownSlots(F) \in SUBSET Slot
    BY DEF KnownSlots
  <2>2. Min(KnownSlots(F)) \in KnownSlots(F)
    BY <1>2, <2>1, MinSlot
  <2> QED
    BY <1>2, <2>1, <2>2 DEF FingerFirst, Fingers
<1> QED
  BY <1>1, <1>2

\* remove clears the did from the whole table: the value that fills its
\* slots stands after the last of them.
LEMMA FingerRemoveGone ==
    ASSUME NEW F \in Fingers, NEW d \in Did
    PROVE  /\ FingerRemove(F, d) \in Fingers
           /\ \A k \in Slot : FingerRemove(F, d)[k] # d
<1> DEFINE held == FingerSlots(F, d)
           next == Max(held) + 1
           fix  == IF next \in Slot THEN F[next] ELSE NoDid
<1>1. fix \in Did \cup {NoDid}
  BY DEF Fingers
<1>2. FingerRemove(F, d) \in Fingers
  BY <1>1 DEF FingerRemove, Fingers
<1>3. held \in SUBSET Slot
  BY DEF FingerSlots
<1>4. ASSUME NEW k \in Slot PROVE FingerRemove(F, d)[k] # d
  <2>1. CASE (\E i \in held : i <= k) /\ (\E j \in held : k <= j)
    <3>1. FingerRemove(F, d)[k] = fix
      BY <2>1, <1>4 DEF FingerRemove
    <3>2. Max(held) \in held /\ \A i \in held : i <= Max(held)
      BY <2>1, <1>3, MaxSlot
    <3>3. next \notin held
      BY <3>2, <1>3 DEF Slot
    <3>4. fix # d
      BY <3>3, TablesAssumption DEF FingerSlots
    <3> QED
      BY <3>1, <3>4
  <2>2. CASE ~ ((\E i \in held : i <= k) /\ (\E j \in held : k <= j))
    <3>1. FingerRemove(F, d)[k] = F[k]
      BY <2>2, <1>4 DEF FingerRemove
    <3>2. k \notin held
      BY <2>2, <1>4 DEF Slot
    <3> QED
      BY <3>1, <3>2, <1>4 DEF FingerSlots
  <2> QED
    BY <2>1, <2>2
<1> QED
  BY <1>2, <1>4

\* closest names the node itself, or a finger strictly nearer than the
\* target.
LEMMA ClosestBefore ==
    ASSUME NEW n \in Did, NEW F \in Fingers, NEW d \in Did
    PROVE  /\ Closest(n, F, d) \in Did
           /\ Closest(n, F, d) # n => Bias(n, Closest(n, F, d)) < Bias(n, d)
<1> DEFINE before == {k \in KnownSlots(F) : Bias(n, F[k]) < Bias(n, d)}
<1>1. CASE before = {}
  BY <1>1 DEF Closest
<1>2. CASE before # {}
  <2>1. before \in SUBSET Slot
    BY DEF KnownSlots
  <2>2. Max(before) \in before
    BY <1>2, <2>1, MaxSlot
  <2> QED
    BY <1>2, <2>1, <2>2 DEF Closest, KnownSlots, Fingers
<1> QED
  BY <1>1, <1>2
=============================================================================
