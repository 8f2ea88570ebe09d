-------------------------- MODULE ChunkListProofs ---------------------------
(***************************************************************************)
(* Reassembly for any messages of any number of chunks, any number of      *)
(* copies of them in any order, and any clock: what ChunkList returns is   *)
(* whole and fresh, and it is returned as soon as all of it is there.      *)
(***************************************************************************)
EXTENDS ChunkList, FiniteSetTheorems, FunctionTheorems, SequenceTheorems, TLAPS

Pieces(id) == {Chunk(id, i) : i \in 0..(Total[id] - 1)}

Piece == UNION {Pieces(id) : id \in Id}

WholeOf(id) == [i \in 1..Total[id] |-> Chunk(id, i - 1)]

\* The chunk with this index is somewhere in s.
Holds(s, id, i) == \E k \in DOMAIN s : s[k] = Chunk(id, i)

TypeOK ==
    /\ list \in Seq(Piece)
    /\ now \in Nat
    /\ DOMAIN arrived = Id /\ \A id \in Id : arrived[id] \in [0..(Total[id] - 1) -> Nat]
    /\ delivered \in [Id -> Seq(Seq(Piece))]

Timely(id) ==
    /\ Created[id] <= Tolerance /\ Ttl[id] <= MaxTtl
    /\ Created[id] + Ttl[id] > now

\* Of a message that is not returned and not too late, nothing gets lost.
Listed ==
    \A id \in Id : Timely(id) /\ delivered[id] = <<>> =>
        \A i \in 0..(Total[id] - 1) : arrived[id][i] > 0 => Holds(list, id, i)

IInv == TypeOK /\ WithdrawnWhole /\ Listed /\ DeliveredInTime
-----------------------------------------------------------------------------
(* Putting in order *)

\* Every nonempty set of natural numbers has a least element.
LEMMA LeastNumber ==
    ASSUME NEW T \in SUBSET Nat, T # {}
    PROVE  \E x \in T : \A y \in T : x <= y
<1> DEFINE R == OpToRel(<, Nat)
<1>1. PICK x \in T : \A y \in T : ~ (<<y, x>> \in R)
  BY NatLessThanWellFounded, WFMin
<1>2. \A y \in T : ~ (y < x)
  BY <1>1 DEF OpToRel
<1>3. QED
  BY <1>2

\* j comes before k, or is k: by key, then as they came.
Before(key, j, k) == key[j] < key[k] \/ (key[j] = key[k] /\ j <= k)

UptoK(at, key, k) == {j \in at : Before(key, j, k)}

\* The rank of a place among others is its number in their order.
LEMMA Ranks ==
    ASSUME NEW at \in SUBSET Nat, IsFiniteSet(at), NEW key, \A k \in at : key[k] \in Nat
    PROVE  /\ \A k \in at : Cardinality(UptoK(at, key, k)) \in 1..Cardinality(at)
           /\ \A r \in 1..Cardinality(at) : \E k \in at : Cardinality(UptoK(at, key, k)) = r
           /\ \A j, k \in at :
                 Cardinality(UptoK(at, key, j)) <= Cardinality(UptoK(at, key, k))
                     => Before(key, j, k)
<1> DEFINE N == Cardinality(at)
           U(k) == UptoK(at, key, k)
           rank == [k \in at |-> Cardinality(U(k))]
<1>1. N \in Nat
  BY FS_CardinalityType
<1>2. ASSUME NEW k \in at
      PROVE  /\ IsFiniteSet(U(k)) /\ Cardinality(U(k)) \in 1..N
  <2>1. U(k) \in SUBSET at /\ k \in U(k)
    BY DEF UptoK, Before
  <2> HIDE DEF U
  <2>2. IsFiniteSet(U(k)) /\ Cardinality(U(k)) <= N
    BY <2>1, FS_Subset
  <2>3. Cardinality(U(k)) \in Nat /\ Cardinality(U(k)) # 0
    BY <2>1, <2>2, FS_CardinalityType, FS_EmptySet
  <2>4. QED
    BY <1>1, <2>2, <2>3
<1>3. ASSUME NEW j \in at, NEW k \in at, ~Before(key, j, k)
      PROVE  Cardinality(U(k)) < Cardinality(U(j))
  <2>1. U(k) \in SUBSET U(j) /\ j \in U(j) /\ j \notin U(k)
    <3>1. ASSUME NEW i \in at, Before(key, i, k) PROVE Before(key, i, j)
      <4>1. /\ i \in Nat /\ j \in Nat /\ k \in Nat
            /\ key[i] \in Nat /\ key[j] \in Nat /\ key[k] \in Nat
        OBVIOUS
      <4>2. QED
        BY <1>3, <3>1, <4>1 DEF Before
    <3>2. Before(key, j, j)
      BY DEF Before
    <3>3. QED
      BY <1>3, <3>1, <3>2 DEF UptoK
  <2>2. IsFiniteSet(U(j))
    BY <1>2
  <2>3. Cardinality(U(k)) \in 1..N /\ Cardinality(U(j)) \in 1..N
    BY <1>2
  <2> HIDE DEF U
  <2>4. Cardinality(U(k)) <= Cardinality(U(j)) /\ Cardinality(U(j)) # Cardinality(U(k))
    BY <2>1, <2>2, FS_Subset
  <2>5. QED
    BY <1>1, <2>3, <2>4
<1>4. rank \in Injection(at, 1..N)
  <2>1. rank \in [at -> 1..N]
    BY <1>2
  <2>2. ASSUME NEW j \in at, NEW k \in at, rank[j] = rank[k]
        PROVE  j = k
    <3>1. Cardinality(U(j)) = Cardinality(U(k))
      BY <2>2
    <3>2. Cardinality(U(j)) \in Nat /\ Cardinality(U(k)) \in Nat
      BY <1>2, <1>1
    <3> HIDE DEF U, rank
    <3>3. Before(key, j, k) /\ Before(key, k, j)
      BY <1>3, <3>1, <3>2
    <3>4. QED
      BY <3>3 DEF Before
  <2> HIDE DEF rank
  <2>3. QED
    BY <2>1, <2>2 DEF Injection, IsInjective
<1>5. IsFiniteSet(1..N) /\ Cardinality(1..N) = N
  <2>1. 1 \in Int /\ N \in Int /\ (IF 1 > N THEN 0 ELSE N - 1 + 1) = N
    BY <1>1
  <2> HIDE DEF N
  <2>2. QED
    BY <2>1, FS_Interval
<1>6. rank \in Surjection(at, 1..N)
  <2> DEFINE T == 1..N
  <2>1. rank \in Injection(at, T) /\ IsFiniteSet(T) /\ Cardinality(at) = Cardinality(T)
    BY <1>4, <1>5
  <2> HIDE DEF rank, T
  <2>2. rank \in Surjection(at, T)
    BY <2>1, FS_Injection
  <2>3. QED
    BY <2>2 DEF T
<1>7. \A r \in 1..N : \E k \in at : Cardinality(U(k)) = r
  <2>1. \A r \in 1..N : \E k \in at : rank[k] = r
    BY <1>6 DEF Surjection
  <2>2. QED
    BY <2>1
<1>8. \A j, k \in at : Cardinality(U(j)) <= Cardinality(U(k)) => Before(key, j, k)
  <2> SUFFICES ASSUME NEW j \in at, NEW k \in at, Cardinality(U(j)) <= Cardinality(U(k)),
                      ~Before(key, j, k)
               PROVE  FALSE
    OBVIOUS
  <2>1. Cardinality(U(k)) < Cardinality(U(j))
    BY <1>3
  <2>2. Cardinality(U(j)) \in 1..N /\ Cardinality(U(k)) \in 1..N
    BY <1>2
  <2> HIDE DEF U
  <2>3. QED
    BY <1>1, <2>1, <2>2
<1>9. QED
  BY <1>2, <1>7, <1>8

\* t has the chunks of s at those places, each once and in that order.
Arranges(nth, t, s, at, key) ==
    /\ nth \in [DOMAIN t -> at]
    /\ \A r \in DOMAIN t : t[r] = s[nth[r]]
    /\ \A k \in at : \E r \in DOMAIN t : nth[r] = k
    /\ \A r, q \in DOMAIN t : r <= q => Before(key, nth[r], nth[q])
    /\ \A r, q \in DOMAIN t : nth[r] = nth[q] => r = q

\* An arrangement by a key keeps the places chosen, each once, in the order of the key.
LEMMA ArrangedAs ==
    ASSUME NEW S, NEW s \in Seq(S), NEW at \in SUBSET (DOMAIN s),
           NEW key, \A k \in at : key[k] \in Nat
    PROVE  /\ Arranged(s, at, key) \in Seq(S)
           /\ \E nth : Arranges(nth, Arranged(s, at, key), s, at, key)
<1> DEFINE N == Cardinality(at)
           rank(k) == Cardinality(UptoK(at, key, k))
           nth == [r \in 1..N |-> CHOOSE k \in at : rank(k) = r]
           t == Arranged(s, at, key)
<1>1. at \in SUBSET Nat /\ IsFiniteSet(at) /\ N \in Nat
  <2>1. DOMAIN s = 1..Len(s) /\ Len(s) \in Nat
    BY LenProperties
  <2>2. IsFiniteSet(1..Len(s))
    BY <2>1, FS_Interval
  <2>3. at \in SUBSET (1..Len(s))
    BY <2>1
  <2>4. IsFiniteSet(at)
    BY <2>2, <2>3, FS_Subset
  <2>5. QED
    BY <2>1, <2>4, FS_CardinalityType
<1>2. /\ \A k \in at : rank(k) \in 1..N
      /\ \A r \in 1..N : \E k \in at : rank(k) = r
      /\ \A j, k \in at : rank(j) <= rank(k) => Before(key, j, k)
  BY <1>1, Ranks
<1>3. t = [r \in 1..N |-> s[CHOOSE k \in at : rank(k) = r]]
  BY DEF Arranged, UptoK, Before
<1> HIDE DEF t, rank, N
<1>4. \A r \in 1..N : nth[r] \in at /\ rank(nth[r]) = r
  BY <1>2
<1>5. nth \in [1..N -> at]
  BY <1>4
<1>6. DOMAIN t = 1..N /\ \A r \in 1..N : t[r] = s[nth[r]]
  BY <1>3
<1> HIDE DEF nth
<1>7. t \in Seq(S)
  <2>1. \A r \in 1..N : s[nth[r]] \in S
    BY <1>4, LenProperties, ElementOfSeq
  <2>2. t \in [1..N -> S]
    BY <1>3, <1>6, <2>1
  <2>3. QED
    BY <1>1, <2>2, IsASeq
<1>8. ASSUME NEW k \in at
      PROVE  \E r \in 1..N : nth[r] = k
  <2>1. rank(k) \in 1..N /\ nth[rank(k)] \in at /\ rank(nth[rank(k)]) = rank(k)
    BY <1>2, <1>4
  <2>2. rank(k) \in Nat
    BY <1>1, <2>1
  <2>3. Before(key, nth[rank(k)], k) /\ Before(key, k, nth[rank(k)])
    BY <1>2, <2>1, <2>2
  <2>4. nth[rank(k)] = k
    BY <1>1, <2>1, <2>3 DEF Before
  <2>5. QED
    BY <2>1, <2>4
<1>9. \A r, q \in 1..N : r <= q => Before(key, nth[r], nth[q])
  BY <1>2, <1>4
<1>10. \A r, q \in 1..N : nth[r] = nth[q] => r = q
  BY <1>4
<1>11. Arranges(nth, t, s, at, key)
  BY <1>5, <1>6, <1>8, <1>9, <1>10 DEF Arranges
<1>12. QED
  BY <1>7, <1>11 DEF t

\* retain and filter leave the chunks at those places and no others.
LEMMA RetainedAs ==
    ASSUME NEW S, NEW s \in Seq(S), NEW at \in SUBSET (DOMAIN s)
    PROVE  /\ Retained(s, at) \in Seq(S)
           /\ \A r \in DOMAIN Retained(s, at) : \E k \in at : Retained(s, at)[r] = s[k]
           /\ \A k \in at : \E r \in DOMAIN Retained(s, at) : Retained(s, at)[r] = s[k]
<1> DEFINE key == [k \in DOMAIN s |-> 0]
           t == Arranged(s, at, key)
<1>1. \A k \in at : key[k] \in Nat
  OBVIOUS
<1>2. t = Retained(s, at)
  BY DEF Retained
<1> HIDE DEF key
<1>3. t \in Seq(S) /\ \E nth : Arranges(nth, t, s, at, key)
  BY <1>1, ArrangedAs
<1> HIDE DEF t
<1>4. (\A r \in DOMAIN t : \E k \in at : t[r] = s[k])
      /\ (\A k \in at : \E r \in DOMAIN t : t[r] = s[k])
  BY <1>3 DEF Arranges
<1>5. QED
  BY <1>2, <1>3, <1>4

-----------------------------------------------------------------------------
(* formalize *)

Ascending(s) == \A r, q \in DOMAIN s : r <= q => s[r].index <= s[q].index

Ascends(s) == \A r, q \in DOMAIN s : r < q => s[r].index < s[q].index

\* Every index of s is left when its neighbours with the same index are gone.
LEMMA DedupKeeps ==
    ASSUME NEW S, NEW s \in Seq(S), NEW k \in DOMAIN s
    PROVE  \E j \in Dedup(s) : s[j].index = s[k].index
<1> DEFINE T == {j \in DOMAIN s : s[j].index = s[k].index}
<1>1. DOMAIN s = 1..Len(s) /\ Len(s) \in Nat
  BY LenProperties
<1>2. T \in SUBSET Nat /\ T # {}
  BY <1>1
<1>3. PICK j \in T : \A i \in T : j <= i
  <2> HIDE DEF T
  <2>1. QED
    BY <1>2, LeastNumber
<1>4. j > 1 => s[j].index # s[j - 1].index
  <2> SUFFICES ASSUME j > 1, s[j].index = s[j - 1].index PROVE FALSE
    OBVIOUS
  <2>1. j - 1 \in DOMAIN s /\ j \in Nat
    BY <1>1
  <2>2. j - 1 \in T
    BY <2>1
  <2>3. QED
    BY <1>3, <2>1, <2>2
<1>5. QED
  BY <1>4 DEF Dedup

\* Duplicates that stand apart survive one pass, but not a second: the first
\* leaves them side by side.
LEMMA FormalizeAs ==
    ASSUME NEW S, \A c \in S : c.index \in Nat, NEW s \in Seq(S)
    PROVE  /\ Formalize(s) \in Seq(S)
           /\ \A r \in DOMAIN Formalize(s) : \E k \in DOMAIN s : Formalize(s)[r] = s[k]
           /\ \A k \in DOMAIN s : \E r \in DOMAIN Formalize(s) :
                 Formalize(s)[r].index = s[k].index
           /\ Ascending(Formalize(s))
           /\ Ascending(s) => Ascends(Formalize(s))
<1> DEFINE key == [k \in DOMAIN s |-> s[k].index]
           at == Dedup(s)
           t == Arranged(s, at, key)
<1>1. DOMAIN s = 1..Len(s) /\ Len(s) \in Nat /\ \A k \in DOMAIN s : s[k] \in S
  BY LenProperties, ElementOfSeq
<1>2. at \in SUBSET (DOMAIN s)
  BY DEF Dedup
<1>3. \A k \in DOMAIN s : key[k] = s[k].index /\ key[k] \in Nat
  BY <1>1
<1>4. t = Formalize(s)
  BY DEF Formalize
<1> HIDE DEF key, at
<1>5. \A k \in at : key[k] \in Nat
  BY <1>2, <1>3
<1>6. t \in Seq(S) /\ \E nth : Arranges(nth, t, s, at, key)
  BY <1>2, <1>5, ArrangedAs
<1> HIDE DEF t
<1>7. PICK nth : /\ nth \in [DOMAIN t -> at]
                 /\ \A r \in DOMAIN t : t[r] = s[nth[r]]
                 /\ \A k \in at : \E r \in DOMAIN t : nth[r] = k
                 /\ \A r, q \in DOMAIN t : r <= q => Before(key, nth[r], nth[q])
                 /\ \A r, q \in DOMAIN t : nth[r] = nth[q] => r = q
  BY <1>6 DEF Arranges
<1>8. \A r \in DOMAIN t : nth[r] \in at /\ nth[r] \in DOMAIN s
  BY <1>2, <1>7
<1>9. \A r \in DOMAIN t : \E k \in DOMAIN s : t[r] = s[k]
  BY <1>7, <1>8
<1>10. \A k \in DOMAIN s : \E r \in DOMAIN t : t[r].index = s[k].index
  <2> TAKE k \in DOMAIN s
  <2>1. PICK j \in at : s[j].index = s[k].index
    BY DedupKeeps DEF at
  <2>2. PICK r \in DOMAIN t : nth[r] = j
    BY <1>7
  <2>3. QED
    BY <1>7, <2>1, <2>2
<1>11. \A r \in DOMAIN t : t[r].index = key[nth[r]] /\ key[nth[r]] \in Nat
  BY <1>3, <1>7, <1>8
<1>12. Ascending(t)
  BY <1>7, <1>11 DEF Ascending, Before
<1>13. ASSUME Ascending(s) PROVE Ascends(t)
  <2> SUFFICES ASSUME NEW r \in DOMAIN t, NEW q \in DOMAIN t, r < q,
                      ~ (t[r].index < t[q].index)
               PROVE  FALSE
    BY DEF Ascends
  <2> DEFINE i == nth[r]
             j == nth[q]
  <2>1. r \in Nat /\ q \in Nat
    BY <1>6, LenProperties
  <2>2. /\ i \in DOMAIN s /\ j \in DOMAIN s /\ j \in at /\ i # j
        /\ Before(key, i, j)
        /\ t[r].index = key[i] /\ t[q].index = key[j] /\ key[i] \in Nat /\ key[j] \in Nat
    BY <1>7, <1>8, <1>11, <2>1
  <2> HIDE DEF i, j
  <2>3. key[i] = key[j] /\ i < j
    BY <1>1, <2>2 DEF Before
  <2>4. j - 1 \in DOMAIN s /\ i <= j - 1 /\ j - 1 <= j /\ j > 1
    BY <1>1, <2>2, <2>3
  <2>5. s[i].index <= s[j - 1].index /\ s[j - 1].index <= s[j].index
    BY <1>13, <2>2, <2>4 DEF Ascending
  <2>6. s[i].index \in Nat /\ s[j - 1].index \in Nat /\ s[j].index \in Nat
        /\ s[i].index = s[j].index
    BY <1>3, <2>2, <2>3, <2>4
  <2>7. s[j].index = s[j - 1].index
    BY <2>5, <2>6
  <2>8. QED
    BY <2>2, <2>4, <2>7 DEF at, Dedup
<1>14. QED
  BY <1>4, <1>6, <1>9, <1>10, <1>12, <1>13

-----------------------------------------------------------------------------
(* get *)

\* Indices that ascend leave room for those between them.
LEMMA Counting ==
    ASSUME NEW f, NEW L \in Nat, DOMAIN f = 1..L, \A r \in 1..L : f[r].index \in Nat, Ascends(f),
           NEW r \in 1..L, NEW q \in r..L
    PROVE  f[r].index + (q - r) <= f[q].index
<1> SUFFICES ASSUME ~ (f[r].index + (q - r) <= f[q].index) PROVE FALSE
  OBVIOUS
<1> DEFINE T == {x \in r..L : ~ (f[r].index + (x - r) <= f[x].index)}
<1>1. T \in SUBSET Nat /\ q \in T
  OBVIOUS
<1>2. PICK x \in T : \A y \in T : x <= y
  <2> HIDE DEF T
  <2>1. QED
    BY <1>1, LeastNumber
<1>3. x # r /\ x \in Nat /\ x \in 1..L /\ f[r].index \in Nat
  OBVIOUS
<1>4. x - 1 \in r..L /\ x - 1 \in 1..L /\ ~ (x <= x - 1)
  BY <1>3
<1>5. x - 1 \notin T
  BY <1>2, <1>4
<1>6. f[r].index + ((x - 1) - r) <= f[x - 1].index
  BY <1>4, <1>5
<1>7. f[x - 1].index < f[x].index /\ f[x - 1].index \in Nat /\ f[x].index \in Nat
  <2>1. x - 1 \in DOMAIN f /\ x \in DOMAIN f /\ x - 1 < x
    BY <1>3, <1>4
  <2>2. QED
    BY <1>3, <1>4, <2>1 DEF Ascends
<1>8. f[r].index + (x - r) <= f[x].index
  BY <1>3, <1>6, <1>7
<1>9. QED
  BY <1>2, <1>8

\* A piece of a message carries the message's id and total, and a valid index.
LEMMA PieceFields ==
    ASSUME NEW id \in Id, NEW c \in Pieces(id)
    PROVE  /\ c.id = id /\ c.index \in 0..(Total[id] - 1) /\ c.index \in Nat /\ c.total = Total[id]
           /\ c = Chunk(id, c.index)
<1>1. Total[id] \in Nat
  BY ChunkAssumption
<1>2. QED
  BY <1>1 DEF Pieces, Chunk

\* The piece with a valid index is a piece of its message.
LEMMA ChunkPiece ==
    ASSUME NEW id \in Id, NEW i \in 0..(Total[id] - 1)
    PROVE  /\ Chunk(id, i) \in Pieces(id) /\ Chunk(id, i) \in Piece
           /\ Chunk(id, i).id = id /\ Chunk(id, i).index = i
  BY DEF Pieces, Piece, Chunk

\* Pieces of one message in strictly ascending order are the message exactly
\* when there are as many as it has.
LEMMA Complete ==
    ASSUME NEW id \in Id, NEW f \in Seq(Pieces(id)), Ascends(f)
    PROVE  /\ Len(f) = Total[id] => f = WholeOf(id)
           /\ (\A i \in 0..(Total[id] - 1) : \E r \in DOMAIN f : f[r].index = i)
                  => Len(f) = Total[id]
<1> DEFINE L == Len(f)
           T == Total[id]
<1>1. T \in Nat /\ T >= 1
  BY ChunkAssumption
<1>2. L \in Nat /\ DOMAIN f = 1..L
  BY LenProperties
<1>3. \A r \in 1..L : f[r].index \in 0..(T - 1) /\ f[r].index \in Nat /\ f[r] = Chunk(id, f[r].index)
  <2>1. \A r \in 1..L : f[r] \in Pieces(id)
    BY ElementOfSeq
  <2>2. QED
    BY <2>1, PieceFields
<1>4. ASSUME NEW r \in 1..L
      PROVE  f[1].index + (r - 1) <= f[r].index /\ f[r].index + (L - r) <= f[L].index
             /\ 1 \in 1..L /\ L \in 1..L
  <2>1. 1 \in 1..L /\ L \in 1..L /\ r \in 1..L /\ L \in r..L
    BY <1>2
  <2> HIDE DEF L
  <2>2. QED
    BY <1>2, <1>3, <2>1, Counting
<1>5. ASSUME L = T PROVE f = WholeOf(id)
  <2>1. ASSUME NEW r \in 1..L PROVE f[r] = Chunk(id, r - 1)
    <3>1. /\ f[1].index \in 0..(T - 1) /\ f[L].index \in 0..(T - 1) /\ f[r].index \in 0..(T - 1)
          /\ f[r] = Chunk(id, f[r].index)
      BY <1>3, <1>4
    <3>2. f[1].index + (r - 1) <= f[r].index /\ f[r].index + (L - r) <= f[L].index
      BY <1>4
    <3> DEFINE a == f[1].index
               b == f[r].index
               c == f[L].index
    <3>3. /\ a \in 0..(T - 1) /\ b \in 0..(T - 1) /\ c \in 0..(T - 1)
          /\ a + (r - 1) <= b /\ b + (L - r) <= c
      BY <3>1, <3>2
    <3> HIDE DEF a, b, c, L, T
    <3>4. b = r - 1
      BY <1>1, <1>2, <1>5, <3>3
    <3>5. QED
      BY <3>1, <3>4 DEF b
  <2>2. f = [r \in 1..L |-> f[r]]
    BY <1>2
  <2>3. f = [r \in 1..L |-> Chunk(id, r - 1)]
    BY <2>1, <2>2
  <2>4. QED
    BY <1>5, <2>3 DEF WholeOf
<1>6. ASSUME \A i \in 0..(T - 1) : \E r \in DOMAIN f : f[r].index = i
      PROVE  L = T
  <2> DEFINE D == 1..L
             C == 0..(T - 1)
             g == [r \in D |-> f[r].index]
  <2>1. g \in Surjection(D, C)
    <3>1. g \in [D -> C]
      BY <1>3
    <3>2. \A i \in C : \E r \in D : g[r] = i
      BY <1>2, <1>6
    <3> HIDE DEF g, D, C
    <3>3. QED
      BY <3>1, <3>2 DEF Surjection
  <2>2. IsFiniteSet(D) /\ Cardinality(D) = L
    <3>1. 1 \in Int /\ L \in Int /\ (IF 1 > L THEN 0 ELSE L - 1 + 1) = L
      BY <1>2
    <3> HIDE DEF L
    <3>2. QED
      BY <3>1, FS_Interval
  <2>3. IsFiniteSet(C) /\ Cardinality(C) = T
    <3>1. 0 \in Int /\ T - 1 \in Int /\ (IF 0 > T - 1 THEN 0 ELSE (T - 1) - 0 + 1) = T
      BY <1>1
    <3> HIDE DEF T
    <3>2. QED
      BY <3>1, FS_Interval
  <2> HIDE DEF g, D, C
  <2>4. T <= L
    <3>1. Cardinality(C) <= Cardinality(D)
      BY <2>1, <2>2, FS_Surjection
    <3>2. QED
      BY <2>2, <2>3, <3>1
  <2>5. L \in 1..L /\ 1 \in 1..L
    BY <1>1, <1>2, <2>4
  <2>6. f[1].index \in Nat /\ f[L].index \in 0..(T - 1) /\ f[1].index + (L - 1) <= f[L].index
    BY <1>3, <1>4, <2>5
  <2> HIDE DEF L, T
  <2>7. QED
    BY <1>1, <1>2, <2>4, <2>6
<1>7. QED
  BY <1>5, <1>6

\* get gives the whole message if every chunk of it is in the list, wherever
\* and however often, and nothing otherwise.
LEMMA GetWhole ==
    ASSUME NEW id \in Id, NEW s \in Seq(Piece)
    PROVE  /\ WholeOf(id) # <<>>
           /\ WholeOf(id) \in Seq(Piece)
           /\ (\A i \in 0..(Total[id] - 1) : Holds(s, id, i)) => Get(s, id) = WholeOf(id)
           /\ ~(\A i \in 0..(Total[id] - 1) : Holds(s, id, i)) => Get(s, id) = <<>>
<1> DEFINE at == {k \in DOMAIN s : s[k].id = id}
           one == Retained(s, at)
           found == Formalize(one)
           f == Formalize(found)
           T == Total[id]
<1>1. T \in Nat /\ T >= 1
  BY ChunkAssumption
<1>2. WholeOf(id) # <<>> /\ WholeOf(id) \in Seq(Piece)
  <2>1. \A i \in 1..T : i - 1 \in 0..(T - 1)
    BY <1>1
  <2>2. WholeOf(id) \in [1..T -> Piece]
    BY <2>1, ChunkPiece DEF WholeOf
  <2>3. WholeOf(id) \in Seq(Piece) /\ DOMAIN WholeOf(id) = 1..T /\ 1 \in 1..T
    BY <1>1, <2>2
  <2>4. DOMAIN <<>> = {}
    OBVIOUS
  <2>5. QED
    BY <2>3, <2>4
<1>3. DOMAIN s = 1..Len(s) /\ Len(s) \in Nat /\ \A k \in DOMAIN s : s[k] \in Piece
  BY LenProperties, ElementOfSeq
<1>4. /\ one \in Seq(Piece)
      /\ \A r \in DOMAIN one : \E k \in at : one[r] = s[k]
      /\ \A k \in at : \E r \in DOMAIN one : one[r] = s[k]
  <2>1. at \in SUBSET (DOMAIN s)
    OBVIOUS
  <2> HIDE DEF at
  <2>2. QED
    BY <2>1, RetainedAs
<1> HIDE DEF one
<1>5. one \in Seq(Pieces(id))
  <2>1. \A c \in Piece : c.id = id => c \in Pieces(id)
    BY PieceFields DEF Piece
  <2>2. \A r \in DOMAIN one : one[r] \in Pieces(id)
    BY <1>3, <1>4, <2>1
  <2>3. Len(one) \in Nat /\ one \in [1..Len(one) -> Piece] /\ DOMAIN one = 1..Len(one)
    BY <1>4, LenProperties
  <2>4. one \in [1..Len(one) -> Pieces(id)]
    BY <2>2, <2>3
  <2>5. QED
    BY <2>3, <2>4
<1>6. \A c \in Pieces(id) : c.index \in Nat
  BY PieceFields
<1>7. /\ found \in Seq(Pieces(id))
      /\ \A r \in DOMAIN found : \E k \in DOMAIN one : found[r] = one[k]
      /\ \A k \in DOMAIN one : \E r \in DOMAIN found : found[r].index = one[k].index
      /\ Ascending(found)
  BY <1>5, <1>6, FormalizeAs
<1> HIDE DEF found
<1>8. /\ f \in Seq(Pieces(id))
      /\ \A r \in DOMAIN f : \E k \in DOMAIN found : f[r] = found[k]
      /\ \A k \in DOMAIN found : \E r \in DOMAIN f : f[r].index = found[k].index
      /\ Ascends(f)
  BY <1>6, <1>7, FormalizeAs
<1>9. Get(s, id) = IF f # <<>> /\ Len(f) = f[1].total THEN f ELSE <<>>
  BY DEF Get, Search, IsCompleted, found, one
<1> HIDE DEF f
<1>10. /\ Len(f) = T => f = WholeOf(id)
       /\ (\A i \in 0..(T - 1) : \E r \in DOMAIN f : f[r].index = i) => Len(f) = T
  BY <1>8, Complete
<1>11. Len(f) \in Nat /\ DOMAIN f = 1..Len(f) /\ (f = <<>> => Len(f) = 0)
  BY <1>8, LenProperties
<1>12. f # <<>> => f[1].total = T
  <2> SUFFICES ASSUME f # <<>> PROVE f[1].total = T
    OBVIOUS
  <2>1. 1 \in 1..Len(f)
    BY <1>8, <1>11, EmptySeq
  <2>2. f[1] \in Pieces(id)
    BY <1>8, <2>1, ElementOfSeq
  <2>3. QED
    BY <2>2, PieceFields
<1>13. ASSUME \A i \in 0..(T - 1) : Holds(s, id, i)
       PROVE  Get(s, id) = WholeOf(id)
  <2>1. ASSUME NEW i \in 0..(T - 1)
        PROVE  \E r \in DOMAIN f : f[r].index = i
    <3>1. PICK k \in DOMAIN s : s[k] = Chunk(id, i)
      BY <1>13 DEF Holds
    <3>2. s[k].id = id /\ s[k].index = i
      BY <3>1, ChunkPiece
    <3>3. PICK r \in DOMAIN one : one[r].index = i
      BY <1>4, <3>2
    <3>4. PICK q \in DOMAIN found : found[q].index = i
      BY <1>7, <3>3
    <3>5. QED
      BY <1>8, <3>4
  <2>2. Len(f) = T /\ f = WholeOf(id)
    BY <1>10, <2>1
  <2>3. QED
    BY <1>2, <1>9, <1>12, <2>2
<1>14. ASSUME ~(\A i \in 0..(T - 1) : Holds(s, id, i))
       PROVE  Get(s, id) = <<>>
  <2>1. PICK i \in 0..(T - 1) : ~Holds(s, id, i)
    BY <1>14
  <2>2. SUFFICES ASSUME f # <<>>, Len(f) = T PROVE FALSE
    BY <1>9, <1>12
  <2>3. f = WholeOf(id) /\ i + 1 \in DOMAIN f /\ (i + 1) - 1 = i
    BY <1>1, <1>10, <1>11, <2>2
  <2>4. f[i + 1] = Chunk(id, i)
    BY <1>11, <2>2, <2>3 DEF WholeOf
  <2>5. PICK k \in DOMAIN s : f[i + 1] = s[k]
    BY <1>4, <1>7, <1>8, <2>3
  <2>6. QED
    BY <2>1, <2>4, <2>5 DEF Holds
<1>15. QED
  BY <1>2, <1>13, <1>14

-----------------------------------------------------------------------------
(* handle *)

\* A chunk is pushed: all that has not expired stays, and only that.
LEMMA Pushed ==
    ASSUME TypeOK, NEW id \in Id, NEW i \in 0..(Total[id] - 1)
    PROVE  LET pushed == RemoveExpired(Append(list, Chunk(id, i)))
           IN  /\ pushed \in Seq(Piece)
               /\ \A j \in Id : \A x \in 0..(Total[j] - 1) :
                     /\ Holds(pushed, j, x) => Created[j] + Ttl[j] > now
                     /\ Created[j] + Ttl[j] > now /\ Holds(list, j, x) => Holds(pushed, j, x)
               /\ Created[id] + Ttl[id] > now => Holds(pushed, id, i)
<1> DEFINE s == Append(list, Chunk(id, i))
           at == {k \in DOMAIN s : Fresh(s[k])}
           pushed == Retained(s, at)
<1>1. list \in Seq(Piece) /\ Chunk(id, i) \in Piece
  BY ChunkPiece DEF TypeOK
<1>2. /\ s \in Seq(Piece) /\ DOMAIN s = 1..(Len(list) + 1) /\ Len(list) \in Nat
      /\ DOMAIN list = 1..Len(list)
      /\ s[Len(list) + 1] = Chunk(id, i) /\ \A k \in 1..Len(list) : s[k] = list[k]
  BY <1>1, AppendProperties, LenProperties
<1> HIDE DEF s
<1>3. /\ pushed \in Seq(Piece)
      /\ \A r \in DOMAIN pushed : \E k \in at : pushed[r] = s[k]
      /\ \A k \in at : \E r \in DOMAIN pushed : pushed[r] = s[k]
  <2>1. at \in SUBSET (DOMAIN s)
    OBVIOUS
  <2> HIDE DEF at
  <2>2. QED
    BY <1>2, <2>1, RetainedAs
<1>4. RemoveExpired(s) = pushed
  BY DEF RemoveExpired
<1> HIDE DEF pushed
<1>5. ASSUME NEW j \in Id, NEW x \in 0..(Total[j] - 1)
      PROVE  /\ Holds(pushed, j, x) => Created[j] + Ttl[j] > now
             /\ Created[j] + Ttl[j] > now /\ Holds(s, j, x) => Holds(pushed, j, x)
  <2>1. Chunk(j, x).id = j
    BY ChunkPiece
  <2>2. ASSUME Holds(pushed, j, x) PROVE Created[j] + Ttl[j] > now
    <3>1. PICK r \in DOMAIN pushed : pushed[r] = Chunk(j, x)
      BY <2>2 DEF Holds
    <3>2. Fresh(Chunk(j, x))
      BY <1>3, <3>1
    <3>3. QED
      BY <2>1, <3>2 DEF Fresh
  <2>3. ASSUME Created[j] + Ttl[j] > now, Holds(s, j, x) PROVE Holds(pushed, j, x)
    <3>1. PICK k \in DOMAIN s : s[k] = Chunk(j, x)
      BY <2>3 DEF Holds
    <3>2. k \in at
      BY <2>1, <2>3, <3>1 DEF Fresh
    <3>3. QED
      BY <1>3, <3>1, <3>2 DEF Holds
  <2>4. QED
    BY <2>2, <2>3
<1>6. ASSUME NEW j \in Id, NEW x \in 0..(Total[j] - 1), Holds(list, j, x)
      PROVE  Holds(s, j, x)
  <2>1. PICK k \in DOMAIN list : list[k] = Chunk(j, x)
    BY <1>6 DEF Holds
  <2>2. k \in DOMAIN s /\ s[k] = Chunk(j, x)
    BY <1>2, <2>1
  <2>3. QED
    BY <2>2 DEF Holds
<1>7. Holds(s, id, i)
  <2>1. Len(list) + 1 \in DOMAIN s
    BY <1>2
  <2>2. QED
    BY <1>2, <2>1 DEF Holds
<1>8. QED
  BY <1>3, <1>4, <1>5, <1>6, <1>7 DEF s

\* Withdrawing one message leaves the chunks of the others.
LEMMA Removed ==
    ASSUME NEW s \in Seq(Piece), NEW id \in Id
    PROVE  /\ RemoveTx(s, id) \in Seq(Piece)
           /\ \A j \in Id : \A x \in 0..(Total[j] - 1) :
                 j # id /\ Holds(s, j, x) => Holds(RemoveTx(s, id), j, x)
<1> DEFINE at == {k \in DOMAIN s : s[k].id # id}
           left == Retained(s, at)
<1>1. /\ left \in Seq(Piece)
      /\ \A k \in at : \E r \in DOMAIN left : left[r] = s[k]
  <2>1. at \in SUBSET (DOMAIN s)
    OBVIOUS
  <2> HIDE DEF at
  <2>2. QED
    BY <2>1, RetainedAs
<1>2. RemoveTx(s, id) = left
  BY DEF RemoveTx
<1> HIDE DEF left
<1>3. ASSUME NEW j \in Id, NEW x \in 0..(Total[j] - 1), j # id, Holds(s, j, x)
      PROVE  Holds(left, j, x)
  <2>1. PICK k \in DOMAIN s : s[k] = Chunk(j, x)
    BY <1>3 DEF Holds
  <2>2. k \in at
    BY <1>3, <2>1, ChunkPiece
  <2>3. QED
    BY <1>1, <2>1, <2>2 DEF Holds
<1>4. QED
  BY <1>1, <1>2, <1>3

\* The empty list satisfies the inductive invariant.
LEMMA InitInv == Init => IInv
<1> SUFFICES ASSUME Init PROVE IInv
  OBVIOUS
<1>1. /\ list = <<>> /\ now = 0
      /\ arrived = [id \in Id |-> [i \in 0..(Total[id] - 1) |-> 0]]
      /\ delivered = [id \in Id |-> <<>>]
  BY DEF Init
<1>2. TypeOK
  BY <1>1 DEF TypeOK
<1>3. WithdrawnWhole
  BY <1>1 DEF WithdrawnWhole
<1>4. Listed
  BY <1>1 DEF Listed
<1>5. DeliveredInTime
  <2>1. \A id \in Id : Total[id] \in Nat /\ Total[id] >= 1
    BY ChunkAssumption
  <2>2. \A id \in Id : 0 \in 0..(Total[id] - 1) /\ ~ (arrived[id][0] > 0)
    BY <1>1, <2>1
  <2>3. QED
    BY <2>2 DEF DeliveredInTime
<1>6. QED
  BY <1>2, <1>3, <1>4, <1>5 DEF IInv

\* The passing of time keeps the invariant.
LEMMA TickInv == IInv /\ Tick => IInv'
<1> SUFFICES ASSUME IInv, Tick PROVE IInv'
  OBVIOUS
<1>1. /\ now' = now + 1 /\ list' = list /\ arrived' = arrived /\ delivered' = delivered
      /\ TypeOK /\ WithdrawnWhole /\ Listed /\ DeliveredInTime /\ now \in Nat
  BY DEF Tick, IInv, TypeOK
<1>2. TypeOK' /\ WithdrawnWhole'
  BY <1>1 DEF TypeOK, WithdrawnWhole
<1>3. \A id \in Id : Created[id] + Ttl[id] > now' => Created[id] + Ttl[id] > now
  BY <1>1, ChunkAssumption
<1>4. Listed'
  BY <1>1, <1>3 DEF Listed, Timely, Holds
<1>5. DeliveredInTime'
  BY <1>1, <1>3 DEF DeliveredInTime
<1>6. QED
  BY <1>2, <1>4, <1>5 DEF IInv

\* What handle does: it refuses the chunk, keeps it, or withdraws its message.
LEMMA Handles ==
    ASSUME TypeOK, NEW id \in Id, NEW i \in 0..(Total[id] - 1), Handle(id, i)
    PROVE  LET pushed == RemoveExpired(Append(list, Chunk(id, i)))
               whole == \A x \in 0..(Total[id] - 1) : Holds(pushed, id, x)
           IN  /\ arrived' = [arrived EXCEPT ![id][i] = @ + 1] /\ now' = now
               /\ \/ /\ ~Acceptable(id)
                     /\ list' = list /\ delivered' = delivered
                  \/ /\ Acceptable(id) /\ ~whole
                     /\ list' = pushed /\ delivered' = delivered
                  \/ /\ Acceptable(id) /\ whole
                     /\ list' = RemoveTx(pushed, id)
                     /\ delivered' = [delivered EXCEPT ![id] = Append(@, WholeOf(id))]
<1> DEFINE pushed == RemoveExpired(Append(list, Chunk(id, i)))
           whole == \A x \in 0..(Total[id] - 1) : Holds(pushed, id, x)
<1>1. pushed \in Seq(Piece)
  BY Pushed
<1> HIDE DEF pushed
<1>2. /\ WholeOf(id) # <<>>
      /\ whole => Get(pushed, id) = WholeOf(id)
      /\ ~whole => Get(pushed, id) = <<>>
  BY <1>1, GetWhole
<1>3. /\ arrived' = [arrived EXCEPT ![id][i] = @ + 1] /\ now' = now
      /\ IF ~Acceptable(id)
         THEN list' = list /\ delivered' = delivered
         ELSE IF Get(pushed, id) = <<>>
         THEN list' = pushed /\ delivered' = delivered
         ELSE /\ list' = RemoveTx(pushed, id)
              /\ delivered' = [delivered EXCEPT ![id] = Append(@, Get(pushed, id))]
  BY DEF Handle, pushed
<1> HIDE DEF whole
<1>4. QED
  BY <1>2, <1>3 DEF pushed, whole

\* ChunkList::handle keeps the invariant, whether the piece completes a message or waits.
LEMMA HandleInv ==
    ASSUME IInv, NEW id \in Id, NEW i \in 0..(Total[id] - 1), Handle(id, i)
    PROVE  IInv'
<1> DEFINE pushed == RemoveExpired(Append(list, Chunk(id, i)))
           whole == \A x \in 0..(Total[id] - 1) : Holds(pushed, id, x)
<1>1. TypeOK /\ WithdrawnWhole /\ Listed /\ DeliveredInTime
  BY DEF IInv
<1>2. /\ arrived' = [arrived EXCEPT ![id][i] = @ + 1] /\ now' = now
      /\ \/ ~Acceptable(id) /\ list' = list /\ delivered' = delivered
         \/ Acceptable(id) /\ ~whole /\ list' = pushed /\ delivered' = delivered
         \/ /\ Acceptable(id) /\ whole /\ list' = RemoveTx(pushed, id)
            /\ delivered' = [delivered EXCEPT ![id] = Append(@, WholeOf(id))]
  BY <1>1, Handles
<1>3. /\ pushed \in Seq(Piece)
      /\ \A j \in Id : \A x \in 0..(Total[j] - 1) :
            /\ Holds(pushed, j, x) => Created[j] + Ttl[j] > now
            /\ Created[j] + Ttl[j] > now /\ Holds(list, j, x) => Holds(pushed, j, x)
      /\ Created[id] + Ttl[id] > now => Holds(pushed, id, i)
  BY <1>1, Pushed
<1> HIDE DEF pushed
<1>4. /\ RemoveTx(pushed, id) \in Seq(Piece)
      /\ \A j \in Id : \A x \in 0..(Total[j] - 1) :
            j # id /\ Holds(pushed, j, x) => Holds(RemoveTx(pushed, id), j, x)
  BY <1>3, Removed
<1>5. /\ WholeOf(id) \in Seq(Piece)
  BY <1>3, GetWhole
<1> HIDE DEF whole
<1>6. \A j \in Id : j # id => arrived'[j] = arrived[j] /\ delivered'[j] = delivered[j]
  BY <1>1, <1>2 DEF TypeOK
<1>7. \A x \in 0..(Total[id] - 1) : x # i => arrived'[id][x] = arrived[id][x]
  BY <1>1, <1>2 DEF TypeOK
<1>8. \/ delivered' = delivered
      \/ /\ delivered' = [delivered EXCEPT ![id] = Append(@, WholeOf(id))]
         /\ delivered'[id] = Append(delivered[id], WholeOf(id))
         /\ delivered[id] \in Seq(Seq(Piece)) /\ delivered'[id] # <<>>
  <2>1. delivered[id] \in Seq(Seq(Piece))
    BY <1>1 DEF TypeOK
  <2>2. Append(delivered[id], WholeOf(id)) # <<>>
    <3> DEFINE longer == Append(delivered[id], WholeOf(id))
    <3>1. Len(longer) = Len(delivered[id]) + 1 /\ Len(delivered[id]) \in Nat
      BY <1>5, <2>1, AppendProperties, LenProperties
    <3>2. Len(<<>>) = 0
      OBVIOUS
    <3> HIDE DEF longer
    <3>3. longer # <<>>
      BY <3>1, <3>2
    <3>4. QED
      BY <3>3 DEF longer
  <2>3. QED
    BY <1>1, <1>2, <2>1, <2>2 DEF TypeOK
<1>9. TypeOK'
  <2>1. list' \in Seq(Piece)
    BY <1>1, <1>2, <1>3, <1>4 DEF TypeOK
  <2>2. DOMAIN arrived' = Id /\ \A j \in Id : arrived'[j] \in [0..(Total[j] - 1) -> Nat]
    <3>1. DOMAIN arrived' = Id /\ arrived[id] \in [0..(Total[id] - 1) -> Nat]
      BY <1>1, <1>2 DEF TypeOK
    <3>2. arrived'[id] = [arrived[id] EXCEPT ![i] = @ + 1]
      BY <1>1, <1>2 DEF TypeOK
    <3>3. arrived'[id] \in [0..(Total[id] - 1) -> Nat]
      <4> DEFINE copies == arrived[id]
      <4>1. copies \in [0..(Total[id] - 1) -> Nat]
        BY <3>1
      <4> HIDE DEF copies
      <4>2. copies[i] + 1 \in Nat
        BY <4>1
      <4>3. arrived'[id] = [arrived[id] EXCEPT ![i] = copies[i] + 1]
        BY <3>2 DEF copies
      <4>4. QED
        BY <3>1, <4>2, <4>3
    <3>4. QED
      BY <1>1, <1>6, <3>1, <3>3 DEF TypeOK
  <2>3. delivered' \in [Id -> Seq(Seq(Piece))]
    <3>1. Append(delivered[id], WholeOf(id)) \in Seq(Seq(Piece))
      BY <1>1, <1>5, AppendProperties DEF TypeOK
    <3>2. QED
      BY <1>1, <1>8, <3>1 DEF TypeOK
  <2>4. QED
    BY <1>1, <1>2, <2>1, <2>2, <2>3 DEF TypeOK
<1>10. WithdrawnWhole'
  <2> SUFFICES ASSUME NEW j \in Id, NEW k \in 1..Len(delivered'[j])
               PROVE  delivered'[j][k] = WholeOf(j)
    BY DEF WithdrawnWhole, WholeOf
  <2>1. CASE delivered'[j] = delivered[j]
    BY <1>1, <2>1 DEF WithdrawnWhole, WholeOf
  <2>2. CASE delivered'[j] # delivered[j]
    <3>1. j = id /\ delivered'[j] = Append(delivered[j], WholeOf(j))
          /\ delivered[j] \in Seq(Seq(Piece))
      BY <1>6, <1>8, <2>2
    <3>2. /\ Len(delivered'[j]) = Len(delivered[j]) + 1 /\ Len(delivered[j]) \in Nat
          /\ delivered'[j][Len(delivered[j]) + 1] = WholeOf(j)
          /\ \A x \in 1..Len(delivered[j]) : delivered'[j][x] = delivered[j][x]
      BY <1>5, <3>1, AppendProperties, LenProperties
    <3>3. CASE k = Len(delivered[j]) + 1
      BY <3>2, <3>3
    <3>4. CASE k # Len(delivered[j]) + 1
      <4>1. k \in 1..Len(delivered[j])
        BY <3>2, <3>4
      <4>2. QED
        BY <1>1, <3>2, <4>1 DEF WithdrawnWhole, WholeOf
    <3>5. QED
      BY <3>3, <3>4
  <2>3. QED
    BY <2>1, <2>2
<1>11. ASSUME NEW j \in Id, Timely(j)
       PROVE  Created[j] + Ttl[j] > now /\ Acceptable(j)
  <2>1. now \in Nat /\ Created[j] \in Nat /\ Tolerance \in Nat
    BY <1>1, ChunkAssumption DEF TypeOK
  <2>2. QED
    BY <1>11, <2>1 DEF Timely, Acceptable
<1>12. Listed'
  <2> SUFFICES ASSUME NEW j \in Id, Timely(j)', delivered'[j] = <<>>,
                      NEW x \in 0..(Total[j] - 1), arrived'[j][x] > 0
               PROVE  Holds(list', j, x)
    BY DEF Listed, Holds
  <2>1. Timely(j)
    BY <1>2 DEF Timely
  <2>2. delivered[j] = <<>> /\ delivered'[j] = delivered[j]
    BY <1>6, <1>8
  <2>3. CASE j = id
    <3>1. list' = pushed
      BY <1>1, <1>2, <1>8, <1>11, <2>1, <2>3 DEF TypeOK
    <3>2. CASE x = i
      BY <1>3, <1>11, <2>1, <2>3, <3>1, <3>2
    <3>3. CASE x # i
      <4>1. Holds(list, j, x)
        BY <1>1, <1>7, <2>1, <2>2, <2>3, <3>3 DEF Listed
      <4>2. QED
        BY <1>3, <1>11, <2>1, <3>1, <4>1
    <3>4. QED
      BY <3>2, <3>3
  <2>4. CASE j # id
    <3>1. Holds(list, j, x)
      BY <1>1, <1>6, <2>1, <2>2, <2>4 DEF Listed
    <3>2. Holds(pushed, j, x) /\ Holds(RemoveTx(pushed, id), j, x)
      BY <1>3, <1>4, <1>11, <2>1, <2>4, <3>1
    <3>3. QED
      BY <1>2, <3>1, <3>2
  <2>5. QED
    BY <2>3, <2>4
<1>13. DeliveredInTime'
  <2> SUFFICES ASSUME NEW j \in Id, Timely(j)',
                      \A x \in 0..(Total[j] - 1) : arrived'[j][x] > 0,
                      delivered'[j] = <<>>
               PROVE  FALSE
    BY DEF DeliveredInTime, Timely
  <2>1. Timely(j)
    BY <1>2 DEF Timely
  <2>2. delivered[j] = <<>> /\ delivered'[j] = delivered[j]
    BY <1>6, <1>8
  <2>3. CASE j = id
    <3>1. list' = pushed /\ ~whole
      BY <1>1, <1>2, <1>8, <1>11, <2>1, <2>3 DEF TypeOK
    <3>2. \A x \in 0..(Total[id] - 1) : Holds(pushed, id, x)
      BY <1>12, <2>3, <3>1 DEF Listed, Holds
    <3>3. QED
      BY <3>1, <3>2 DEF whole
  <2>4. CASE j # id
    BY <1>1, <1>6, <2>1, <2>2, <2>4 DEF DeliveredInTime, Timely
  <2>5. QED
    BY <2>3, <2>4
<1>14. QED
  BY <1>9, <1>10, <1>12, <1>13 DEF IInv

-----------------------------------------------------------------------------
(* The theorems *)

\* The list holds every chunk of what may still be returned, and what was
\* returned was whole (ChunkList::handle, get, remove_expired, remove).
THEOREM ChunkInvariant == Spec => []IInv
<1>1. IInv /\ [Next]_vars => IInv'
  <2> SUFFICES ASSUME IInv, [Next]_vars PROVE IInv'
    OBVIOUS
  <2>1. ASSUME NEW id \in Id, NEW i \in 0..(Total[id] - 1), Handle(id, i) PROVE IInv'
    BY <2>1, HandleInv
  <2>2. CASE Tick
    BY <2>2, TickInv
  <2>3. CASE UNCHANGED vars
    BY <2>3 DEF vars, IInv, TypeOK, WithdrawnWhole, Listed, Timely, Holds, DeliveredInTime
  <2>4. QED
    BY <2>1, <2>2, <2>3 DEF Next
<1>2. QED
  BY InitInv, <1>1, PTL DEF Spec

\* What handle returns is every chunk of one message once and in order,
\* however many duplicates and foreign chunks came between them
\* (formalize, try_withdraw).
THEOREM WithdrawnWholeAlways == Spec => []WithdrawnWhole
<1>1. IInv => WithdrawnWhole
  BY DEF IInv
<1>2. QED
  BY <1>1, ChunkInvariant, PTL

\* A message that has not expired is returned by the time all of it is there
\* (ChunkList::handle, is_completed, remove_expired).
THEOREM DeliveredInTimeAlways == Spec => []DeliveredInTime
<1>1. IInv => DeliveredInTime
  BY DEF IInv
<1>2. QED
  BY <1>1, ChunkInvariant, PTL

\* No expired message is returned, and none that handle should have refused
\* (ChunkList::handle, remove_expired).
THEOREM DeliveredFreshAlways == Spec => DeliveredFresh
<1> DEFINE Step == \A id \in Id : delivered'[id] # delivered[id] =>
                       /\ Created[id] + Ttl[id] > now
                       /\ Created[id] <= now + Tolerance
                       /\ Ttl[id] <= MaxTtl
<1>1. IInv /\ [Next]_vars => [Step]_vars
  <2> SUFFICES ASSUME IInv, Next, NEW j \in Id, delivered'[j] # delivered[j]
               PROVE  /\ Created[j] + Ttl[j] > now
                      /\ Created[j] <= now + Tolerance
                      /\ Ttl[j] <= MaxTtl
    OBVIOUS
  <2>1. PICK id \in Id : \E x \in 0..(Total[id] - 1) : Handle(id, x)
    BY DEF Next, Tick
  <2>2. PICK i \in 0..(Total[id] - 1) : Handle(id, i)
    BY <2>1
  <2> DEFINE pushed == RemoveExpired(Append(list, Chunk(id, i)))
  <2>3. TypeOK
    BY DEF IInv
  <2>4. /\ Acceptable(id) /\ \A x \in 0..(Total[id] - 1) : Holds(pushed, id, x)
        /\ delivered' = [delivered EXCEPT ![id] = Append(@, WholeOf(id))]
    BY <2>2, <2>3, Handles
  <2>5. j = id
    BY <2>3, <2>4 DEF TypeOK
  <2>6. Created[id] + Ttl[id] > now
    BY <2>3, <2>4, Pushed
  <2>7. Created[j] \in Nat /\ Tolerance \in Nat /\ now \in Nat
    BY <2>3, ChunkAssumption DEF TypeOK
  <2>8. QED
    BY <2>4, <2>5, <2>6, <2>7 DEF Acceptable
<1>2. QED
  BY <1>1, ChunkInvariant, PTL DEF Spec, DeliveredFresh
=============================================================================
