--------------------------- MODULE MessageProofs ----------------------------
(***************************************************************************)
(* What becomes of a message.  The envelope: for any set of nodes, any     *)
(* tables and any number of changes to them, reports find their way home   *)
(* and questions that circle are cut.  The payload: whom it names and how  *)
(* long it is accepted, for a path of any length, any ttls, clocks that    *)
(* differ by any bounded amount, and any renewals of the sessions between  *)
(* the locks of SessionManager.  The application: what its polls may miss. *)
(***************************************************************************)
EXTENDS RelayTrip, Payloads, Backend, FiniteSetTheorems, SequenceTheorems, TLAPS

-----------------------------------------------------------------------------
(* Numbers and sequences *)

\* Every nonempty set of natural numbers has a least element.
LEMMA LeastNumber ==
    ASSUME NEW T \in SUBSET Nat, T # {}
    PROVE  \E x \in T : \A y \in T : x <= y
<1> DEFINE R == OpToRel(<, Nat)
<1>1. PICK x \in T : \A y \in T : ~ (<<y, x>> \in R)
  BY NatLessThanWellFounded, WFMin
<1>2. \A y \in T : ~ (y < x)
  BY <1>1 DEF OpToRel
<1>3. QED
  BY <1>2

\* A set of two different things has two elements, one of three has three.
LEMMA TwoElements ==
    ASSUME NEW x, NEW y, x # y
    PROVE  IsFiniteSet({x, y}) /\ Cardinality({x, y}) = 2
<1>1. IsFiniteSet({x}) /\ Cardinality({x}) = 1
  BY FS_Singleton
<1>2. {x} \cup {y} = {x, y}
  OBVIOUS
<1>3. /\ IsFiniteSet({x} \cup {y})
      /\ Cardinality({x} \cup {y}) = IF y \in {x} THEN Cardinality({x}) ELSE Cardinality({x}) + 1
  BY <1>1, FS_AddElement
<1>4. QED
  BY <1>1, <1>2, <1>3

LEMMA ThreeElements ==
    ASSUME NEW x, NEW y, NEW z, x # y, x # z, y # z
    PROVE  Cardinality({x, y, z}) = 3
<1>1. IsFiniteSet({x, y}) /\ Cardinality({x, y}) = 2
  BY TwoElements
<1>2. {x, y} \cup {z} = {x, y, z}
  OBVIOUS
<1>3. Cardinality({x, y} \cup {z})
         = IF z \in {x, y} THEN Cardinality({x, y}) ELSE Cardinality({x, y}) + 1
  BY <1>1, FS_AddElement
<1>4. z \notin {x, y}
  OBVIOUS
<1>5. QED
  BY <1>1, <1>2, <1>3, <1>4

\* There are nodes, and finitely many.
LEMMA NodesCount ==
    ASSUME NEW n \in Node
    PROVE  Cardinality(Node) \in Nat /\ Cardinality(Node) >= 1
  BY TripAssumption, FS_CardinalityType, FS_EmptySet

-----------------------------------------------------------------------------
(* Circles.  A path that followed fixed tables for long enough goes round. *)

\* From place s of the path on, each node is the next hop of the one before.
Followed(path, hop, s) ==
    \A i \in (s + 1)..(Len(path) - 1) : path[i] \in Node /\ path[i + 1] = hop[path[i]]

\* The first place where such a path comes back to an earlier one: i is that
\* one and p the length of the circle.
LEMMA FirstReturn ==
    ASSUME NEW path \in Seq(Node), NEW s \in Nat, NEW a \in Nat, a = s + 1,
           Cardinality(Node) \in Nat, Cardinality(Node) >= 1,
           Len(path) >= s + 3 * Cardinality(Node)
    PROVE  \E i, p \in Nat :
              /\ i >= a /\ p >= 1 /\ p <= Cardinality(Node) /\ i + p <= a + Cardinality(Node)
              /\ path[i + p] = path[i]
              /\ \A x, y \in a..(i + p - 1) : x < y => path[x] # path[y]
<1> DEFINE N == Cardinality(Node)
           J == {j \in Nat : a < j /\ j <= a + N /\ \E i \in a..(j - 1) : path[i] = path[j]}
           f == [i \in a..(a + N) |-> path[i]]
<1>0. Len(path) \in Nat /\ N \in Nat /\ a + N <= Len(path)
  BY LenProperties
<1>1. f \in [a..(a + N) -> Node]
  BY <1>0
<1>2. IsFiniteSet(a..(a + N)) /\ Cardinality(a..(a + N)) = N + 1
  <2> HIDE DEF N
  <2>1. a \in Int /\ a + N \in Int /\ ~(a > a + N) /\ (a + N) - a + 1 = N + 1
    BY <1>0
  <2>2. QED
    BY <2>1, FS_Interval
<1>3. PICK x, y \in a..(a + N) : x # y /\ path[x] = path[y]
  <2> DEFINE D == a..(a + N)
  <2>1. N < Cardinality(D)
    BY <1>0, <1>2
  <2>2. /\ IsFiniteSet(D) /\ IsFiniteSet(Node) /\ f \in [D -> Node]
        /\ Cardinality(Node) < Cardinality(D)
    BY <1>1, <1>2, <2>1, TripAssumption
  <2>3. \A x, y \in D : f[x] = f[y] => path[x] = path[y]
    OBVIOUS
  <2> HIDE DEF f, N, D
  <2>4. \E x, y \in D : x # y /\ f[x] = f[y]
    BY <2>2, FS_PigeonHole
  <2>5. \E x, y \in D : x # y /\ path[x] = path[y]
    BY <2>3, <2>4
  <2>6. QED
    BY <2>5 DEF D
<1>4. J # {}
  <2>1. ASSUME NEW u \in a..(a + N), NEW v \in a..(a + N), u < v, path[u] = path[v]
        PROVE  v \in J
    <3>1. v \in Nat /\ a < v /\ v <= a + N /\ u \in a..(v - 1)
      BY <1>0, <2>1
    <3>2. QED
      BY <2>1, <3>1
  <2>2. x < y \/ y < x
    BY <1>0, <1>3
  <2>3. QED
    BY <1>3, <2>1, <2>2
<1>5. PICK j \in J : \A k \in J : j <= k
  BY <1>4, LeastNumber
<1>6. PICK i \in a..(j - 1) : path[i] = path[j]
  BY <1>5
<1>7. ASSUME NEW u \in a..(j - 1), NEW v \in a..(j - 1), u < v PROVE path[u] # path[v]
  <2>1. v \notin J
    BY <1>5, <1>7
  <2>2. QED
    BY <1>5, <1>7, <2>1
<1>8. QED
  <2> DEFINE p == j - i
  <2>1. i \in Nat /\ p \in Nat /\ i + p = j
    BY <1>5, <1>6
  <2>2. i >= a /\ p >= 1 /\ p <= N /\ j <= a + N
    BY <1>5, <1>6
  <2>3. QED
    BY <1>6, <1>7, <2>1, <2>2

\* From there on the path repeats itself with that period.
LEMMA Periodic ==
    ASSUME NEW path \in Seq(Node), NEW hop, NEW s \in Nat, Followed(path, hop, s),
           NEW i \in Nat, NEW p \in Nat, i >= s + 1, p >= 1, path[i + p] = path[i]
    PROVE  \A m \in i..(Len(path) - p) : path[m + p] = path[m]
<1> DEFINE T == {m \in Nat : m \in i..(Len(path) - p) /\ path[m + p] # path[m]}
<1>0. Len(path) \in Nat
  BY LenProperties
<1> SUFFICES ASSUME NEW c \in i..(Len(path) - p), path[c + p] # path[c] PROVE FALSE
  OBVIOUS
<1>1. c \in T /\ T \in SUBSET Nat
  BY <1>0
<1>2. PICK m \in T : \A k \in T : m <= k
  BY <1>1, LeastNumber
<1>3. m # i
  BY <1>2
<1>4. m - 1 \in i..(Len(path) - p) /\ m - 1 \in Nat
  BY <1>0, <1>2, <1>3
<1>5. path[m - 1 + p] = path[m - 1]
  BY <1>2, <1>4
<1>6. /\ path[m] = hop[path[m - 1]]
      /\ path[m + p] = hop[path[m - 1 + p]]
  <2>1. m - 1 \in (s + 1)..(Len(path) - 1) /\ m - 1 + p \in (s + 1)..(Len(path) - 1)
    BY <1>0, <1>3, <1>4
  <2>2. (m - 1) + 1 = m /\ (m - 1 + p) + 1 = m + p
    BY <1>2
  <2>3. QED
    BY <2>1, <2>2 DEF Followed
<1>7. QED
  BY <1>2, <1>5, <1>6

\* The places of one period hold different nodes.
LEMMA PeriodDistinct ==
    ASSUME NEW path \in Seq(Node), NEW i \in Nat, NEW p \in Nat, p >= 1,
           \A m \in i..(Len(path) - p) : path[m + p] = path[m],
           \A x, y \in i..(i + p - 1) : x < y => path[x] # path[y]
    PROVE  \A m \in i..(Len(path) - p + 1) :
              \A x, y \in m..(m + p - 1) : x < y => path[x] # path[y]
<1> DEFINE Apart(m) == \A x, y \in m..(m + p - 1) : x < y => path[x] # path[y]
           T == {m \in Nat : m \in i..(Len(path) - p + 1) /\ ~Apart(m)}
<1>0. Len(path) \in Nat
  BY LenProperties
<1> SUFFICES ASSUME NEW c \in i..(Len(path) - p + 1), ~Apart(c) PROVE FALSE
  OBVIOUS
<1>1. c \in T /\ T \in SUBSET Nat
  <2> HIDE DEF Apart
  <2>1. QED
    BY <1>0
<1>2. PICK m \in T : \A k \in T : m <= k
  BY <1>1, LeastNumber
<1>3. m # i
  BY <1>2
<1>4. m - 1 \in i..(Len(path) - p) /\ m - 1 \in Nat
  BY <1>0, <1>2, <1>3
<1>5. Apart(m - 1)
  <2> HIDE DEF Apart
  <2>1. m - 1 \in i..(Len(path) - p + 1)
    BY <1>0, <1>2, <1>4
  <2>2. ~ (m <= m - 1)
    BY <1>2
  <2>3. m - 1 \notin T
    <3> HIDE DEF T
    <3>1. QED
      BY <1>2, <2>2
  <2>4. QED
    BY <1>4, <2>1, <2>3
<1>6. path[m - 1 + p] = path[m - 1]
  BY <1>4
<1>7. ASSUME NEW x \in m..(m + p - 1), NEW y \in m..(m + p - 1), x < y
      PROVE  path[x] # path[y]
  <2>1. CASE y < m + p - 1
    BY <1>2, <1>5, <1>7, <2>1
  <2>2. CASE y = m + p - 1
    <3>1. x \in (m - 1)..(m - 1 + p - 1) /\ m - 1 \in (m - 1)..(m - 1 + p - 1) /\ m - 1 < x
      BY <1>2, <1>7, <2>2
    <3>2. path[m - 1] # path[x]
      BY <1>5, <3>1
    <3>3. QED
      BY <1>2, <1>6, <2>2, <3>2
  <2>3. QED
    BY <1>2, <1>7, <2>1, <2>2
<1>8. QED
  BY <1>2, <1>7
\* A path that followed fixed tables three times round the nodes has a loop.
LEMMA LoopFound ==
    ASSUME NEW path \in Seq(Node), NEW hop, NEW s \in Nat, Followed(path, hop, s),
           Cardinality(Node) \in Nat, Cardinality(Node) >= 1,
           Len(path) >= s + 3 * Cardinality(Node)
    PROVE  HasInfiniteLoop(path)
<1> DEFINE N == Cardinality(Node)
           L == Len(path)
           last == path[L]
<1>0. L \in Nat /\ N \in Nat
  BY LenProperties
<1>1. PICK i, p \in Nat :
         /\ i >= s + 1 /\ p >= 1 /\ p <= N /\ i + p <= s + 1 + N
         /\ path[i + p] = path[i]
         /\ \A x, y \in (s + 1)..(i + p - 1) : x < y => path[x] # path[y]
  <2>1. s + 1 \in Nat
    OBVIOUS
  <2>2. QED
    BY <2>1, FirstReturn
<1>2. \A m \in i..(L - p) : path[m + p] = path[m]
  BY <1>1, Periodic
<1>3. \A m \in i..(L - p + 1) : \A x, y \in m..(m + p - 1) : x < y => path[x] # path[y]
  <2>1. \A x, y \in i..(i + p - 1) : x < y => path[x] # path[y]
    BY <1>1
  <2>2. QED
    BY <1>1, <1>2, <2>1, PeriodDistinct
<1>4. i + 3 * p - 1 <= L /\ 2 * p <= L - 1
  BY <1>0, <1>1
<1>5. path[L - p] = last /\ path[L - 2 * p] = last
  <2>1. L - p \in i..(L - p) /\ L - 2 * p \in i..(L - p)
    BY <1>0, <1>1, <1>4
  <2>2. (L - p) + p = L /\ (L - 2 * p) + p = L - p
    BY <1>0, <1>1
  <2>3. QED
    BY <1>2, <2>1, <2>2
<1>6. ASSUME NEW q \in 0..(2 * p), q # 0, q # p, q # 2 * p PROVE path[L - q] # last
  <2>1. CASE q < p
    <3>1. L - p + 1 \in i..(L - p + 1)
      BY <1>0, <1>1, <1>4
    <3>2. /\ L - q \in (L - p + 1)..((L - p + 1) + p - 1)
          /\ L \in (L - p + 1)..((L - p + 1) + p - 1)
          /\ L - q < L
      BY <1>0, <1>1, <1>6, <2>1
    <3>3. QED
      BY <1>3, <3>1, <3>2
  <2>2. CASE q > p
    <3>1. L - 2 * p + 1 \in i..(L - p + 1)
      BY <1>0, <1>1, <1>4
    <3>2. /\ L - q \in (L - 2 * p + 1)..((L - 2 * p + 1) + p - 1)
          /\ L - p \in (L - 2 * p + 1)..((L - 2 * p + 1) + p - 1)
          /\ L - q < L - p
      BY <1>0, <1>1, <1>6, <2>2
    <3>3. path[L - q] # path[L - p]
      BY <1>3, <3>1, <3>2
    <3>4. QED
      BY <1>5, <3>3
  <2>3. QED
    BY <1>1, <1>6, <2>1, <2>2
<1> DEFINE Before(x) == {y \in 0..(x - 1) : FromEnd(path, y) = path[Len(path)]}
<1>7. \A x \in 0..(2 * p) : FromEnd(path, x) = last <=> x \in {0, p, 2 * p}
  <2>1. \A x \in 0..(2 * p) : FromEnd(path, x) = path[L - x]
    BY DEF FromEnd
  <2>2. FromEnd(path, 0) = last /\ FromEnd(path, p) = last /\ FromEnd(path, 2 * p) = last
    BY <1>0, <1>5 DEF FromEnd
  <2>3. QED
    BY <1>6, <2>1, <2>2
<1>8. Before(0) = {} /\ Before(p) = {0} /\ Before(2 * p) = {0, p}
  <2>1. 0 \in 0..(2 * p) /\ 0..(p - 1) \subseteq 0..(2 * p) /\ 0..(2 * p - 1) \subseteq 0..(2 * p)
    BY <1>1
  <2>2. Before(0) = {}
    BY DEF Before
  <2>3. ASSUME NEW y \in Nat, y < 2 * p
        PROVE  FromEnd(path, y) = last <=> y = 0 \/ y = p
    <3>1. y \in 0..(2 * p) /\ y # 2 * p
      BY <1>1, <2>3
    <3>2. QED
      BY <1>7, <3>1
  <2>4. \A y \in 0..(p - 1) : y \in Nat /\ y < 2 * p /\ y # p
    BY <1>1
  <2>5. \A y \in 0..(2 * p - 1) : y \in Nat /\ y < 2 * p
    BY <1>1
  <2>6. 0 \in 0..(p - 1) /\ 0 \in 0..(2 * p - 1) /\ p \in 0..(2 * p - 1)
    BY <1>1
  <2>7. Before(p) = {0}
    BY <2>3, <2>4, <2>6
  <2>8. Before(2 * p) = {0, p}
    BY <2>3, <2>5, <2>6
  <2>9. QED
    BY <2>2, <2>7, <2>8
<1>9. /\ Cardinality(Before(0)) = 0 /\ Cardinality(Before(p)) = 1
      /\ Cardinality(Before(2 * p)) = 2 /\ Cardinality({0, p, 2 * p}) = 3
  <2>1. 0 # p /\ 0 # 2 * p /\ p # 2 * p
    BY <1>1
  <2> HIDE DEF Before
  <2> DEFINE q == 2 * p
  <2>2. Cardinality({0}) = 1 /\ Cardinality({0, p}) = 2 /\ Cardinality({0, p, q}) = 3
    <3>1. 0 # p /\ 0 # q /\ p # q
      BY <2>1
    <3> HIDE DEF q
    <3>2. /\ Cardinality({0}) = 1 /\ Cardinality({0, p}) = 2
      BY <3>1, TwoElements, FS_Singleton
    <3>3. Cardinality({0, p, q}) = 3
      <4> DEFINE o == 0
      <4>1. o # p /\ o # q /\ p # q
        BY <3>1
      <4> HIDE DEF o
      <4>2. Cardinality({o, p, q}) = 3
        BY <4>1, ThreeElements
      <4>3. QED
        BY <4>2 DEF o
    <3>4. QED
      BY <3>2, <3>3
  <2>3. QED
    BY <1>8, <2>2, FS_EmptySet
<1>10. ASSUME NEW x \in 0..(L - 1), x > 2 * p PROVE ~ (Cardinality(Before(x)) < 3)
  <2>1. {0, p, 2 * p} \subseteq Before(x)
    <3>1. 0 \in 0..(x - 1) /\ p \in 0..(x - 1) /\ 2 * p \in 0..(x - 1)
      BY <1>0, <1>1, <1>10
    <3>2. 0 \in 0..(2 * p) /\ p \in 0..(2 * p) /\ 2 * p \in 0..(2 * p)
      BY <1>1
    <3>3. QED
      BY <1>7, <3>1, <3>2
  <2>2. IsFiniteSet(0..(x - 1))
    BY <1>10, FS_Interval
  <2>3. IsFiniteSet(Before(x))
    BY <2>2, FS_Subset
  <2> HIDE DEF Before
  <2>4. 3 <= Cardinality(Before(x)) /\ Cardinality(Before(x)) \in Nat
    BY <1>9, <2>1, <2>3, FS_Subset, FS_CardinalityType
  <2>5. QED
    BY <2>4
<1>11. LastVisits(path) = {0, p, 2 * p}
  <2>1. LastVisits(path) =
          {x \in 0..(L - 1) : FromEnd(path, x) = last /\ Cardinality(Before(x)) < 3}
    BY DEF LastVisits, Tolerance
  <2>2. {0, p, 2 * p} \subseteq 0..(L - 1) /\ {0, p, 2 * p} \subseteq 0..(2 * p)
    BY <1>0, <1>1, <1>4
  <2> HIDE DEF Before
  <2>3. ASSUME NEW x \in {0, p, 2 * p} PROVE x \in LastVisits(path)
    <3>1. x \in 0..(L - 1) /\ FromEnd(path, x) = last
      BY <1>7, <2>2
    <3>2. Cardinality(Before(x)) < 3
      BY <1>9
    <3>3. QED
      BY <2>1, <3>1, <3>2
  <2>4. ASSUME NEW x \in LastVisits(path) PROVE x \in {0, p, 2 * p}
    <3>1. x \in 0..(L - 1) /\ FromEnd(path, x) = last /\ Cardinality(Before(x)) < 3
      BY <2>1
    <3>2. ~ (x > 2 * p)
      BY <1>10, <3>1
    <3>3. x \in 0..(2 * p)
      BY <1>0, <1>1, <3>1, <3>2
    <3>4. QED
      BY <1>7, <3>1, <3>3
  <2>5. QED
    BY <2>3, <2>4
<1>12. ASSUME NEW k \in 0..(L - 1), k < p, k < L - 2 * p
       PROVE  /\ FromEnd(path, k) = FromEnd(path, p + k)
              /\ FromEnd(path, k) = FromEnd(path, 2 * p + k)
  <2>1. L - p - k \in i..(L - p) /\ L - 2 * p - k \in i..(L - p)
    <3> DEFINE q == 2 * p
    <3>1. q \in Int /\ p \in Int /\ k \in Int /\ L \in Int /\ i \in Int
      BY <1>0, <1>1
    <3>2. 0 <= k /\ k < p /\ p <= q /\ p >= 1
      BY <1>1, <1>12
    <3>3. i + q + p - 1 <= L
      BY <1>0, <1>1, <1>4
    <3> HIDE DEF L, q
    <3>4. L - p - k >= i /\ L - p - k <= L - p /\ L - p - k \in Int
      BY <3>1, <3>2, <3>3
    <3>5. L - q - k >= i /\ L - q - k <= L - p /\ L - q - k \in Int
      BY <3>1, <3>2, <3>3
    <3>6. QED
      BY <3>1, <3>4, <3>5 DEF q
  <2>2. (L - p - k) + p = L - k /\ (L - 2 * p - k) + p = L - p - k
    <3>1. k \in Nat
      BY <1>0
    <3> DEFINE q == 2 * p
    <3>2. q = p + p /\ q \in Int /\ p \in Int /\ k \in Int /\ L \in Int
      BY <1>0, <1>1, <3>1
    <3> HIDE DEF L, q
    <3>3. (L - p - k) + p = L - k
      <4>1. L \in Int /\ p \in Int /\ k \in Int
        BY <3>2
      <4>2. QED
        BY <4>1
    <3>4. (L - q - k) + p = L - p - k
      BY <3>2
    <3>5. QED
      BY <3>3, <3>4 DEF q
  <2>3. path[L - p - k] = path[L - k] /\ path[L - 2 * p - k] = path[L - k]
    <3>1. path[(L - p - k) + p] = path[L - p - k]
      BY <1>2, <2>1
    <3>2. path[(L - 2 * p - k) + p] = path[L - 2 * p - k]
      BY <1>2, <2>1
    <3>3. QED
      BY <2>2, <3>1, <3>2
  <2>4. L - (p + k) = L - p - k /\ L - (2 * p + k) = L - 2 * p - k
    BY <1>0, <1>1, <1>12
  <2>5. QED
    BY <2>3, <2>4 DEF FromEnd
<1>13. /\ Cardinality(LastVisits(path)) = Tolerance
       /\ p \in LastVisits(path) /\ 2 * p \in LastVisits(path)
       /\ 0 < p /\ p < 2 * p /\ p = 2 * p - p
  BY <1>1, <1>9, <1>11 DEF Tolerance
<1>14. QED
  BY <1>12, <1>13 DEF HasInfiniteLoop

-----------------------------------------------------------------------------
(* The invariant: the envelope and where the message is.  A question ends  *)
(* with the node it left; a report is on its way back, between the node    *)
(* its cursor points to and the one before it.                             *)

Envelope ==
    [method : {"SEND", "REPORT"}, path : Seq(Node), cursor : Int,
     next : Node \cup {NoHop}, destination : Node]

TypeOK ==
    /\ relay \in Envelope
    /\ at \in Node
    /\ route \in [Node -> Node \cup {NoHop}]
    /\ changes \in Nat
    /\ status \in {"travelling", "home", "dropped"}

Steps(path) == \A i \in 1..(Len(path) - 1) : path[i] # path[i + 1]

Outward ==
    /\ relay.path[Len(relay.path)] = at
    /\ relay.next \in Node \ {at}

Homeward ==
    /\ relay.cursor \in 0..(Len(relay.path) - 2)
    /\ at = FromEnd(relay.path, relay.cursor)
    /\ relay.next = FromEnd(relay.path, relay.cursor + 1)

WayInv ==
    /\ Len(relay.path) >= 1
    /\ Steps(relay.path)
    /\ relay.method = "REPORT" =>
          Len(relay.path) >= 2 /\ relay.destination = Origin(relay)
    /\ status = "travelling" => IF relay.method = "SEND" THEN Outward ELSE Homeward
    /\ status = "home" => at = Origin(relay)
    /\ status = "dropped" => relay.method = "SEND"

\* Since place s of its path, the question followed the tables as they are.
FollowsSince(s) ==
    /\ s <= Len(relay.path) /\ s <= 3 * Cardinality(Node) * changes
    /\ Followed(relay.path, route, s)
    /\ s < Len(relay.path) => relay.next = route[relay.path[Len(relay.path)]]

CutInv ==
    /\ Len(relay.path) <= 3 * Cardinality(Node) * (changes + 1)
    /\ status = "travelling" /\ relay.method = "SEND" => \E s \in Nat : FollowsSince(s)

IInv == TypeOK /\ WayInv /\ CutInv

\* The bound on a path, per change of the tables.
LEMMA Bound ==
    ASSUME NEW N \in Nat, NEW c \in Nat
    PROVE  /\ 3 * N * c \in Nat /\ 3 * N * (c + 1) \in Nat
           /\ 3 * N * (c + 1) = 3 * N * c + 3 * N
  OBVIOUS

\* A node that handles the question adds itself to the end of the path.
LEMMA Appended ==
    ASSUME NEW path \in Seq(Node), NEW n \in Node, Len(path) >= 1, Steps(path),
           n # path[Len(path)]
    PROVE  LET longer == Append(path, n)
           IN  /\ longer \in Seq(Node) /\ Len(longer) = Len(path) + 1
               /\ longer[Len(longer)] = n /\ longer[1] = path[1]
               /\ \A i \in 1..Len(path) : longer[i] = path[i]
               /\ Steps(longer)
<1> DEFINE longer == Append(path, n)
<1>1. /\ longer \in Seq(Node) /\ Len(longer) = Len(path) + 1 /\ Len(path) \in Nat
      /\ longer[Len(path) + 1] = n
      /\ \A i \in 1..Len(path) : longer[i] = path[i]
  BY AppendProperties, LenProperties
<1> HIDE DEF longer
<1>2. ASSUME NEW i \in 1..(Len(longer) - 1) PROVE longer[i] # longer[i + 1]
  <2>1. CASE i < Len(path)
    <3>1. i \in 1..(Len(path) - 1) /\ i \in 1..Len(path) /\ i + 1 \in 1..Len(path)
      BY <1>1, <2>1
    <3>2. QED
      BY <1>1, <3>1 DEF Steps
  <2>2. CASE i = Len(path)
    BY <1>1, <2>2
  <2>3. QED
    BY <1>1, <1>2, <2>1, <2>2
<1>3. Steps(longer)
  BY <1>2 DEF Steps
<1>4. longer[1] = path[1]
  BY <1>1
<1>5. QED
  BY <1>1, <1>3, <1>4 DEF longer

\* ... and the path still follows the tables from where it did.
LEMMA FollowedOn ==
    ASSUME NEW path \in Seq(Node), NEW n \in Node, NEW hop \in [Node -> Node \cup {NoHop}],
           NEW s \in Nat, s <= Len(path), Followed(path, hop, s),
           s < Len(path) => n = hop[path[Len(path)]]
    PROVE  Followed(Append(path, n), hop, s)
<1> DEFINE longer == Append(path, n)
<1>1. /\ Len(longer) = Len(path) + 1 /\ Len(path) \in Nat
      /\ longer[Len(path) + 1] = n
      /\ \A i \in 1..Len(path) : longer[i] = path[i] /\ path[i] \in Node
  BY AppendProperties, LenProperties
<1> HIDE DEF longer
<1> SUFFICES ASSUME NEW i \in (s + 1)..(Len(longer) - 1)
             PROVE  longer[i] \in Node /\ longer[i + 1] = hop[longer[i]]
  BY DEF Followed, longer
<1>2. CASE i < Len(path)
  <2>1. i \in (s + 1)..(Len(path) - 1) /\ i \in 1..Len(path) /\ i + 1 \in 1..Len(path)
    BY <1>1, <1>2
  <2>2. QED
    BY <1>1, <2>1 DEF Followed
<1>3. CASE i = Len(path)
  BY <1>1, <1>3
<1>4. QED
  BY <1>1, <1>2, <1>3

-----------------------------------------------------------------------------
(* Questions *)

\* A node whose relay accepts the question extends a path without a loop: the
\* invariant holds of the longer path, wherever the question goes from there.
LEMMA Handled ==
    ASSUME IInv, NEW n \in Node, Arrives(n), relay.method = "SEND", CanRelay(relay, n)
    PROVE  LET longer == Append(relay.path, n)
           IN  /\ longer \in Seq(Node) /\ Len(longer) >= 2 /\ Len(longer) = Len(relay.path) + 1
               /\ longer[Len(longer)] = n /\ longer[1] = relay.path[1]
               /\ longer[Len(longer) - 1] = at /\ n # at
               /\ Steps(longer)
               /\ Len(longer) <= 3 * Cardinality(Node) * (changes + 1)
               /\ \E s \in Nat : /\ s < Len(longer) /\ s <= 3 * Cardinality(Node) * changes
                                  /\ Followed(longer, route, s)
<1> DEFINE path == relay.path
           longer == Append(path, n)
           N == Cardinality(Node)
<1>1. /\ path \in Seq(Node) /\ Len(path) >= 1 /\ Steps(path) /\ changes \in Nat
      /\ route \in [Node -> Node \cup {NoHop}]
      /\ path[Len(path)] = at /\ n # at
      /\ Len(path) <= 3 * N * (changes + 1) /\ relay.next = n
  BY DEF IInv, TypeOK, Envelope, WayInv, CutInv, Outward, Arrives
<1>2. N \in Nat /\ N >= 1 /\ Len(path) \in Nat
  BY <1>1, NodesCount, LenProperties
<1>3. PICK s \in Nat : FollowsSince(s)
  BY DEF IInv, CutInv, Arrives
<1>4. ~HasInfiniteLoop(path)
  BY DEF CanRelay, Valid
<1>5. s <= Len(path) /\ s <= 3 * N * changes /\ Followed(path, route, s)
      /\ (s < Len(path) => n = route[path[Len(path)]])
  BY <1>1, <1>3 DEF FollowsSince
<1>6. Len(path) < s + 3 * N
  <2>1. ~ (Len(path) >= s + 3 * N)
    BY <1>1, <1>2, <1>4, <1>5, LoopFound
  <2>2. QED
    BY <1>2, <2>1
<1>7. /\ longer \in Seq(Node) /\ Len(longer) = Len(path) + 1
      /\ longer[Len(longer)] = n /\ longer[1] = path[1]
      /\ \A i \in 1..Len(path) : longer[i] = path[i]
      /\ Steps(longer)
  BY <1>1, Appended
<1>8. Followed(longer, route, s)
  BY <1>1, <1>5, FollowedOn
<1>9. Len(longer) <= 3 * N * (changes + 1)
  <2> HIDE DEF longer, path, N
  <2>1. 3 * N * (changes + 1) = 3 * N * changes + 3 * N /\ 3 * N * changes \in Nat /\ 3 * N \in Nat
    BY <1>1, <1>2, Bound
  <2>2. Len(longer) <= s + 3 * N
    BY <1>2, <1>6, <1>7
  <2>3. QED
    BY <1>2, <1>5, <1>7, <2>1, <2>2
<1>10. longer[Len(longer) - 1] = at
  BY <1>1, <1>2, <1>7
<1>11. s < Len(longer) /\ Len(longer) >= 2
  BY <1>2, <1>5, <1>7, <1>1
<1> HIDE DEF longer, path, N
<1>12. QED
  BY <1>1, <1>5, <1>7, <1>8, <1>9, <1>10, <1>11 DEF longer, path, N

\* The first question follows the tables from its first place.
LEMMA InitInv == Init => IInv
<1> SUFFICES ASSUME Init PROVE IInv
  OBVIOUS
<1> DEFINE N == Cardinality(Node)
<1>1. /\ at \in Node /\ route \in [Node -> Node \cup {NoHop}] /\ route[at] \in Node \ {at}
      /\ changes = 0 /\ status = "travelling"
  BY DEF Init
<1>2. /\ relay.method = "SEND" /\ relay.path = <<at>> /\ relay.cursor = 0
      /\ relay.next = route[at] /\ relay.destination = route[at]
      /\ relay \in Envelope
  BY <1>1 DEF Init, NewSend, Envelope
<1>3. Len(relay.path) = 1 /\ relay.path[1] = at
  BY <1>1, <1>2
<1>4. TypeOK
  BY <1>1, <1>2 DEF TypeOK
<1>5. WayInv
  BY <1>1, <1>2, <1>3 DEF WayInv, Steps, Outward
<1>6. N \in Nat /\ N >= 1
  BY <1>1, NodesCount
<1>7. FollowsSince(0)
  BY <1>1, <1>2, <1>3, <1>6 DEF FollowsSince, Followed
<1>8. CutInv
  BY <1>1, <1>3, <1>6, <1>7 DEF CutInv
<1>9. QED
  BY <1>4, <1>5, <1>8 DEF IInv

\* Forwarding a message keeps the invariant: the path grows by the node that forwards it.
LEMMA ForwardInv ==
    ASSUME IInv, NEW n \in Node, Forward(n)
    PROVE  IInv'
<1> DEFINE path == relay.path
           longer == Append(path, n)
           N == Cardinality(Node)
<1>1. /\ Arrives(n) /\ relay.method = "SEND" /\ CanRelay(relay, n)
      /\ relay' = [relay EXCEPT !.path = longer, !.next = route[n]]
      /\ at' = n /\ route[n] \notin {NoHop, n}
      /\ route' = route /\ changes' = changes /\ status' = status /\ status = "travelling"
  BY DEF Forward, RelaySend, Arrives
<1>2. /\ longer \in Seq(Node) /\ Len(longer) >= 2 /\ Len(longer) = Len(path) + 1
      /\ longer[Len(longer)] = n /\ Steps(longer)
      /\ Len(longer) <= 3 * N * (changes + 1)
      /\ \E s \in Nat : s < Len(longer) /\ s <= 3 * N * changes /\ Followed(longer, route, s)
  BY <1>1, Handled
<1>3. TypeOK /\ relay \in Envelope /\ route[n] \in Node \ {n}
  BY <1>1 DEF IInv, TypeOK
<1>4. /\ relay'.path = longer /\ relay'.next = route[n] /\ relay'.method = "SEND"
      /\ relay' \in Envelope
  BY <1>1, <1>2, <1>3 DEF Envelope
<1>5. TypeOK'
  BY <1>1, <1>3, <1>4 DEF TypeOK
<1>6. WayInv'
  <2>1. Outward'
    BY <1>1, <1>2, <1>3, <1>4 DEF Outward
  <2>2. QED
    BY <1>1, <1>2, <1>4, <2>1 DEF WayInv
<1>7. CutInv'
  <2>1. PICK s \in Nat : s < Len(longer) /\ s <= 3 * N * changes /\ Followed(longer, route, s)
    BY <1>2
  <2>2. FollowsSince(s)'
    BY <1>1, <1>2, <1>4, <2>1 DEF FollowsSince
  <2>3. QED
    BY <1>1, <1>2, <1>4, <2>2 DEF CutInv
<1>8. QED
  BY <1>5, <1>6, <1>7 DEF IInv

\* The report starts at the end of the path, where the node before the last
\* is the one the question came from.
LEMMA AnswerInv ==
    ASSUME IInv, NEW n \in Node, Answer(n)
    PROVE  IInv'
<1> DEFINE path == relay.path
           longer == Append(path, n)
           N == Cardinality(Node)
           handled == RelaySend(relay, n, NoHop)
<1>1. /\ Arrives(n) /\ relay.method = "SEND" /\ CanRelay(relay, n)
      /\ relay' = Report(handled)
      /\ at' = n
      /\ route' = route /\ changes' = changes /\ status' = status /\ status = "travelling"
  BY DEF Answer, Arrives
<1>2. /\ longer \in Seq(Node) /\ Len(longer) >= 2 /\ longer[Len(longer)] = n
      /\ longer[1] = path[1] /\ longer[Len(longer) - 1] = at
      /\ Steps(longer)
      /\ Len(longer) <= 3 * N * (changes + 1)
  BY <1>1, Handled
<1>3. TypeOK /\ relay \in Envelope /\ at \in Node
  BY DEF IInv, TypeOK
<1>4. handled.path = longer
  BY <1>3 DEF RelaySend, Envelope
<1> HIDE DEF longer, handled
<1>5. /\ relay'.path = longer /\ relay'.method = "REPORT" /\ relay'.cursor = 0
      /\ relay'.next = FromEnd(longer, 1) /\ relay'.destination = longer[1]
      /\ relay' = [method |-> "REPORT", path |-> longer, cursor |-> 0,
                   next |-> FromEnd(longer, 1), destination |-> longer[1]]
  BY <1>1, <1>2, <1>4 DEF Report, PathPrev, Origin
<1>6. FromEnd(longer, 0) = n /\ FromEnd(longer, 1) = at /\ longer[1] \in Node
  BY <1>2 DEF FromEnd
<1>7. relay' \in Envelope
  BY <1>2, <1>3, <1>5, <1>6 DEF Envelope
<1>8. TypeOK'
  BY <1>1, <1>3, <1>7 DEF TypeOK
<1>9. WayInv'
  <2>1. Homeward'
    BY <1>1, <1>2, <1>5, <1>6 DEF Homeward
  <2>2. relay'.destination = Origin(relay')
    BY <1>5 DEF Origin
  <2>3. QED
    BY <1>1, <1>2, <1>5, <2>1, <2>2 DEF WayInv, Origin
<1>10. CutInv'
  BY <1>1, <1>2, <1>5 DEF CutInv
<1>11. QED
  BY <1>8, <1>9, <1>10 DEF IInv

-----------------------------------------------------------------------------
(* Reports *)

\* Where a report that arrives stands: the node it reaches is one place
\* further from the end of the path than the node it left, and no nearer place
\* holds that node.
LEMMA Arrived ==
    ASSUME IInv, NEW n \in Node, Arrives(n), relay.method = "REPORT"
    PROVE  /\ Len(relay.path) \in Nat /\ Len(relay.path) >= 2
           /\ relay.cursor \in 0..(Len(relay.path) - 2)
           /\ relay.destination = Origin(relay)
           /\ n = FromEnd(relay.path, relay.cursor + 1)
           /\ relay.cursor + 1 \in Ahead(relay, n)
           /\ \A i \in Ahead(relay, n) : relay.cursor + 1 <= i
<1>1. /\ relay.path \in Seq(Node) /\ Len(relay.path) >= 2 /\ Steps(relay.path)
      /\ relay.destination = Origin(relay) /\ Homeward /\ relay.next = n
  BY DEF IInv, TypeOK, Envelope, WayInv, Arrives
<1>2. Len(relay.path) \in Nat
  BY <1>1, LenProperties
<1>3. relay.cursor \in 0..(Len(relay.path) - 2)
  BY <1>1 DEF Homeward
<1>4. n = FromEnd(relay.path, relay.cursor + 1)
  BY <1>1 DEF Homeward
<1>5. relay.cursor + 1 \in Ahead(relay, n)
  BY <1>2, <1>3, <1>4 DEF Ahead
<1>6. FromEnd(relay.path, relay.cursor) # n
  <2>1. Len(relay.path) - relay.cursor - 1 \in 1..(Len(relay.path) - 1)
    BY <1>2, <1>3
  <2>2. relay.path[Len(relay.path) - relay.cursor - 1]
           # relay.path[(Len(relay.path) - relay.cursor - 1) + 1]
    BY <1>1, <2>1 DEF Steps
  <2>3. /\ (Len(relay.path) - relay.cursor - 1) + 1 = Len(relay.path) - relay.cursor
        /\ Len(relay.path) - (relay.cursor + 1) = Len(relay.path) - relay.cursor - 1
    BY <1>2, <1>3
  <2>4. QED
    BY <1>4, <2>2, <2>3 DEF FromEnd
<1>7. \A i \in Ahead(relay, n) : relay.cursor + 1 <= i
  BY <1>2, <1>3, <1>6 DEF Ahead
<1>8. QED
  BY <1>1, <1>2, <1>3, <1>4, <1>5, <1>7

\* So relay accepts every report at the node it was sent to.
LEMMA ReportRelayed ==
    ASSUME IInv, NEW n \in Node, Arrives(n), relay.method = "REPORT"
    PROVE  CanRelay(relay, n)
<1>1. Ahead(relay, n) # {}
  BY Arrived
<1>2. Valid(relay)
  BY DEF IInv, WayInv, Steps, Valid, Origin
<1>3. QED
  BY <1>1, <1>2 DEF CanRelay, Arrives

\* Dropping a message keeps the invariant: only a message on its way out is ever dropped.
LEMMA DropInv ==
    ASSUME IInv, NEW n \in Node, Drop(n)
    PROVE  IInv'
<1>1. /\ Arrives(n) /\ (CanRelay(relay, n) => relay.method = "SEND" /\ route[n] = n)
      /\ status' = "dropped" /\ at' = n
      /\ relay' = relay /\ route' = route /\ changes' = changes
  BY DEF Drop
<1>2. relay.method = "SEND"
  BY <1>1, ReportRelayed DEF IInv, TypeOK, Envelope
<1>3. TypeOK'
  BY <1>1 DEF IInv, TypeOK
<1>4. WayInv'
  BY <1>1, <1>2 DEF IInv, WayInv
<1>5. CutInv'
  BY <1>1 DEF IInv, CutInv
<1>6. QED
  BY <1>3, <1>4, <1>5 DEF IInv

\* The cursor moves one place back and the report goes to the place behind it,
\* unless the node it reached is the origin, wherever on the path that is.
LEMMA PassBackInv ==
    ASSUME IInv, NEW n \in Node, PassBack(n)
    PROVE  IInv'
<1> DEFINE path == relay.path
<1>1. /\ Arrives(n) /\ relay.method = "REPORT" /\ relay.next = n
      /\ relay' = RelayReport(relay, n)
      /\ status' = IF relay'.next = NoHop THEN "home" ELSE status
      /\ at' = n /\ status = "travelling"
      /\ route' = route /\ changes' = changes
  BY DEF PassBack, Arrives
<1>2. /\ Len(path) \in Nat /\ Len(path) >= 2
      /\ relay.cursor \in 0..(Len(path) - 2)
      /\ relay.destination = Origin(relay)
      /\ n = FromEnd(path, relay.cursor + 1)
      /\ relay.cursor + 1 \in Ahead(relay, n)
      /\ \A i \in Ahead(relay, n) : relay.cursor + 1 <= i
  BY <1>1, Arrived
<1>3. TypeOK /\ WayInv /\ CutInv /\ relay \in Envelope /\ path \in Seq(Node)
  BY DEF IInv, TypeOK, Envelope
<1>4. NoHop \notin Node
  BY TripAssumption
<1>5. CASE IsFinalHop(relay)
  <2>1. relay' = [relay EXCEPT !.cursor = Len(path) - 1, !.next = NoHop]
    BY <1>1, <1>5 DEF RelayReport
  <2>2. /\ relay'.path = path /\ relay'.method = "REPORT" /\ relay'.next = NoHop
        /\ relay'.destination = relay.destination /\ relay' \in Envelope
    <3>1. Len(path) - 1 \in Int /\ NoHop \in Node \cup {NoHop}
      BY <1>2
    <3> HIDE DEF path
    <3>2. /\ relay' \in Envelope /\ relay'.path = relay.path
          /\ relay'.method = relay.method /\ relay'.next = NoHop
          /\ relay'.destination = relay.destination
      <4>1. relay \in Envelope
        BY <1>3
      <4>2. QED
        BY <2>1, <3>1, <4>1 DEF Envelope
    <3>3. QED
      BY <1>1, <3>2 DEF path
  <2>3. status' = "home"
    BY <1>1, <2>2
  <2>4. n = Origin(relay)
    BY <1>1, <1>2, <1>5 DEF IsFinalHop
  <2>5. TypeOK'
    BY <1>1, <1>3, <2>2, <2>3 DEF TypeOK
  <2>6. WayInv'
    BY <1>1, <1>2, <1>3, <2>2, <2>3, <2>4 DEF WayInv, Origin
  <2>7. CutInv'
    BY <1>1, <1>3, <2>2, <2>3 DEF CutInv
  <2>8. QED
    BY <2>5, <2>6, <2>7 DEF IInv
<1>6. CASE ~IsFinalHop(relay)
  <2> DEFINE pos == CHOOSE i \in Ahead(relay, n) : \A j \in Ahead(relay, n) : i <= j
  <2>1. pos = relay.cursor + 1
    <3>1. pos \in Ahead(relay, n) /\ \A j \in Ahead(relay, n) : pos <= j
      BY <1>2
    <3>2. pos \in Int
      BY <1>2, <3>1 DEF Ahead
    <3>3. pos <= relay.cursor + 1 /\ relay.cursor + 1 <= pos
      BY <1>2, <3>1
    <3> HIDE DEF pos
    <3>4. QED
      BY <1>2, <3>2, <3>3
  <2> HIDE DEF pos
  <2>2. relay' = [relay EXCEPT !.cursor = pos, !.next = PathPrev(path, pos)]
    BY <1>1, <1>6 DEF RelayReport, pos
  <2>3. relay.cursor + 1 # Len(path) - 1
    <3>1. relay.next = n /\ n # relay.destination
      BY <1>1, <1>6 DEF IsFinalHop, Arrives
    <3>2. n # path[1]
      BY <1>2, <3>1 DEF Origin
    <3>3. Len(path) - (Len(path) - 1) = 1
      BY <1>2
    <3>4. FromEnd(path, Len(path) - 1) = path[1]
      BY <3>3 DEF FromEnd
    <3>5. FromEnd(path, relay.cursor + 1) # path[1]
      BY <1>2, <3>2
    <3>6. QED
      BY <3>4, <3>5
  <2>4. pos \in 0..(Len(path) - 2) /\ Len(path) - (pos + 1) \in 1..Len(path)
    <3> DEFINE c == relay.cursor
               size == Len(path)
    <3>1. c \in 0..(size - 2) /\ size \in Nat
      BY <1>2
    <3>2. pos = c + 1 /\ c + 1 # size - 1
      BY <2>1, <2>3
    <3> HIDE DEF c, size
    <3>3. pos \in 0..(size - 2) /\ size - (pos + 1) \in 1..size
      BY <3>1, <3>2
    <3>4. QED
      BY <3>3 DEF size
  <2>5. PathPrev(path, pos) = FromEnd(path, pos + 1) /\ FromEnd(path, pos + 1) \in Node
    <3>1. path[Len(path) - (pos + 1)] \in Node
      BY <1>3, <2>4
    <3>2. ~ (Len(path) < pos + 2)
      BY <1>2, <2>4
    <3>3. QED
      BY <3>1, <3>2 DEF PathPrev, FromEnd
  <2>6. /\ relay'.path = path /\ relay'.method = "REPORT" /\ relay'.cursor = pos
        /\ relay'.next = FromEnd(path, pos + 1)
        /\ relay'.destination = relay.destination /\ relay' \in Envelope
    <3>1. pos \in Int /\ PathPrev(path, pos) \in Node \cup {NoHop}
      BY <2>4, <2>5
    <3>2. /\ relay' \in Envelope /\ relay'.path = relay.path
          /\ relay'.method = relay.method /\ relay'.cursor = pos
          /\ relay'.next = PathPrev(path, pos)
          /\ relay'.destination = relay.destination
      <4>1. relay \in Envelope
        BY <1>3
      <4> HIDE DEF path
      <4>2. QED
        BY <2>2, <3>1, <4>1 DEF Envelope
    <3>3. QED
      BY <1>1, <2>5, <3>2
  <2>7. status' = "travelling"
    BY <1>1, <1>4, <2>5, <2>6
  <2>8. TypeOK'
    BY <1>1, <1>3, <2>6, <2>7 DEF TypeOK
  <2>9. Homeward'
    BY <1>1, <1>2, <2>1, <2>4, <2>6 DEF Homeward
  <2>10. WayInv'
    BY <1>2, <1>3, <2>6, <2>7, <2>9 DEF WayInv, Origin
  <2>11. CutInv'
    BY <1>1, <1>3, <2>6, <2>7 DEF CutInv
  <2>12. QED
    BY <2>8, <2>10, <2>11 DEF IInv
<1>7. QED
  BY <1>5, <1>6

-----------------------------------------------------------------------------
(* The tables, and the theorems *)

\* A change of the tables starts the count of what loop detection allows anew
\* from the end of the path.
LEMMA RerouteInv ==
    ASSUME IInv, NEW n \in Node, NEW m \in Node \cup {NoHop}, Reroute(n, m)
    PROVE  IInv'
<1> DEFINE N == Cardinality(Node)
           c == changes
           s == Len(relay.path)
<1>1. /\ status = "travelling" /\ route' = [route EXCEPT ![n] = m]
      /\ changes' = c + 1 /\ relay' = relay /\ at' = at /\ status' = status
  BY DEF Reroute
<1>2. TypeOK /\ WayInv /\ CutInv /\ c \in Nat /\ relay.path \in Seq(Node)
  BY DEF IInv, TypeOK, Envelope
<1>3. N \in Nat /\ s \in Nat
  BY <1>2, NodesCount, LenProperties
<1>4. TypeOK'
  BY <1>1, <1>2 DEF TypeOK
<1>5. WayInv'
  BY <1>1, <1>2 DEF WayInv, Outward, Homeward, Origin
<1>6. s <= 3 * N * (c + 1)
  BY <1>2 DEF CutInv
<1>7. s <= 3 * N * (c + 1 + 1)
  <2>1. /\ 3 * N * (c + 1) \in Nat /\ 3 * N * (c + 1 + 1) \in Nat
        /\ 3 * N * (c + 1 + 1) = 3 * N * (c + 1) + 3 * N
    <3>1. c + 1 \in Nat
      BY <1>2
    <3> HIDE DEF N, c
    <3>2. QED
      BY <1>3, <3>1, Bound
  <2>2. 3 * N \in Nat
    BY <1>3
  <2> HIDE DEF N, c, s
  <2>3. QED
    BY <1>3, <1>6, <2>1, <2>2
<1>8. FollowsSince(s)'
  <2>1. Followed(relay.path, route', s)
    BY <1>3 DEF Followed
  <2>2. QED
    BY <1>1, <1>3, <1>6, <2>1 DEF FollowsSince
<1>9. CutInv'
  <2>1. Len(relay'.path) <= 3 * N * (changes' + 1)
    BY <1>1, <1>7
  <2>2. QED
    BY <1>3, <1>8, <2>1 DEF CutInv
<1>10. QED
  BY <1>4, <1>5, <1>9 DEF IInv

\* The envelope keeps a path that leads back to its origin, and a question
\* whose path does not repeat itself since the tables last changed
\* (MessageRelay::relay, report, path_prev, has_infinite_loop).
THEOREM RelayInvariant == Spec => []IInv
<1>1. Init => IInv
  BY InitInv
<1>2. IInv /\ [Next]_vars => IInv'
  <2> SUFFICES ASSUME IInv, [Next]_vars PROVE IInv'
    OBVIOUS
  <2>1. ASSUME NEW n \in Node, Forward(n) PROVE IInv'
    BY <2>1, ForwardInv
  <2>2. ASSUME NEW n \in Node, Answer(n) PROVE IInv'
    BY <2>2, AnswerInv
  <2>3. ASSUME NEW n \in Node, Drop(n) PROVE IInv'
    BY <2>3, DropInv
  <2>4. ASSUME NEW n \in Node, PassBack(n) PROVE IInv'
    BY <2>4, PassBackInv
  <2>5. ASSUME NEW n \in Node, NEW m \in Node \cup {NoHop}, Reroute(n, m) PROVE IInv'
    BY <2>5, RerouteInv
  <2>6. CASE UNCHANGED vars
    BY <2>6 DEF vars, IInv, TypeOK, WayInv, CutInv, Outward, Homeward, FollowsSince, Origin
  <2>7. QED
    BY <2>1, <2>2, <2>3, <2>4, <2>5, <2>6 DEF Next, Handle
<1>3. QED
  BY <1>1, <1>2, PTL DEF Spec

\* A report ends at the origin of its question and is refused nowhere on its
\* way, for every number of nodes and whatever their tables name
\* (MessageRelay::relay, report).
THEOREM ReportsComeHomeAlways == Spec => []ReportsComeHome
<1>1. IInv => ReportsComeHome
  BY DEF IInv, WayInv, ReportsComeHome
<1>2. QED
  BY <1>1, RelayInvariant, PTL

\* A report walks the hops of its question backwards (MessageRelay::path_prev).
THEOREM ReportsRetraceAlways == Spec => []ReportsRetrace
<1>1. IInv => ReportsRetrace
  <2> SUFFICES ASSUME IInv, relay.method = "REPORT", status = "travelling"
               PROVE  \E i \in 1..(Len(relay.path) - 1) :
                          relay.path[i] = relay.next /\ relay.path[i + 1] = at
    BY DEF ReportsRetrace
  <2> DEFINE i == Len(relay.path) - relay.cursor - 1
  <2>1. Homeward /\ relay.path \in Seq(Node)
    BY DEF IInv, TypeOK, Envelope, WayInv
  <2>2. Len(relay.path) \in Nat /\ relay.cursor \in 0..(Len(relay.path) - 2)
    BY <2>1, LenProperties DEF Homeward
  <2>3. /\ i \in 1..(Len(relay.path) - 1)
        /\ i = Len(relay.path) - (relay.cursor + 1)
        /\ i + 1 = Len(relay.path) - relay.cursor
    BY <2>2
  <2>4. relay.path[i] = relay.next /\ relay.path[i + 1] = at
    BY <2>1, <2>3 DEF Homeward, FromEnd
  <2>5. QED
    BY <2>3, <2>4
<1>2. QED
  BY <1>1, RelayInvariant, PTL

\* Between two changes of the tables a question is handled at most three times
\* per node, in any network (has_infinite_loop, INFINITE_LOOP_TOLERANCE).
THEOREM LoopsAreCutAlways == Spec => []LoopsAreCut
<1>1. IInv => LoopsAreCut
  BY DEF IInv, CutInv, LoopsAreCut
<1>2. QED
  BY <1>1, RelayInvariant, PTL

-----------------------------------------------------------------------------
(* Payloads: the forms of sessions, verifications and payloads *)

Last == Path[Len(Path)]

\* The forms that honest nodes give what they sign: a session of a node's own
\* user, and a verification by that node of this data.
IsSession(s, n) ==
    /\ s.auth.ts \in Nat
    /\ \E signer \in Signer : s = NewSession(n, signer, s.auth.session_id, s.auth.ts)

IsVerification(v, n, data) ==
    /\ IsSession(v.session, n) /\ v.ts \in Nat
    /\ v = [session |-> v.session, ttl |-> DefaultTtl, ts |-> v.ts,
            sig |-> SignRaw(v.sig.key, PackMsg(data, v.ts, DefaultTtl))]

\* A verification that relays keep: the first node made it, and not later than
\* the payload it is in, by its own clock.
IsOrigin(v, data, made) ==
    IsVerification(v, Path[1], data) /\ v.ts <= made + skew[Path[1]]

\* A payload on its way from one node of the path to the next.
OnHop(p, i) ==
    /\ p.to = Path[i + 1]
    /\ p.made \in Nat /\ p.made <= now /\ p.data \in 1 .. sent
    /\ IsVerification(p.verification, Path[i], p.data)
    /\ p.verification.ts = p.made + skew[Path[i]]
    /\ IsOrigin(p.origin_verification, p.data, p.made)

Genuine(p) == \E i \in 1 .. (Len(Path) - 1) : OnHop(p, i)

PayloadTypeOK ==
    /\ now \in Nat /\ sent \in Nat
    /\ skew \in [PathNode -> Skews]
    /\ DOMAIN manager = PathNode /\ DOMAIN making = PathNode

ManagerInv == \A n \in PathNode :
    /\ manager[n] = [session |-> manager[n].session, signer |-> manager[n].signer,
                     key |-> manager[n].key]
    /\ manager[n].signer \in Signer /\ IsSession(manager[n].session, n)

\* A node that makes a payload is the first, or keeps the first's verification.
UnderWay(n, m) ==
    /\ n # Last
    /\ m.data \in 1 .. sent
    /\ m.made \in Nat /\ m.made <= now /\ m.ts = m.made + skew[n]
    /\ m.step = "sign" => IsSession(m.session, n)
    /\ IF m.stick = Nothing THEN n = Path[1] ELSE IsOrigin(m.stick, m.data, m.made)

MakingInv == \A n \in PathNode : making[n] # Nothing => UnderWay(n, making[n])

FlightInv == \A p \in flight : Genuine(p)

\* The end of the path took a payload that verified by its clock.
Taken(a) ==
    /\ Genuine(a.payload) /\ a.payload.to = Last
    /\ a.at \in Nat /\ PayloadVerifies(a.payload, a.at + skew[Last])

AcceptedInv == \A a \in accepted : Taken(a)

PayloadInv == PayloadTypeOK /\ ManagerInv /\ MakingInv /\ FlightInv /\ AcceptedInv
-----------------------------------------------------------------------------
(* Nodes, sessions, verifications *)

\* The path visits each of its nodes once, and Hop gives a node's place on it.
LEMMA PathNodes ==
    /\ Len(Path) \in Nat /\ Len(Path) >= 2 /\ DOMAIN Path = 1 .. Len(Path)
    /\ \A i \in 1 .. Len(Path) : Path[i] \in PathNode /\ Hop(Path[i]) = i
    /\ \A i, j \in 1 .. Len(Path) : Path[i] = Path[j] => i = j
    /\ Last \in PathNode
<1>1. /\ Len(Path) \in Nat /\ Len(Path) >= 2 /\ DOMAIN Path = 1 .. Len(Path)
  <2>1. Path \in Seq(STRING) /\ Len(Path) > 1
    BY PayloadAssumption
  <2> DEFINE S == STRING
  <2> HIDE DEF S
  <2>2. Path \in Seq(S)
    BY <2>1 DEF S
  <2>3. Len(Path) \in Nat /\ DOMAIN Path = 1 .. Len(Path)
    BY <2>2, LenProperties
  <2>4. QED
    BY <2>1, <2>3
<1>2. \A i, j \in 1 .. Len(Path) : Path[i] = Path[j] => i = j
  BY <1>1, PayloadAssumption
<1>3. \A i \in 1 .. Len(Path) : Path[i] \in PathNode /\ Hop(Path[i]) = i
  BY <1>1, <1>2 DEF PathNode, Hop
<1>4. QED
  BY <1>1, <1>2, <1>3 DEF Last

\* The times to live and the skews are numbers, and MaxSkew is the largest skew.
LEMMA Numbers ==
    /\ DefaultTtl \in Nat /\ MaxTtl \in Nat /\ SessionTtl \in Nat /\ OffsetTolerance \in Nat
    /\ DefaultTtl <= MaxTtl
    /\ MaxSkew \in Nat /\ \A t \in Skews : t \in Nat /\ t <= MaxSkew
<1>1. /\ DefaultTtl \in Nat /\ MaxTtl \in Nat /\ SessionTtl \in Nat /\ OffsetTolerance \in Nat
      /\ DefaultTtl <= MaxTtl /\ Skews \subseteq Nat
  BY PayloadAssumption
<1>2. MaxSkew \in Skews /\ \A t \in Skews : t <= MaxSkew
  BY PayloadAssumption DEF MaxSkew
<1>3. QED
  BY <1>1, <1>2

\* A session says who authorized it and carries that user's signature of it.
LEMMA SessionFields ==
    ASSUME NEW s, NEW n, IsSession(s, n)
    PROVE  /\ s.auth.authorizer = n /\ s.auth.ttl = SessionTtl /\ s.auth.ts \in Nat
           /\ s.sig = WalletSigns(s.auth.authorizer, s.auth.signer, s.auth)
<1>1. PICK signer \in Signer : s = NewSession(n, signer, s.auth.session_id, s.auth.ts)
  BY DEF IsSession
<1> DEFINE info == UnsignedInfo(n, signer, s.auth.session_id, s.auth.ts)
<1>2. s.auth = info /\ s.sig = WalletSigns(n, info.signer, info)
  BY <1>1 DEF NewSession
<1>3. info.authorizer = n /\ info.ttl = SessionTtl
  BY DEF UnsignedInfo
<1>4. s.auth.ts \in Nat
  BY DEF IsSession
<1> HIDE DEF info
<1>5. QED
  BY <1>2, <1>3, <1>4

\* A session made by a node is one of its own sessions, properly signed.
LEMMA NewIsSession ==
    ASSUME NEW n, NEW signer \in Signer, NEW key, NEW ts \in Nat
    PROVE  IsSession(NewSession(n, signer, key, ts), n)
<1> DEFINE s == NewSession(n, signer, key, ts)
<1>1. s.auth = UnsignedInfo(n, signer, key, ts)
  BY DEF NewSession
<1> HIDE DEF s
<1>2. s.auth.ts = ts /\ s.auth.session_id = key
  <2> DEFINE info == UnsignedInfo(n, signer, key, ts)
  <2>1. info.ts = ts /\ info.session_id = key
    BY DEF UnsignedInfo
  <2> HIDE DEF info
  <2>2. QED
    BY <1>1, <2>1 DEF info
<1>3. s = NewSession(n, signer, s.auth.session_id, s.auth.ts)
  BY <1>2 DEF s
<1>4. QED
  BY <1>2, <1>3 DEF IsSession, s

\* The fields of a verification, as its signer filled them in.
LEMMA VerificationFields ==
    ASSUME NEW v, NEW n, NEW data, IsVerification(v, n, data)
    PROVE  /\ IsSession(v.session, n) /\ v.ts \in Nat /\ v.ttl = DefaultTtl
           /\ v.sig = SignRaw(v.sig.key, PackMsg(data, v.ts, DefaultTtl))
           /\ v # Nothing
<1>1. IsSession(v.session, n) /\ v.ts \in Nat
  BY DEF IsVerification
<1>2. v = [session |-> v.session, ttl |-> DefaultTtl, ts |-> v.ts,
           sig |-> SignRaw(v.sig.key, PackMsg(data, v.ts, DefaultTtl))]
  BY DEF IsVerification
<1>3. v.ttl = DefaultTtl /\ v.sig = SignRaw(v.sig.key, PackMsg(data, v.ts, DefaultTtl))
  BY <1>2
<1>4. "session" \in DOMAIN v
  BY <1>2
<1>5. "session" \notin DOMAIN Nothing
  BY DEF Nothing
<1>6. QED
  BY <1>1, <1>3, <1>4, <1>5

\* What sign makes with whatever key the manager holds by then.
LEMMA Signed ==
    ASSUME NEW n \in PathNode, PayloadTypeOK, UnderWay(n, making[n]), making[n].step = "sign"
    PROVE  /\ IsVerification(Verification(n), n, making[n].data)
           /\ Verification(n).ts = making[n].made + skew[n]
<1>1. IsSession(making[n].session, n) /\ making[n].ts = making[n].made + skew[n]
  BY DEF UnderWay
<1>2. making[n].ts \in Nat
  BY <1>1, Numbers DEF PayloadTypeOK, UnderWay
<1> DEFINE v == Verification(n)
           session == making[n].session
           ts == making[n].ts
           sig == SignRaw(manager[n].key, PackMsg(making[n].data, ts, DefaultTtl))
<1>3. v = [session |-> session, ttl |-> DefaultTtl, ts |-> ts, sig |-> sig]
  BY DEF Verification
<1>4. sig = SignRaw(sig.key, PackMsg(making[n].data, ts, DefaultTtl))
  BY DEF SignRaw
<1> HIDE DEF v, sig
<1>5. v.session = session /\ v.ts = ts /\ v.sig = sig
  BY <1>3
<1>6. v = [session |-> v.session, ttl |-> DefaultTtl, ts |-> v.ts,
           sig |-> SignRaw(v.sig.key, PackMsg(making[n].data, v.ts, DefaultTtl))]
  BY <1>3, <1>4, <1>5
<1>7. QED
  BY <1>1, <1>2, <1>5, <1>6 DEF IsVerification, v

-----------------------------------------------------------------------------
(* The invariant *)

\* The skew of a node's clock is a number.
LEMMA Clocks ==
    ASSUME PayloadTypeOK, NEW n \in PathNode
    PROVE  skew[n] \in Nat /\ skew[n] <= MaxSkew /\ Clock(n) = now + skew[n] /\ Clock(n) \in Nat
<1>1. skew[n] \in Skews
  BY DEF PayloadTypeOK
<1>2. QED
  BY <1>1, Numbers DEF PayloadTypeOK, Clock

\* What was said of payloads stays true as time passes and messages are sent.
LEMMA Later ==
    ASSUME PayloadTypeOK, PayloadTypeOK', now <= now', sent <= sent', skew' = skew
    PROVE  /\ \A p : Genuine(p) => Genuine(p)'
           /\ \A n, m : UnderWay(n, m) => UnderWay(n, m)'
           /\ \A a : Taken(a) => Taken(a)'
<1> USE DEF PayloadTypeOK
<1>1. \A v, data, made : IsOrigin(v, data, made) => IsOrigin(v, data, made)'
  BY DEF IsOrigin
<1>2. ASSUME NEW p, NEW i, OnHop(p, i)
      PROVE  OnHop(p, i)'
  BY <1>1, <1>2 DEF OnHop
<1>3. \A p : Genuine(p) => Genuine(p)'
  BY <1>2 DEF Genuine
<1>4. \A n, m : UnderWay(n, m) => UnderWay(n, m)'
  BY <1>1 DEF UnderWay
<1>5. \A a : Taken(a) => Taken(a)'
  BY <1>3 DEF Taken
<1>6. QED
  BY <1>3, <1>4, <1>5

\* A step of one node's payload leaves the other nodes' payloads alone.
LEMMA MakingKept ==
    ASSUME PayloadTypeOK, PayloadTypeOK', MakingInv, now <= now', sent <= sent', skew' = skew,
           NEW k \in PathNode,
           \A n \in PathNode : n # k => making'[n] = making[n],
           making'[k] # Nothing => UnderWay(k, making[k])'
    PROVE  MakingInv'
<1> SUFFICES ASSUME NEW n \in PathNode, making'[n] # Nothing
             PROVE  UnderWay(n, making[n])'
  BY DEF MakingInv
<1>1. CASE n = k
  BY <1>1
<1>2. CASE n # k
  <2> DEFINE m == making[n]
  <2>1. UnderWay(n, m)
    BY <1>2 DEF MakingInv
  <2>2. \A r : UnderWay(n, r) => UnderWay(n, r)'
    BY Later
  <2>3. QED
    BY <1>2, <2>1, <2>2 DEF UnderWay, IsOrigin
<1>3. QED
  BY <1>1, <1>2

\* The initial state satisfies the inductive invariant.
LEMMA PayloadInitInv == PayloadInit => PayloadInv
<1> SUFFICES ASSUME PayloadInit PROVE PayloadInv
  OBVIOUS
<1>1. PICK signer \in [PathNode -> Signer] :
          manager = [n \in PathNode |-> [session |-> NewSession(n, signer[n], <<n, 0>>, Clock(n)),
                                     signer |-> signer[n], key |-> <<n, 0>>]]
  BY DEF PayloadInit
<1>2. PayloadTypeOK
  BY <1>1, Numbers DEF PayloadInit, PayloadTypeOK
<1>3. ManagerInv
  <2> SUFFICES ASSUME NEW n \in PathNode
               PROVE  /\ manager[n] = [session |-> manager[n].session,
                                       signer |-> manager[n].signer, key |-> manager[n].key]
                      /\ manager[n].signer \in Signer /\ IsSession(manager[n].session, n)
    BY DEF ManagerInv
  <2>1. signer[n] \in Signer /\ Clock(n) \in Nat
    BY <1>1, <1>2, Clocks
  <2>2. IsSession(NewSession(n, signer[n], <<n, 0>>, Clock(n)), n)
    BY <2>1, NewIsSession
  <2>3. QED
    BY <1>1, <2>1, <2>2
<1>4. MakingInv /\ FlightInv /\ AcceptedInv
  BY DEF PayloadInit, MakingInv, FlightInv, AcceptedInv
<1>5. QED
  BY <1>2, <1>3, <1>4 DEF PayloadInv

\* Starting a message keeps the invariant.
LEMMA NewPayloadInv == PayloadInv /\ NewPayload => PayloadInv'
<1> SUFFICES ASSUME PayloadInv, NewPayload PROVE PayloadInv'
  OBVIOUS
<1> DEFINE m == [step |-> "session", data |-> sent', ts |-> Clock(Path[1]),
                 stick |-> Nothing, made |-> now]
<1>1. /\ making' = [making EXCEPT ![Path[1]] = m] /\ sent' = sent + 1
      /\ now' = now /\ skew' = skew /\ manager' = manager /\ flight' = flight
      /\ accepted' = accepted
  BY DEF NewPayload, Stamps
<1>2. PayloadTypeOK /\ ManagerInv /\ MakingInv /\ FlightInv /\ AcceptedInv
  BY DEF PayloadInv
<1>3. PayloadTypeOK'
  BY <1>1, <1>2 DEF PayloadTypeOK
<1>4. ManagerInv' /\ FlightInv' /\ AcceptedInv'
  BY <1>1, <1>2, <1>3, Later DEF ManagerInv, FlightInv, AcceptedInv, PayloadTypeOK
<1>5. MakingInv'
  <2>1. Path[1] \in PathNode /\ Path[1] # Last
    BY PathNodes DEF Last
  <2>2. making'[Path[1]] = m
    BY <1>1, <1>2, <2>1 DEF PayloadTypeOK
  <2>3. /\ m.step = "session" /\ m.data = sent + 1 /\ m.ts = now + skew[Path[1]]
        /\ m.stick = Nothing /\ m.made = now
    BY <1>1, <1>2, <2>1, Clocks
  <2> HIDE DEF m
  <2>4. UnderWay(Path[1], making[Path[1]])'
    BY <1>1, <1>2, <1>3, <2>1, <2>2, <2>3 DEF UnderWay, PayloadTypeOK
  <2>5. \A n \in PathNode : n # Path[1] => making'[n] = making[n]
    BY <1>1, <1>2 DEF PayloadTypeOK
  <2>6. QED
    BY <1>1, <1>2, <1>3, <2>1, <2>4, <2>5, MakingKept DEF PayloadTypeOK
<1>6. QED
  BY <1>3, <1>4, <1>5 DEF PayloadInv

\* Reading the session out of the manager keeps the invariant.
LEMMA TakesSessionInv ==
    ASSUME PayloadInv, NEW n \in PathNode, TakesSession(n)
    PROVE  PayloadInv'
<1> DEFINE old == making[n]
           m == [step |-> "sign", data |-> old.data, ts |-> old.ts, stick |-> old.stick,
                 made |-> old.made, session |-> manager[n].session]
<1>1. /\ making' = [making EXCEPT ![n] = m] /\ old.step = "session"
      /\ now' = now /\ skew' = skew /\ manager' = manager /\ flight' = flight
      /\ accepted' = accepted /\ sent' = sent
  BY DEF TakesSession
<1>2. PayloadTypeOK /\ ManagerInv /\ MakingInv /\ FlightInv /\ AcceptedInv
  BY DEF PayloadInv
<1>3. PayloadTypeOK'
  BY <1>1, <1>2 DEF PayloadTypeOK
<1>4. ManagerInv' /\ FlightInv' /\ AcceptedInv'
  BY <1>1, <1>2, <1>3, Later DEF ManagerInv, FlightInv, AcceptedInv, PayloadTypeOK
<1>5. MakingInv'
  <2>1. old # Nothing
    BY <1>1 DEF Nothing
  <2>2. UnderWay(n, old) /\ IsSession(manager[n].session, n)
    BY <1>2, <2>1 DEF MakingInv, ManagerInv
  <2>3. making'[n] = m
    BY <1>1, <1>2 DEF PayloadTypeOK
  <2>4. /\ m.step = "sign" /\ m.data = old.data /\ m.ts = old.ts /\ m.stick = old.stick
        /\ m.made = old.made /\ m.session = manager[n].session
    OBVIOUS
  <2> HIDE DEF m
  <2>5. UnderWay(n, making[n])'
    BY <1>1, <1>3, <2>2, <2>3, <2>4 DEF UnderWay, IsOrigin
  <2>6. \A k \in PathNode : k # n => making'[k] = making[k]
    BY <1>1, <1>2 DEF PayloadTypeOK
  <2>7. QED
    BY <1>1, <1>2, <1>3, <2>5, <2>6, MakingKept DEF PayloadTypeOK
<1>6. QED
  BY <1>3, <1>4, <1>5 DEF PayloadInv

\* A payload is given up, or leaves for the next node of the path.
LEMMA Cleared ==
    ASSUME PayloadInv, PayloadTypeOK', NEW n \in PathNode, making' = [making EXCEPT ![n] = Nothing],
           now' = now, skew' = skew, sent' = sent
    PROVE  MakingInv'
<1>1. PayloadTypeOK /\ MakingInv
  BY DEF PayloadInv
<1>2. \A k \in PathNode : k # n => making'[k] = making[k]
  BY <1>1 DEF PayloadTypeOK
<1>3. making'[n] = Nothing
  BY <1>1 DEF PayloadTypeOK
<1>4. QED
  BY <1>1, <1>2, <1>3, MakingKept DEF PayloadTypeOK

\* Signing a payload and sending it to the next hop keeps the invariant.
LEMMA SignsInv ==
    ASSUME PayloadInv, NEW n \in PathNode, Signs(n)
    PROVE  PayloadInv'
<1> DEFINE m == making[n]
           p == [to |-> Path[Hop(n) + 1], data |-> m.data, made |-> m.made,
                 verification |-> Verification(n), origin_verification |-> OriginVerification(n)]
<1>1. /\ making' = [making EXCEPT ![n] = Nothing] /\ m.step = "sign"
      /\ flight' = flight \cup {p}
      /\ now' = now /\ skew' = skew /\ manager' = manager
      /\ accepted' = accepted /\ sent' = sent
  BY DEF Signs
<1>2. PayloadTypeOK /\ ManagerInv /\ MakingInv /\ FlightInv /\ AcceptedInv
  BY DEF PayloadInv
<1>3. PayloadTypeOK'
  BY <1>1, <1>2 DEF PayloadTypeOK
<1>4. ManagerInv' /\ AcceptedInv' /\ MakingInv'
  <2>1. ManagerInv' /\ AcceptedInv'
    BY <1>1, <1>2, <1>3, Later DEF ManagerInv, AcceptedInv, PayloadTypeOK
  <2>2. MakingInv'
    BY <1>1, <1>3, Cleared
  <2>3. QED
    BY <2>1, <2>2
<1>5. FlightInv'
  <2>1. UnderWay(n, m)
    BY <1>1, <1>2 DEF MakingInv, Nothing
  <2>2. /\ IsVerification(Verification(n), n, m.data)
        /\ Verification(n).ts = m.made + skew[n]
    BY <1>1, <1>2, <2>1, Signed
  <2>3. IsOrigin(OriginVerification(n), m.data, m.made)
    <3>1. CASE m.stick = Nothing
      <4>1. n = Path[1] /\ OriginVerification(n) = Verification(n)
        BY <2>1, <3>1 DEF UnderWay, OriginVerification
      <4>2. m.made + skew[Path[1]] \in Nat
        BY <1>2, <2>1, <4>1, Clocks DEF UnderWay
      <4>3. QED
        BY <2>2, <4>1, <4>2 DEF IsOrigin
    <3>2. CASE m.stick # Nothing
      BY <2>1, <3>2 DEF UnderWay, OriginVerification
    <3>3. QED
      BY <3>1, <3>2
  <2>4. PICK i \in 1 .. Len(Path) : n = Path[i]
    BY PathNodes DEF PathNode
  <2>5. i # Len(Path) /\ Hop(n) = i
    BY <2>1, <2>4, PathNodes DEF UnderWay, Last
  <2>6. i \in 1 .. (Len(Path) - 1)
    <3>1. Len(Path) \in Nat
      BY PathNodes
    <3>2. QED
      BY <2>4, <2>5, <3>1
  <2>7. /\ p.to = Path[i + 1] /\ p.data = m.data /\ p.made = m.made
        /\ p.verification = Verification(n) /\ p.origin_verification = OriginVerification(n)
    BY <2>5
  <2> HIDE DEF p
  <2>8. OnHop(p, i)
    BY <2>1, <2>2, <2>3, <2>4, <2>7 DEF OnHop, UnderWay
  <2>9. Genuine(p)
    BY <2>6, <2>8 DEF Genuine
  <2>10. \A q \in flight \cup {p} : Genuine(q)
    BY <1>2, <2>9 DEF FlightInv
  <2>11. QED
    BY <1>1, <1>2, <1>3, <2>10, Later DEF FlightInv, PayloadTypeOK
<1>6. QED
  BY <1>3, <1>4, <1>5 DEF PayloadInv

\* A message that is given up because the session is locked keeps the invariant.
LEMMA TryLockFailsInv ==
    ASSUME PayloadInv, NEW n \in PathNode, TryLockFails(n)
    PROVE  PayloadInv'
<1>1. /\ making' = [making EXCEPT ![n] = Nothing]
      /\ now' = now /\ skew' = skew /\ manager' = manager /\ flight' = flight
      /\ accepted' = accepted /\ sent' = sent
  BY DEF TryLockFails
<1>2. PayloadTypeOK /\ ManagerInv /\ MakingInv /\ FlightInv /\ AcceptedInv
  BY DEF PayloadInv
<1>3. PayloadTypeOK'
  BY <1>1, <1>2 DEF PayloadTypeOK
<1>4. ManagerInv' /\ MakingInv' /\ FlightInv' /\ AcceptedInv'
  <2>1. ManagerInv' /\ FlightInv' /\ AcceptedInv'
    BY <1>1, <1>2, <1>3, Later DEF ManagerInv, FlightInv, AcceptedInv, PayloadTypeOK
  <2>2. MakingInv'
    BY <1>1, <1>3, Cleared
  <2>3. QED
    BY <2>1, <2>2
<1>5. QED
  BY <1>3, <1>4 DEF PayloadInv

\* A renewal leaves a session of the same user, and nothing that was signed.
LEMMA RenewsInv ==
    ASSUME PayloadInv, NEW n \in PathNode, Renews(n)
    PROVE  PayloadInv'
<1> DEFINE key == <<n, manager[n].key[2] + 1>>
           s == NewSession(n, manager[n].signer, key, Clock(n))
<1>1. /\ manager' = [manager EXCEPT ![n].session = s, ![n].key = key]
      /\ now' = now /\ skew' = skew /\ making' = making /\ flight' = flight
      /\ accepted' = accepted /\ sent' = sent
  BY DEF Renews
<1>2. PayloadTypeOK /\ ManagerInv /\ MakingInv /\ FlightInv /\ AcceptedInv
  BY DEF PayloadInv
<1>3. PayloadTypeOK'
  BY <1>1, <1>2 DEF PayloadTypeOK
<1>4. MakingInv' /\ FlightInv' /\ AcceptedInv'
  <2>1. FlightInv' /\ AcceptedInv'
    BY <1>1, <1>2, <1>3, Later DEF FlightInv, AcceptedInv, PayloadTypeOK
  <2>2. MakingInv'
    BY <1>1, <1>2 DEF MakingInv, UnderWay, IsOrigin
  <2>3. QED
    BY <2>1, <2>2
<1>5. ManagerInv'
  <2>1. /\ manager[n] = [session |-> manager[n].session, signer |-> manager[n].signer,
                         key |-> manager[n].key]
        /\ manager[n].signer \in Signer
    BY <1>2 DEF ManagerInv
  <2>2. Clock(n) \in Nat
    BY <1>2, Clocks
  <2>3. IsSession(s, n)
    BY <2>1, <2>2, NewIsSession
  <2> HIDE DEF s, key
  <2>4. manager'[n] = [session |-> s, signer |-> manager[n].signer, key |-> key]
    BY <1>1, <1>2, <2>1 DEF PayloadTypeOK
  <2>5. \A k \in PathNode : k # n => manager'[k] = manager[k]
    BY <1>1, <1>2 DEF PayloadTypeOK
  <2>6. QED
    BY <1>2, <2>1, <2>3, <2>4, <2>5 DEF ManagerInv
<1>6. QED
  BY <1>3, <1>4, <1>5 DEF PayloadInv

\* The end of a renewal keeps the invariant: payloads keep the session they were signed with.
LEMMA RenewEndsInv ==
    ASSUME PayloadInv, NEW n \in PathNode, RenewEnds(n)
    PROVE  PayloadInv'
  BY DEF RenewEnds, PayloadInv, PayloadTypeOK, ManagerInv, MakingInv, FlightInv, AcceptedInv, Taken, Genuine,
         OnHop, UnderWay, IsOrigin

\* The passing of time keeps the invariant.
LEMMA TickInv == PayloadInv /\ Tick => PayloadInv'
<1> SUFFICES ASSUME PayloadInv, Tick PROVE PayloadInv'
  OBVIOUS
<1>1. /\ now' = now + 1
      /\ skew' = skew /\ manager' = manager /\ making' = making /\ flight' = flight
      /\ accepted' = accepted /\ sent' = sent
  BY DEF Tick
<1>2. PayloadTypeOK /\ ManagerInv /\ MakingInv /\ FlightInv /\ AcceptedInv
  BY DEF PayloadInv
<1>3. PayloadTypeOK'
  BY <1>1, <1>2 DEF PayloadTypeOK
<1>4. ManagerInv' /\ FlightInv' /\ AcceptedInv'
  BY <1>1, <1>2, <1>3, Later DEF ManagerInv, FlightInv, AcceptedInv, PayloadTypeOK
<1>5. MakingInv'
  <2>1. \A n, m : UnderWay(n, m) => UnderWay(n, m)'
    BY <1>1, <1>2, <1>3, Later DEF PayloadTypeOK
  <2>2. QED
    BY <1>1, <1>2, <2>1 DEF MakingInv, UnderWay, IsOrigin
<1>6. QED
  BY <1>3, <1>4, <1>5 DEF PayloadInv

\* A relay stamps what it forwards anew, and keeps the origin's verification.
LEMMA ForwardsInv ==
    ASSUME PayloadInv, NEW p \in flight, Forwards(p), UNCHANGED <<now, skew, manager, sent>>
    PROVE  PayloadTypeOK' /\ MakingInv' /\ accepted' = accepted
<1> DEFINE n == p.to
           m == [step |-> "session", data |-> p.data, ts |-> Clock(n),
                 stick |-> p.origin_verification, made |-> now]
<1>1. /\ making' = [making EXCEPT ![n] = m] /\ n # Last
      /\ now' = now /\ skew' = skew /\ manager' = manager
      /\ accepted' = accepted /\ sent' = sent
  BY DEF Forwards, Stamps, Last
<1>2. PayloadTypeOK /\ MakingInv
  BY DEF PayloadInv
<1>3. PayloadTypeOK'
  BY <1>1, <1>2 DEF PayloadTypeOK
<1>4. PICK i \in 1 .. (Len(Path) - 1) : OnHop(p, i)
  BY DEF PayloadInv, FlightInv, Genuine
<1>5. i + 1 \in 1 .. Len(Path) /\ 1 \in 1 .. Len(Path)
  <2>1. Len(Path) \in Nat /\ Len(Path) >= 2
    BY PathNodes
  <2>2. QED
    BY <2>1
<1>6. n \in PathNode /\ n = Path[i + 1] /\ Path[1] \in PathNode
  BY <1>4, <1>5, PathNodes DEF OnHop
<1>7. making'[n] = m
  BY <1>1, <1>2, <1>6 DEF PayloadTypeOK
<1>8. /\ m.step = "session" /\ m.data = p.data /\ m.ts = now + skew[n]
      /\ m.stick = p.origin_verification /\ m.made = now
  BY <1>2, <1>6, Clocks
<1> HIDE DEF m
<1>9. m.stick # Nothing /\ IsOrigin(m.stick, m.data, m.made)
  <2>1. IsOrigin(p.origin_verification, p.data, p.made) /\ p.made <= now /\ p.made \in Nat
    BY <1>4 DEF OnHop
  <2>2. IsVerification(p.origin_verification, Path[1], p.data)
    BY <2>1 DEF IsOrigin
  <2>3. p.origin_verification.ts \in Nat /\ p.origin_verification # Nothing
    BY <2>2, VerificationFields
  <2>4. skew[Path[1]] \in Nat /\ now \in Nat
    BY <1>2, <1>6, Clocks DEF PayloadTypeOK
  <2>5. p.origin_verification.ts <= now + skew[Path[1]]
    BY <2>1, <2>3, <2>4 DEF IsOrigin
  <2>6. QED
    BY <1>8, <2>2, <2>3, <2>5 DEF IsOrigin
<1>10. UnderWay(n, making[n])'
  <2>1. m.data \in 1 .. sent
    BY <1>4, <1>8 DEF OnHop
  <2>2. QED
    BY <1>1, <1>2, <1>7, <1>8, <1>9, <2>1 DEF UnderWay, IsOrigin, PayloadTypeOK
<1>11. \A k \in PathNode : k # n => making'[k] = making[k]
  BY <1>1, <1>2 DEF PayloadTypeOK
<1>12. MakingInv'
  BY <1>1, <1>2, <1>3, <1>6, <1>10, <1>11, MakingKept DEF PayloadTypeOK
<1>13. QED
  BY <1>1, <1>3, <1>12

\* Receiving a payload keeps the invariant, whether it is accepted, forwarded or dropped.
LEMMA ReceivesInv ==
    ASSUME PayloadInv, NEW p \in flight, Receives(p)
    PROVE  PayloadInv'
<1>1. /\ flight' = flight \ {p}
      /\ Accepts(p) \/ Forwards(p) \/ Drops(p)
      /\ now' = now /\ skew' = skew /\ manager' = manager /\ sent' = sent
  BY DEF Receives
<1>2. PayloadTypeOK /\ ManagerInv /\ MakingInv /\ FlightInv /\ AcceptedInv
  BY DEF PayloadInv
<1>3. PayloadTypeOK' /\ MakingInv' /\ (accepted' = accepted \/ Accepts(p))
  <2>1. CASE Forwards(p)
    BY <1>1, <2>1, ForwardsInv
  <2>2. CASE Accepts(p) \/ Drops(p)
    BY <1>1, <1>2, <2>2 DEF Accepts, Drops, PayloadTypeOK, MakingInv, UnderWay, IsOrigin
  <2>3. QED
    BY <1>1, <2>1, <2>2
<1>4. ManagerInv' /\ FlightInv'
  <2>1. \A q : Genuine(q) => Genuine(q)'
    BY <1>1, <1>2, <1>3, Later DEF PayloadTypeOK
  <2>2. \A q \in flight' : Genuine(q)
    BY <1>1, <1>2 DEF FlightInv
  <2>3. FlightInv'
    BY <2>1, <2>2 DEF FlightInv
  <2>4. ManagerInv'
    BY <1>1, <1>2 DEF ManagerInv
  <2>5. QED
    BY <2>3, <2>4
<1>5. AcceptedInv'
  <2>1. \A a \in accepted : Taken(a)'
    BY <1>1, <1>2, <1>3, Later DEF AcceptedInv, PayloadTypeOK
  <2>2. CASE Accepts(p)
    <3>0. PICK a : a = [payload |-> p, at |-> now]
      OBVIOUS
    <3>1. accepted' = accepted \cup {a} /\ p.to = Last /\ PayloadVerifies(p, Clock(p.to))
      BY <2>2, <3>0 DEF Accepts, Last
    <3>2. Clock(p.to) = now + skew[Last]
      BY <1>2, <3>1, PathNodes, Clocks
    <3>3. a.payload = p /\ a.at = now
      BY <3>0
    <3>4. Taken(a)
      BY <1>2, <3>1, <3>2, <3>3 DEF Taken, FlightInv, PayloadTypeOK
    <3>5. Taken(a)'
      BY <1>1, <1>2, <1>3, <3>4, Later DEF PayloadTypeOK
    <3>6. QED
      BY <2>1, <3>1, <3>5 DEF AcceptedInv
  <2>3. QED
    BY <1>3, <2>1, <2>2 DEF AcceptedInv
<1>6. QED
  BY <1>3, <1>4, <1>5 DEF PayloadInv

-----------------------------------------------------------------------------
(* The theorems *)

\* Every payload under way or accepted has the form honest nodes give it: its
\* origin is the first node and its last signer the node before the receiver
\* (MessagePayload::new, new_send, MessageVerification::new, Session).
THEOREM PayloadInvariant == PayloadSpec => []PayloadInv
<1>1. PayloadInv /\ [PayloadNext]_payloadVars => PayloadInv'
  <2> SUFFICES ASSUME PayloadInv, [PayloadNext]_payloadVars PROVE PayloadInv'
    OBVIOUS
  <2>1. ASSUME NEW n \in PathNode,
               TakesSession(n) \/ Signs(n) \/ TryLockFails(n) \/ Renews(n) \/ RenewEnds(n)
        PROVE  PayloadInv'
    BY <2>1, TakesSessionInv, SignsInv, TryLockFailsInv, RenewsInv, RenewEndsInv
  <2>2. ASSUME NEW p \in flight, Receives(p) PROVE PayloadInv'
    BY <2>2, ReceivesInv
  <2>3. CASE NewPayload \/ Tick
    BY <2>3, NewPayloadInv, TickInv
  <2>4. CASE UNCHANGED payloadVars
    BY <2>4 DEF payloadVars, PayloadInv, PayloadTypeOK, ManagerInv, MakingInv, FlightInv, AcceptedInv, Taken,
                Genuine, OnHop, UnderWay, IsOrigin
  <2>5. QED
    BY <2>1, <2>2, <2>3, <2>4 DEF PayloadNext
<1>2. QED
  BY PayloadInitInv, <1>1, PTL DEF PayloadSpec

\* What the fields of a payload on a hop say.
LEMMA HopFields ==
    ASSUME PayloadTypeOK, NEW p, NEW i \in 1 .. (Len(Path) - 1), OnHop(p, i)
    PROVE  /\ i \in 1 .. Len(Path) /\ i + 1 \in 1 .. Len(Path)
           /\ Path[i] \in PathNode /\ Path[1] \in PathNode /\ p.to \in PathNode
           /\ IsVerification(p.verification, Path[i], p.data)
           /\ IsVerification(p.origin_verification, Path[1], p.data)
           /\ p.made \in Nat
           /\ p.verification.ts \in Nat /\ p.verification.ts <= p.made + MaxSkew
           /\ p.origin_verification.ts \in Nat /\ p.origin_verification.ts <= p.made + MaxSkew
<1>1. i \in 1 .. Len(Path) /\ i + 1 \in 1 .. Len(Path) /\ 1 \in 1 .. Len(Path)
  <2>1. Len(Path) \in Nat /\ Len(Path) >= 2
    BY PathNodes
  <2>2. QED
    BY <2>1
<1>2. Path[i] \in PathNode /\ Path[1] \in PathNode /\ p.to \in PathNode
  BY <1>1, PathNodes DEF OnHop
<1>3. /\ IsVerification(p.verification, Path[i], p.data)
      /\ IsVerification(p.origin_verification, Path[1], p.data)
      /\ p.made \in Nat /\ p.verification.ts = p.made + skew[Path[i]]
      /\ p.origin_verification.ts <= p.made + skew[Path[1]]
  BY DEF OnHop, IsOrigin
<1>4. p.verification.ts \in Nat /\ p.origin_verification.ts \in Nat
  BY <1>3 DEF IsVerification
<1>5. /\ skew[Path[i]] \in Nat /\ skew[Path[i]] <= MaxSkew
      /\ skew[Path[1]] \in Nat /\ skew[Path[1]] <= MaxSkew
  BY <1>2, Clocks
<1>6. MaxSkew \in Nat
  BY Numbers
<1>7. /\ p.verification.ts <= p.made + MaxSkew
      /\ p.origin_verification.ts <= p.made + MaxSkew
  <2> DEFINE vt == p.verification.ts
             ot == p.origin_verification.ts
             made == p.made
             s == skew[Path[i]]
             o == skew[Path[1]]
  <2>1. /\ vt \in Nat /\ ot \in Nat /\ made \in Nat /\ s \in Nat /\ o \in Nat
        /\ vt = made + s /\ ot <= made + o /\ s <= MaxSkew /\ o <= MaxSkew
    BY <1>3, <1>4, <1>5
  <2> HIDE DEF vt, ot, made, s, o
  <2>2. vt <= made + MaxSkew /\ ot <= made + MaxSkew
    BY <1>6, <2>1
  <2>3. QED
    BY <2>2 DEF vt, ot, made
<1>8. QED
  BY <1>1, <1>2, <1>3, <1>4, <1>7

\* What honest nodes made in one piece verifies at the next node, whatever the
\* length of the path and however often sessions were renewed
\* (MessagePayload::verify, is_expired, Session::verify).
THEOREM HonestVerifiesAlways == PayloadSpec => []HonestVerifies
<1>1. PayloadInv => HonestVerifies
  <2> SUFFICES ASSUME PayloadInv, NEW p \in flight,
                      \A v \in {p.verification, p.origin_verification} :
                          Whole(v) /\ Alive(v, Clock(p.to)),
                      Clock(p.to) <= p.verification.ts + DefaultTtl
               PROVE  PayloadVerifies(p, Clock(p.to))
    BY DEF HonestVerifies
  <2>1. PICK i \in 1 .. (Len(Path) - 1) : OnHop(p, i)
    BY DEF PayloadInv, FlightInv, Genuine
  <2>2. /\ IsVerification(p.verification, Path[i], p.data)
        /\ IsVerification(p.origin_verification, Path[1], p.data)
        /\ p.verification.ts \in Nat /\ p.to \in PathNode
    BY <2>1, HopFields DEF PayloadInv
  <2>3. Clock(p.to) \in Nat
    BY <2>2, Clocks DEF PayloadInv
  <2>4. ASSUME NEW v, NEW n, IsVerification(v, n, p.data), Whole(v), Alive(v, Clock(p.to))
        PROVE  Verifies(v, p.data, Clock(p.to))
    <3>1. /\ IsSession(v.session, n) /\ v.ttl = DefaultTtl
          /\ v.sig = SignRaw(v.sig.key, PackMsg(p.data, v.ts, DefaultTtl))
      BY <2>4, VerificationFields
    <3>2. /\ v.session.auth.ttl = SessionTtl /\ v.session.auth.ts \in Nat
          /\ v.session.sig = WalletSigns(v.session.auth.authorizer, v.session.auth.signer,
                                         v.session.auth)
      BY <3>1, SessionFields
    <3>3. SessionVerifies(v.session, Clock(p.to))
      <4>1. ~SessionExpired(v.session, Clock(p.to))
        BY <2>3, <2>4, <3>2, Numbers DEF SessionExpired, Alive
      <4>2. QED
        BY <2>4, <3>2, <4>1 DEF SessionVerifies, Whole
    <3>4. v.sig.key = v.session.auth.session_id
      BY <2>4 DEF Whole
    <3>5. QED
      BY <3>1, <3>3, <3>4 DEF Verifies
  <2>5. ~IsExpired(p, Clock(p.to))
    <3>1. p.verification.ttl = DefaultTtl
      BY <2>2, VerificationFields
    <3>2. ~Outlived(p.verification, Clock(p.to))
      BY <2>2, <2>3, <3>1, Numbers DEF Outlived
    <3>3. QED
      BY <3>2 DEF IsExpired
  <2>6. Verifies(p.verification, p.data, Clock(p.to))
    BY <2>2, <2>4
  <2>7. Verifies(p.origin_verification, p.data, Clock(p.to))
    BY <2>2, <2>4
  <2>8. QED
    BY <2>5, <2>6, <2>7 DEF PayloadVerifies
<1>2. QED
  BY <1>1, PayloadInvariant, PTL

\* However many nodes relayed a message, its receiver finds the first node's
\* session in it, and the last relay's (MessagePayload::new_send).
THEOREM OriginKeptAlways == PayloadSpec => []OriginKept
<1>1. PayloadInv => OriginKept
  <2> SUFFICES ASSUME PayloadInv, NEW a \in accepted
               PROVE  /\ a.payload.origin_verification.session.auth.authorizer = Path[1]
                      /\ a.payload.verification.session.auth.authorizer = Path[Len(Path) - 1]
                      /\ a.payload.data \in 1 .. sent
    BY DEF OriginKept
  <2> DEFINE p == a.payload
  <2>1. Genuine(p) /\ p.to = Path[Len(Path)]
    BY DEF PayloadInv, AcceptedInv, Taken, Last
  <2>2. PICK i \in 1 .. (Len(Path) - 1) : OnHop(p, i)
    BY <2>1 DEF Genuine
  <2> HIDE DEF p
  <2>3. /\ IsVerification(p.verification, Path[i], p.data)
        /\ IsVerification(p.origin_verification, Path[1], p.data)
        /\ i + 1 \in 1 .. Len(Path)
    BY <2>2, HopFields DEF PayloadInv
  <2>4. i = Len(Path) - 1
    <3>1. Path[i + 1] = Path[Len(Path)]
      BY <2>1, <2>2 DEF OnHop
    <3>2. Len(Path) \in Nat /\ Len(Path) \in 1 .. Len(Path)
      BY PathNodes
    <3>3. i + 1 = Len(Path)
      BY <2>3, <3>1, <3>2, PathNodes
    <3>4. QED
      BY <3>2, <3>3
  <2>5. p.verification.session.auth.authorizer = Path[i]
    BY <2>3, VerificationFields, SessionFields
  <2>6. p.origin_verification.session.auth.authorizer = Path[1]
    BY <2>3, VerificationFields, SessionFields
  <2>7. p.data \in 1 .. sent
    BY <2>2 DEF OnHop
  <2>8. QED
    BY <2>4, <2>5, <2>6, <2>7 DEF p
<1>2. QED
  BY <1>1, PayloadInvariant, PTL

\* A payload that stayed on a hop past its ttl, and what clocks may differ, is
\* refused, for every ttl and tolerance (MessagePayload::is_expired).
THEOREM StaleDroppedAlways == PayloadSpec => []StaleDropped
<1>1. PayloadInv => StaleDropped
  <2> SUFFICES ASSUME PayloadInv, NEW a \in accepted
               PROVE  a.at <= a.payload.made + DefaultTtl + MaxSkew
    BY DEF StaleDropped
  <2> DEFINE p == a.payload
             time == a.at + skew[Last]
  <2>1. Genuine(p) /\ a.at \in Nat /\ ~IsExpired(p, time)
    BY DEF PayloadInv, AcceptedInv, Taken, PayloadVerifies
  <2>2. PICK i \in 1 .. (Len(Path) - 1) : OnHop(p, i)
    BY <2>1 DEF Genuine
  <2>3. /\ IsVerification(p.verification, Path[i], p.data)
        /\ IsVerification(p.origin_verification, Path[1], p.data)
        /\ p.made \in Nat
        /\ p.verification.ts \in Nat /\ p.verification.ts <= p.made + MaxSkew
        /\ p.origin_verification.ts \in Nat /\ p.origin_verification.ts <= p.made + MaxSkew
    BY <2>2, HopFields DEF PayloadInv
  <2>4. p.verification.ttl = DefaultTtl /\ p.origin_verification.ttl = DefaultTtl
    BY <2>3, VerificationFields
  <2>5. skew[Last] \in Nat
    BY PathNodes, Clocks DEF PayloadInv
  <2>6. /\ ~Plausible(p.verification, time) \/ ~Outlived(p.verification, time)
        \/ ~Plausible(p.origin_verification, time) \/ ~Outlived(p.origin_verification, time)
    BY <2>1 DEF IsExpired
  <2>7. ASSUME NEW v, v.ttl = DefaultTtl, v.ts \in Nat, v.ts <= p.made + MaxSkew,
               ~Plausible(v, time) \/ ~Outlived(v, time)
        PROVE  a.at <= p.made + DefaultTtl + MaxSkew
    <3>1. time = a.at + skew[Last]
      OBVIOUS
    <3> HIDE DEF p, time
    <3>2. DefaultTtl <= MaxTtl /\ DefaultTtl \in Nat /\ OffsetTolerance \in Nat /\ MaxSkew \in Nat
      BY Numbers
    <3>3. ~ (v.ts - OffsetTolerance <= time) \/ ~ (time > v.ts + DefaultTtl)
      BY <2>7, <3>2 DEF Plausible, Outlived
    <3>4. /\ time \in Nat /\ a.at <= time /\ a.at \in Nat
          /\ v.ts \in Nat /\ v.ts <= p.made + MaxSkew /\ p.made \in Nat
      BY <2>1, <2>3, <2>5, <2>7, <3>1
    <3> DEFINE ts == v.ts
               made == p.made
               when == a.at
    <3>5. /\ time \in Nat /\ when <= time /\ when \in Nat
          /\ ts \in Nat /\ ts <= made + MaxSkew /\ made \in Nat
          /\ ~ (ts - OffsetTolerance <= time) \/ ~ (time > ts + DefaultTtl)
      BY <3>3, <3>4
    <3> HIDE DEF ts, made, when
    <3>6. when <= made + DefaultTtl + MaxSkew
      BY <3>2, <3>5
    <3>7. QED
      BY <3>6 DEF when, made
  <2>8. QED
    BY <2>3, <2>4, <2>6, <2>7
<1>2. QED
  BY <1>1, PayloadInvariant, PTL

\* However often it was relayed, a message is not accepted after the session
\* that signed it at its origin ran out (Session::verify, is_expired).
THEOREM SessionOutlivesMessageAlways == PayloadSpec => []SessionOutlivesMessage
<1>1. PayloadInv => SessionOutlivesMessage
  <2> SUFFICES ASSUME PayloadInv, NEW a \in accepted
               PROVE  a.at <= a.payload.origin_verification.session.auth.ts + SessionTtl
    BY DEF SessionOutlivesMessage
  <2> DEFINE p == a.payload
             s == p.origin_verification.session
  <2>1. Genuine(p) /\ a.at \in Nat /\ PayloadVerifies(p, a.at + skew[Last])
    BY DEF PayloadInv, AcceptedInv, Taken
  <2>2. ~SessionExpired(s, a.at + skew[Last])
    BY <2>1 DEF PayloadVerifies, Verifies, SessionVerifies
  <2>3. PICK i \in 1 .. (Len(Path) - 1) : OnHop(p, i)
    BY <2>1 DEF Genuine
  <2>4. IsVerification(p.origin_verification, Path[1], p.data)
    BY <2>3, HopFields DEF PayloadInv
  <2>5. s.auth.ttl = SessionTtl /\ s.auth.ts \in Nat
    BY <2>4, VerificationFields, SessionFields
  <2>6. skew[Last] \in Nat
    BY PathNodes, Clocks DEF PayloadInv
  <2> HIDE DEF s
  <2>7. a.at <= s.auth.ts + SessionTtl
    <3> DEFINE when == a.at
               ts == s.auth.ts
               slow == skew[Last]
    <3>1. ~ (when + slow > ts + SessionTtl)
      BY <2>2, <2>5 DEF SessionExpired
    <3>2. when \in Nat /\ ts \in Nat /\ slow \in Nat /\ SessionTtl \in Nat
      BY <2>1, <2>5, <2>6, Numbers
    <3> HIDE DEF when, ts, slow
    <3>3. when <= ts + SessionTtl
      BY <3>1, <3>2
    <3>4. QED
      BY <3>3 DEF when, ts
  <2>8. QED
    BY <2>7 DEF s
<1>2. QED
  BY <1>1, PayloadInvariant, PTL
-----------------------------------------------------------------------------
(* Custom messages: what a poll may miss *)

\* What the listener is at, and where the receiver stands.
ChannelInv ==
    /\ task.at # "idle" => task.msg \in Msg
    /\ log \in Seq(Msg)
    /\ seen \in Nat \ {0}
    /\ MissedOnlyByLag

\* The steps that leave the channel alone: all but Broadcasts and the polls.
LEMMA ChannelKept ==
    ASSUME ChannelInv, UNCHANGED channel, (task'.at # "idle" => task'.msg \in Msg)
    PROVE  ChannelInv'
  BY DEF ChannelInv, channel, MissedOnlyByLag

\* The steps of the listener before it broadcasts.
LEMMA ListenerKeepsChannel ==
    ASSUME ChannelInv, (\E m \in Msg : Refuses(m) \/ HandlesText(m) \/ HandlesHttp(m)
                                               \/ ExecutePanics(m))
                       \/ SendChunkReportMessage \/ ReportFails \/ HttpAnswers \/ HttpTimesOut
    PROVE  ChannelInv'
<1>1. UNCHANGED channel
  BY DEF Refuses, HandlesText, HandlesHttp, ExecutePanics, SendChunkReportMessage,
         ReportFails, HttpAnswers, HttpTimesOut
<1>2. task'.at # "idle" => task'.msg \in Msg
  <2>1. CASE \E m \in Msg : Refuses(m)
    BY <2>1 DEF Refuses, ChannelInv
  <2>2. CASE \E m \in Msg : HandlesText(m) \/ HandlesHttp(m) \/ ExecutePanics(m)
    BY <2>2 DEF HandlesText, HandlesHttp, ExecutePanics, Task
  <2>3. CASE SendChunkReportMessage \/ ReportFails \/ HttpAnswers \/ HttpTimesOut
    <3>1. task.at # "idle"
      BY <2>3 DEF SendChunkReportMessage, ReportFails, HttpAnswers, HttpTimesOut
    <3>2. task'.msg = task.msg
      BY <2>3 DEF SendChunkReportMessage, ReportFails, HttpAnswers, HttpTimesOut, Task
    <3>3. QED
      BY <3>1, <3>2 DEF ChannelInv
  <2>4. QED
    BY <2>1, <2>2, <2>3
<1>3. QED
  BY <1>1, <1>2, ChannelKept

\* A broadcast pushes the oldest message out when the channel is full: what
\* was overwritten stays overwritten.
LEMMA BroadcastKeepsChannel ==
    ASSUME ChannelInv, Broadcasts
    PROVE  ChannelInv'
<1>1. task.msg \in Msg /\ log \in Seq(Msg) /\ log' = Append(log, task.msg)
  BY DEF ChannelInv, Broadcasts
<1>2. log' \in Seq(Msg) /\ Len(log') = Len(log) + 1 /\ Len(log) \in Nat
  BY <1>1
<1>3. task'.at = "idle" /\ seen' = seen /\ polled' = polled
  BY DEF Broadcasts, Idle
<1>4. MissedOnlyByLag'
  <2> SUFFICES ASSUME NEW i \in 1 .. seen - 1, i \notin polled
               PROVE  i + Capacity <= Len(log')
    BY <1>3 DEF MissedOnlyByLag
  <2>1. i + Capacity <= Len(log)
    BY DEF ChannelInv, MissedOnlyByLag
  <2>2. i \in Nat /\ Capacity \in Nat
    BY BackendAssumption DEF ChannelInv
  <2>3. QED
    BY <1>2, <2>1, <2>2
<1>5. QED
  BY <1>2, <1>3, <1>4 DEF ChannelInv

\* The receiver never passes a message that is still in the channel unread.
LEMMA PollKeepsChannel ==
    ASSUME ChannelInv, NEW p \in Poller, TryRecv(p) \/ Recv(p)
    PROVE  ChannelInv'
<1>1. log' = log /\ task' = task /\ (Lags \/ Takes \/ Empty)
  BY DEF TryRecv, Recv, service
<1>2. seen \in Nat \ {0} /\ Len(log) \in Nat /\ Capacity \in Nat \ {0}
  BY BackendAssumption DEF ChannelInv
<1>3. ASSUME NEW i \in 1 .. seen - 1
      PROVE  i \in polled \/ i + Capacity <= Len(log)
  BY <1>3 DEF ChannelInv, MissedOnlyByLag
<1>4. CASE Lags
  <2>1. seen < Oldest /\ seen' = Oldest /\ polled' = polled
    BY <1>4 DEF Lags
  <2>2. Len(log) > Capacity /\ Oldest = Len(log) - Capacity + 1
    BY <2>1, <1>2 DEF Oldest
  <2>3. seen' \in Nat \ {0}
    BY <2>1, <2>2, <1>2
  <2>4. ASSUME NEW i \in 1 .. seen' - 1
        PROVE  i + Capacity <= Len(log)
    BY <2>1, <2>2, <1>2
  <2>5. QED
    BY <1>1, <2>1, <2>3, <2>4 DEF ChannelInv, MissedOnlyByLag
<1>5. CASE Takes
  <2>1. seen' = seen + 1 /\ polled' = polled \cup {seen}
    BY <1>5 DEF Takes
  <2>2. ASSUME NEW i \in 1 .. seen' - 1
        PROVE  i \in polled' \/ i + Capacity <= Len(log)
    <3>1. i \in 1 .. seen - 1 \/ i = seen
      BY <2>1, <1>2
    <3>2. QED
      BY <3>1, <2>1, <1>3
  <2>3. QED
    BY <1>1, <1>2, <2>1, <2>2 DEF ChannelInv, MissedOnlyByLag
<1>6. CASE Empty
  BY <1>1, <1>6 DEF Empty, ChannelInv, MissedOnlyByLag
<1>7. QED
  BY <1>1, <1>4, <1>5, <1>6

\* The channel of pollMessage and the one receiver the calls share
\* (jsonrpc/server.rs): what is behind the receiver was returned by a poll or
\* overwritten first, for any number of messages and calls, any capacity.
THEOREM ChannelInvariant == BackendSpec => []ChannelInv
<1>1. BackendInit => ChannelInv
  BY DEF BackendInit, ChannelInv, Idle, MissedOnlyByLag
<1>2. ChannelInv /\ [BackendNext]_backendVars => ChannelInv'
  <2> SUFFICES ASSUME ChannelInv, [BackendNext]_backendVars
               PROVE  ChannelInv'
    OBVIOUS
  <2>1. ASSUME UNCHANGED <<task, channel>>
        PROVE  ChannelInv'
    BY <2>1, ChannelKept DEF ChannelInv
  <2>2. ASSUME NEW m \in Msg, RpcSends(m) \/ BrowserSends(m)
        PROVE  ChannelInv'
    BY <2>2, <2>1 DEF RpcSends, BrowserSends, Sends, SendRawMessage, SendHttpRequestMessage,
       SendSimpleTextMessage, SendCustomMessage, SendMessage
  <2>3. CASE Listens \/ HttpAnswers \/ HttpTimesOut
    BY <2>3, ListenerKeepsChannel, BroadcastKeepsChannel DEF Listens
  <2>4. ASSUME NEW c \in reports, Loses(c) \/ BrowserCustomMessage(c) \/ NativeCustomMessage(c)
        PROVE  ChannelInv'
    BY <2>4, <2>1 DEF Loses, BrowserCustomMessage, NativeCustomMessage, service
  <2>5. ASSUME NEW p \in Poller, PollMessage(p, TRUE) \/ PollMessage(p, FALSE) \/ Cancels(p)
        PROVE  ChannelInv'
    BY <2>5, <2>1 DEF PollMessage, Cancels, service
  <2>6. ASSUME NEW p \in Poller, TryRecv(p) \/ Recv(p)
        PROVE  ChannelInv'
    BY <2>6, PollKeepsChannel
  <2>7. CASE UNCHANGED backendVars
    BY <2>7, <2>1 DEF backendVars, service
  <2>8. QED
    BY <2>2, <2>3, <2>4, <2>5, <2>6, <2>7 DEF BackendNext, ReportArrives
<1>3. QED
  BY <1>1, <1>2, PTL DEF BackendSpec

\* Polls miss a message only when more came than the channel holds
\* (poll_message, lagging receivers).
THEOREM MissedOnlyByLagAlways == BackendSpec => []MissedOnlyByLag
<1>1. ChannelInv => MissedOnlyByLag
  BY DEF ChannelInv
<1>2. QED
  BY <1>1, ChannelInvariant, PTL
=============================================================================
