-------------------------- MODULE VNodeStoreProofs --------------------------
(***************************************************************************)
(* What the storage of the ring keeps, for any nodes and keys, any tables  *)
(* the nodes formed, any operations and any interleaving of the services,  *)
(* the listeners and the links.                                            *)
(***************************************************************************)
EXTENDS VNodeStore, DhtTablesProofs, SequenceTheorems

-----------------------------------------------------------------------------
(* Operations on a virtual node *)

\* What can be stored: data that calls brought, not more than the limit.
Data == {v \in [did : Key, kind : {"Data"}, data : Seq(Element)] : Len(v.data) <= MaxLen}

Content == Data \cup {NoVNode}

LEMMA DataIsNode == NoVNode \notin Data
  BY OperationAssumption DEF Data

\* KeepLast keeps elements of s, and not more than fit.
LEMMA KeepLastBounded ==
    ASSUME NEW S, NEW s \in Seq(S), NEW room \in Nat
    PROVE  KeepLast(s, room) \in Seq(S) /\ Len(KeepLast(s, room)) <= room
<1> DEFINE trim == IF Len(s) > room THEN Len(s) - room ELSE 0
<1>1. Len(s) \in Nat
  BY LenProperties
<1>2. trim \in Nat /\ trim <= Len(s) /\ Len(s) - trim <= room
  BY <1>1
<1>3. KeepLast(s, room) = SubSeq(s, trim + 1, Len(s))
  BY DEF KeepLast
<1> HIDE DEF trim
<1>4. trim + 1 \in 1..(Len(s) + 1) /\ Len(s) \in (trim + 1 - 1)..Len(s)
  BY <1>1, <1>2
<1>5. /\ SubSeq(s, trim + 1, Len(s)) \in Seq(S)
      /\ Len(SubSeq(s, trim + 1, Len(s))) = IF trim + 1 <= Len(s) THEN Len(s) - (trim + 1) + 1 ELSE 0
  BY <1>1, <1>2, SubSeqProperties
<1> QED
  BY <1>1, <1>2, <1>3, <1>5

\* Of a finite set of places every one has its rank, and every rank its place.
LEMMA RankHasPlace ==
    ASSUME NEW at \in SUBSET Nat, IsFiniteSet(at)
    PROVE  \A r \in 1..Cardinality(at) : \E i \in at : Cardinality({j \in at : j <= i}) = r
<1> DEFINE N == Cardinality(at)
           U(i) == {j \in at : j <= i}
           rank == [i \in at |-> Cardinality(U(i))]
<1>1. N \in Nat
  BY FS_CardinalityType
<1>2. ASSUME NEW i \in at
      PROVE  /\ IsFiniteSet(U(i)) /\ Cardinality(U(i)) \in 1..N
             /\ i \in U(i) /\ U(i) \in SUBSET at
  <2>1. U(i) \in SUBSET at /\ i \in U(i)
    OBVIOUS
  <2> HIDE DEF U
  <2>2. IsFiniteSet(U(i)) /\ Cardinality(U(i)) <= N
    BY <2>1, FS_Subset
  <2>3. Cardinality(U(i)) \in Nat /\ Cardinality(U(i)) # 0
    BY <2>1, <2>2, FS_CardinalityType, FS_EmptySet
  <2> QED
    BY <1>1, <2>1, <2>2, <2>3
<1>3. ASSUME NEW i \in at, NEW j \in at, i < j
      PROVE  Cardinality(U(i)) # Cardinality(U(j))
  <2>1. U(i) \in SUBSET U(j) /\ j \notin U(i)
    <3>1. i \in Nat /\ j \in Nat /\ \A x \in at : x \in Nat
      OBVIOUS
    <3>2. ~ (j <= i) /\ \A x \in at : x <= i => x <= j
      BY <1>3, <3>1
    <3> QED
      BY <3>2
  <2>2. IsFiniteSet(U(j)) /\ j \in U(j)
    BY <1>2
  <2> HIDE DEF U
  <2>3. U(i) \in SUBSET U(j) /\ U(i) # U(j)
    BY <2>1, <2>2
  <2> QED
    BY <2>2, <2>3, FS_Subset
<1>4. rank \in Injection(at, 1..N)
  <2>1. rank \in [at -> 1..N]
    BY <1>2
  <2>2. ASSUME NEW i \in at, NEW j \in at, rank[i] = rank[j]
        PROVE  i = j
    <3>1. Cardinality(U(i)) = Cardinality(U(j))
      BY <2>2
    <3> HIDE DEF U, rank
    <3>2. i \in Nat /\ j \in Nat
      OBVIOUS
    <3>3. ~ (i < j) /\ ~ (j < i)
      BY <1>3, <3>1
    <3> QED
      BY <3>2, <3>3
  <2> HIDE DEF rank
  <2> QED
    BY <2>1, <2>2 DEF Injection, IsInjective
<1>5. IsFiniteSet(1..N) /\ Cardinality(1..N) = N
  <2>1. 1 \in Int /\ N \in Int /\ (IF 1 > N THEN 0 ELSE N - 1 + 1) = N
    BY <1>1
  <2> HIDE DEF N
  <2> QED
    BY <2>1, FS_Interval
<1>6. rank \in Surjection(at, 1..N)
  <2> DEFINE T == 1..N
  <2>1. rank \in Injection(at, T) /\ IsFiniteSet(T) /\ Cardinality(at) = Cardinality(T)
    BY <1>4, <1>5
  <2> HIDE DEF rank, T
  <2>2. rank \in Surjection(at, T)
    BY <2>1, FS_Injection
  <2> QED
    BY <2>2 DEF T
<1>7. \A r \in 1..N : \E i \in at : rank[i] = r
  BY <1>6 DEF Surjection
<1> QED
  BY <1>7

\* What is selected of s are elements of s, as many as there are places.
LEMMA SelectedType ==
    ASSUME NEW S, NEW s \in Seq(S), NEW at \in SUBSET (1..Len(s))
    PROVE  /\ Selected(s, at) \in Seq(S)
           /\ Len(Selected(s, at)) = Cardinality(at)
           /\ Cardinality(at) \in Nat /\ Cardinality(at) <= Len(s)
           /\ Cardinality(at) = Len(s) => at = 1..Len(s)
<1> DEFINE Nth(r) == CHOOSE i \in at : Cardinality({j \in at : j <= i}) = r
           N == Cardinality(at)
           all == 1..Len(s)
<1>1. Len(s) \in Nat /\ \A i \in 1..Len(s) : s[i] \in S
  BY LenProperties, ElementOfSeq
<1>2. at \in SUBSET Nat
  BY <1>1
<1>3. /\ IsFiniteSet(at) /\ N \in Nat /\ N <= Len(s)
      /\ N = Len(s) => at = all
  <2>1. IsFiniteSet(all) /\ Cardinality(all) = Len(s)
    <3>1. 1 \in Int /\ Len(s) \in Int /\ (IF 1 > Len(s) THEN 0 ELSE Len(s) - 1 + 1) = Len(s)
      BY <1>1
    <3> QED
      BY <3>1, FS_Interval
  <2>2. at \in SUBSET all
    OBVIOUS
  <2> HIDE DEF all
  <2> QED
    BY <2>1, <2>2, FS_Subset, FS_CardinalityType
<1>4. Selected(s, at) = [r \in 1..N |-> s[Nth(r)]]
  BY DEF Selected
<1>5. \A r \in 1..N : Nth(r) \in at
  BY <1>2, <1>3, RankHasPlace
<1> HIDE DEF Nth, N
<1>6. \A r \in 1..N : s[Nth(r)] \in S
  BY <1>1, <1>5
<1>7. Selected(s, at) \in Seq(S)
  BY <1>3, <1>4, <1>6, IsASeq
<1>8. Len(Selected(s, at)) = N
  BY <1>3, <1>4, <1>7, LenProperties
<1> QED
  BY <1>3, <1>7, <1>8 DEF N

\* The last places select the last elements.
LEMMA SelectedTail ==
    ASSUME NEW S, NEW s \in Seq(S), NEW a \in 0..Len(s)
    PROVE  LET t == Selected(s, (a + 1)..Len(s))
           IN  /\ t \in Seq(S) /\ Len(t) = Len(s) - a
               /\ \A r \in 1..Len(t) : t[r] = s[a + r]
<1> DEFINE at == (a + 1)..Len(s)
           Nth(r) == CHOOSE i \in at : Cardinality({j \in at : j <= i}) = r
           N == Cardinality(at)
<1>1. Len(s) \in Nat /\ a \in Nat /\ a <= Len(s)
  BY LenProperties
<1>2. at \in SUBSET (1..Len(s))
  BY <1>1
<1>3. N = Len(s) - a
  <2>1. a + 1 \in Int /\ Len(s) \in Int /\ (IF a + 1 > Len(s) THEN 0 ELSE Len(s) - (a + 1) + 1) = Len(s) - a
    BY <1>1
  <2> QED
    BY <2>1, FS_Interval
<1>4. ASSUME NEW i \in at PROVE Cardinality({j \in at : j <= i}) = i - a
  <2>1. i \in Int /\ a + 1 \in Int /\ (IF a + 1 > i THEN 0 ELSE i - (a + 1) + 1) = i - a
    BY <1>1
  <2>2. {j \in at : j <= i} = (a + 1)..i
    BY <1>1
  <2> QED
    BY <2>1, <2>2, FS_Interval
<1>5. \A r \in 1..N : Nth(r) = a + r
  <2> SUFFICES ASSUME NEW r \in 1..N PROVE Nth(r) = a + r
    OBVIOUS
  <2>1. a + r \in at /\ \A i \in at : i - a = r => i = a + r
    BY <1>1, <1>3
  <2>2. \A i \in at : Cardinality({j \in at : j <= i}) = r <=> i = a + r
    BY <1>1, <1>4, <2>1
  <2> HIDE DEF at
  <2> QED
    BY <2>1, <2>2
<1>6. Selected(s, at) = [r \in 1..N |-> s[Nth(r)]]
  BY DEF Selected
<1>7. Selected(s, at) \in Seq(S) /\ Len(Selected(s, at)) = N
  BY <1>2, SelectedType
<1> HIDE DEF at, Nth, N
<1>8. \A r \in 1..N : Selected(s, at)[r] = s[a + r]
  BY <1>5, <1>6
<1> QED
  BY <1>3, <1>7, <1>8 DEF at

LEMMA SelectedAll ==
    ASSUME NEW S, NEW s \in Seq(S)
    PROVE  Selected(s, 1..Len(s)) = s
<1> DEFINE t == Selected(s, 1..Len(s))
<1>1. Len(s) \in Nat /\ 0 \in 0..Len(s) /\ 0 + 1 = 1 /\ Len(s) - 0 = Len(s)
  BY LenProperties
<1>2. t \in Seq(S) /\ Len(t) = Len(s) /\ \A r \in 1..Len(t) : t[r] = s[0 + r]
  BY <1>1, SelectedTail
<1> HIDE DEF t
<1>3. \A r \in 1..Len(t) : t[r] = s[r]
  BY <1>1, <1>2
<1> QED
  BY <1>2, <1>3, SeqEqual DEF t

\* A touch keeps elements that were there.
LEMMA RemainsType ==
    ASSUME NEW S, NEW v, NEW other, v.data \in Seq(S)
    PROVE  /\ Remains(v, other) \in Seq(S)
           /\ Len(Remains(v, other)) \in Nat /\ Len(Remains(v, other)) <= Len(v.data)
           /\ Len(Remains(v, other)) = Len(v.data) => Remains(v, other) = v.data
<1> DEFINE kept == {i \in 1..Len(v.data) : \A j \in 1..Len(other.data) : other.data[j] # v.data[i]}
<1>1. kept \in SUBSET (1..Len(v.data)) /\ Remains(v, other) = Selected(v.data, kept)
  BY DEF Remains
<1> HIDE DEF kept
<1> QED
  BY <1>1, SelectedType, SelectedAll

\* What an operation leaves: data under the key, within the limit, or an error.
LEMMA OperateType ==
    ASSUME NEW op \in Op, NEW v \in Content, v # NoVNode => v.did = op.did
    PROVE  LET result == Operate(Existing(v, op), op)
           IN  result = NoVNode \/ (result \in Data /\ result.did = op.did)
<1> DEFINE w == Existing(v, op)
<1>0. op.did \in Key /\ MaxLen \in Nat
  BY StoreAssumption, VNodeAssumption
<1>1. CASE op.op = "JoinSubring"
  <2>1. CASE v = NoVNode
    <3>1. w = SubringVNode([name |-> op.did, creator |-> op.by, finger |-> NoDid])
      BY <1>1, <2>1 DEF Existing, DefaultVNode
    <3>2. ~Decodes(w.data[1])
      BY <3>1 DEF SubringVNode, VirtualNode, Decodes, Plain
    <3> HIDE DEF w
    <3>3. Operate(w, op) = NoVNode
      BY <1>1, <3>2 DEF Operate
    <3> QED
      BY <3>3 DEF w
  <2>2. CASE v # NoVNode
    <3>1. w = v /\ v.kind = "Data"
      BY <2>2 DEF Existing, Content, Data
    <3> QED
      BY <1>1, <3>1 DEF Operate
  <2> QED
    BY <2>1, <2>2
<1>2. CASE op.op # "JoinSubring"
  <2> DEFINE x == op.vnode
  <2>1. /\ op.op \in {"Overwrite", "Extend", "Touch"}
        /\ x = [did |-> op.did, kind |-> x.kind, data |-> x.data]
        /\ x.data \in Seq(Element) /\ Len(x.data) <= MaxLen /\ Len(x.data) \in Nat
    BY <1>2, OperationAssumption, LenProperties DEF VirtualNode
  <2>2. /\ w = [did |-> op.did, kind |-> w.kind, data |-> w.data]
        /\ w.data \in Seq(Element)
    <3>1. CASE v = NoVNode
      <4>1. w = VirtualNode(op.did, x.kind, <<>>)
        BY <1>2, <3>1 DEF Existing, DefaultVNode
      <4> HIDE DEF w
      <4> QED
        BY <4>1 DEF VirtualNode
    <3>2. CASE v # NoVNode
      BY <3>2 DEF Existing, Content, Data
    <3> QED
      BY <3>1, <3>2
  <2> HIDE DEF w
  <2>3. CASE Matches(w, x)
    <3>1. w.kind = "Data" /\ x.kind = "Data"
      BY <2>3 DEF Matches
    <3>2. CASE op.op = "Overwrite"
      <4>1. Operate(w, op) = x
        BY <2>3, <3>2 DEF Operate
      <4> QED
        BY <1>0, <2>1, <3>1, <4>1 DEF Data, w
    <3>3. ASSUME NEW old \in Seq(Element), Operate(w, op) = Appended(w, old, x)
          PROVE  Operate(w, op) \in Data /\ Operate(w, op).did = op.did
      <4> DEFINE room == MaxLen - Len(x.data)
                 kept == KeepLast(old, room)
      <4>1. room \in Nat /\ room + Len(x.data) = MaxLen
        BY <1>0, <2>1
      <4>2. kept \in Seq(Element) /\ Len(kept) <= room /\ Len(kept) \in Nat
        BY <4>1, KeepLastBounded, LenProperties
      <4>3. Operate(w, op) = [w EXCEPT !.data = kept \o x.data]
        BY <3>3 DEF Appended
      <4> HIDE DEF room, kept
      <4>4. kept \o x.data \in Seq(Element) /\ Len(kept \o x.data) = Len(kept) + Len(x.data)
        BY <2>1, <4>2, ConcatProperties
      <4>5. Len(kept \o x.data) <= MaxLen
        BY <1>0, <2>1, <4>1, <4>2, <4>4
      <4>6. Operate(w, op) = [did |-> op.did, kind |-> "Data", data |-> kept \o x.data]
        <5> DEFINE all == kept \o x.data
                   was == w.data
        <5>1. w = [did |-> op.did, kind |-> "Data", data |-> was]
          BY <2>2, <3>1
        <5> HIDE DEF all, was
        <5>2. [w EXCEPT !.data = all] = [did |-> op.did, kind |-> "Data", data |-> all]
          BY <5>1
        <5> QED
          BY <4>3, <5>2 DEF all
      <4> QED
        BY <1>0, <4>4, <4>5, <4>6 DEF Data
    <3>4. CASE op.op = "Extend"
      <4>1. Operate(w, op) = Appended(w, w.data, x)
        BY <2>3, <3>4 DEF Operate
      <4> QED
        BY <2>2, <3>3, <4>1 DEF w
    <3>5. CASE op.op = "Touch"
      <4>1. Operate(w, op) = Appended(w, Remains(w, x), x)
        BY <2>3, <3>5 DEF Operate
      <4> QED
        BY <2>2, <3>3, <4>1, RemainsType DEF w
    <3> QED
      BY <2>1, <3>2, <3>4, <3>5
  <2>4. CASE ~Matches(w, x)
    <3>1. ~ Matches(w, op.vnode)
      BY <2>4
    <3> HIDE DEF x
    <3>2. Operate(w, op) = NoVNode
      BY <1>2, <3>1 DEF Operate
    <3> QED
      BY <3>2 DEF w
  <2> QED
    BY <2>3, <2>4
<1> QED
  BY <1>1, <1>2

-----------------------------------------------------------------------------
(* Functions of pairs *)

\* f is a function of pairs.
Pairs(f, D, E) == f = [a \in D |-> [b \in E |-> f[a][b]]]

\* g is f, changed to v for the pair of p and q.
Changed(g, f, D, E, p, q, v) ==
    /\ Pairs(g, D, E)
    /\ \A a \in D, b \in E : g[a][b] = IF a = p /\ b = q THEN v ELSE f[a][b]

LEMMA ExceptPair ==
    ASSUME NEW D, NEW E, NEW f, Pairs(f, D, E), NEW p \in D, NEW q \in E, NEW v
    PROVE  Changed([f EXCEPT ![p][q] = v], f, D, E, p, q, v)
  BY DEF Pairs, Changed

-----------------------------------------------------------------------------
(* The links *)

\* The place of the link from a to b that was taken, if it is the one from m to n.
Gone(g, m, n, a, b) == IF a = m /\ b = n THEN g ELSE 0

\* The place i had before the message at g was taken, and the place j has after.
Was(g, i) == IF g = 0 \/ i < g THEN i ELSE i + 1
Now(g, j) == IF g = 0 \/ j < g THEN j ELSE j - 1

IsQueue(q) == q \in Seq(ToSet(q))

Queues ==
    /\ Pairs(chan, Node, Node)
    /\ \A a, b \in Node : IsQueue(chan[a][b])

\* The links before and after a step: the message at g of the link from m to n was
\* taken, if g is not 0; of the messages X that n sends, those with a transport
\* are last.
Carried(g, m, n, X) ==
    /\ Queues'
    /\ \A a, b \in Node : \A i \in 1..Len(chan'[a][b]) :
          \/ /\ Was(Gone(g, m, n, a, b), i) \in 1..Len(chan[a][b])
             /\ chan'[a][b][i] = chan[a][b][Was(Gone(g, m, n, a, b), i)]
          \/ /\ Was(Gone(g, m, n, a, b), i) = Len(chan[a][b]) + 1
             /\ a = n /\ b \in linked[n]
             /\ chan'[a][b][i] \in X /\ b = chan'[a][b][i].relay.next
    /\ \A a, b \in Node : \A j \in 1..Len(chan[a][b]) :
          \/ j = Gone(g, m, n, a, b)
          \/ /\ Now(Gone(g, m, n, a, b), j) \in 1..Len(chan'[a][b])
             /\ chan'[a][b][Now(Gone(g, m, n, a, b), j)] = chan[a][b][j]
    /\ \A x \in X : x.relay.next \in linked[n] =>
          \E i \in 1..Len(chan'[n][x.relay.next]) : chan'[n][x.relay.next][i] = x

LEMMA QueueOfSeq ==
    ASSUME NEW S, NEW s \in Seq(S)
    PROVE  IsQueue(s)
<1>1. Len(s) \in Nat /\ s = [i \in 1..Len(s) |-> s[i]] /\ DOMAIN s = 1..Len(s)
  BY LenProperties
<1>2. \A i \in 1..Len(s) : s[i] \in ToSet(s)
  BY <1>1 DEF ToSet
<1>3. [i \in 1..Len(s) |-> s[i]] \in Seq(ToSet(s))
  BY <1>1, <1>2, IsASeq
<1> QED
  BY <1>1, <1>3 DEF IsQueue

\* What is left of a sequence without its element at g.
LEMMA RemoveAtIs ==
    ASSUME NEW S, NEW q \in Seq(S), NEW g \in 1..Len(q)
    PROVE  /\ RemoveAt(q, g) \in Seq(S)
           /\ Len(q) \in Nat /\ Len(RemoveAt(q, g)) = Len(q) - 1
           /\ \A i \in 1..(Len(q) - 1) : RemoveAt(q, g)[i] = q[Was(g, i)]
<1> DEFINE a == SubSeq(q, 1, g - 1)
           b == SubSeq(q, g + 1, Len(q))
<1>1. Len(q) \in Nat /\ \A i \in 1..Len(q) : q[i] \in S
  BY LenProperties, ElementOfSeq
<1>2. 1 \in Int /\ g - 1 \in Int /\ g + 1 \in Int /\ Len(q) \in Int
  BY <1>1
<1>3. (\A i \in 1..(g - 1) : q[i] \in S) /\ (\A i \in (g + 1)..Len(q) : q[i] \in S)
  BY <1>1
<1>4. /\ a \in Seq(S) /\ Len(a) = g - 1
      /\ \A i \in 1..(g - 1) : a[i] = q[i]
  <2>1. /\ a \in Seq(S) /\ Len(a) = IF 1 <= g - 1 THEN g - 1 - 1 + 1 ELSE 0
        /\ \A i \in 1..(g - 1 - 1 + 1) : a[i] = q[1 + i - 1]
    BY <1>2, <1>3, SubSeqProperties
  <2>2. g - 1 - 1 + 1 = g - 1
    BY <1>1
  <2>3. ASSUME NEW i \in 1..(g - 1) PROVE a[i] = q[i]
    <3>1. 1 + i - 1 = i
      OBVIOUS
    <3> HIDE DEF a
    <3> QED
      BY <2>1, <2>2, <3>1
  <2>4. Len(a) = g - 1
    BY <1>1, <2>1
  <2> QED
    BY <2>1, <2>3, <2>4
<1>5. /\ b \in Seq(S) /\ Len(b) = Len(q) - g
      /\ \A i \in 1..(Len(q) - g) : b[i] = q[g + i]
  <2>1. /\ b \in Seq(S) /\ Len(b) = IF g + 1 <= Len(q) THEN Len(q) - (g + 1) + 1 ELSE 0
        /\ \A i \in 1..(Len(q) - (g + 1) + 1) : b[i] = q[g + 1 + i - 1]
    BY <1>2, <1>3, SubSeqProperties
  <2>2. Len(q) - (g + 1) + 1 = Len(q) - g
    BY <1>1
  <2>3. ASSUME NEW i \in 1..(Len(q) - g) PROVE b[i] = q[g + i]
    <3>1. g + 1 + i - 1 = g + i
      OBVIOUS
    <3> HIDE DEF b
    <3> QED
      BY <2>1, <2>2, <3>1
  <2>4. Len(b) = Len(q) - g
    BY <1>1, <2>1
  <2> QED
    BY <2>1, <2>3, <2>4
<1>6. RemoveAt(q, g) = a \o b
  BY DEF RemoveAt
<1> HIDE DEF a, b
<1>7. /\ a \o b \in Seq(S) /\ Len(a \o b) = Len(a) + Len(b)
      /\ \A i \in 1..(Len(a) + Len(b)) : (a \o b)[i] = IF i <= Len(a) THEN a[i] ELSE b[i - Len(a)]
  BY <1>4, <1>5, ConcatProperties
<1>8. Len(a) + Len(b) = Len(q) - 1
  BY <1>1, <1>4, <1>5
<1>9. ASSUME NEW i \in 1..(Len(q) - 1) PROVE (a \o b)[i] = q[Was(g, i)]
  <2>1. CASE i < g
    BY <1>1, <1>4, <1>7, <1>8, <2>1 DEF Was
  <2>2. CASE ~ i < g
    <3>1. Was(g, i) = i + 1 /\ i - (g - 1) \in 1..(Len(q) - g) /\ g + (i - (g - 1)) = i + 1
      BY <1>1, <2>2 DEF Was
    <3>2. b[i - (g - 1)] = q[i + 1]
      BY <1>5, <3>1
    <3> QED
      BY <1>1, <1>4, <1>7, <1>8, <2>2, <3>1, <3>2
  <2> QED
    BY <2>1, <2>2
<1> QED
  BY <1>1, <1>6, <1>7, <1>8, <1>9

\* q became r: its message at g was taken, x was appended if added.
Moved(q, r, g, added, x) ==
    /\ IsQueue(r)
    /\ \A i \in 1..Len(r) :
          \/ Was(g, i) \in 1..Len(q) /\ r[i] = q[Was(g, i)]
          \/ Was(g, i) = Len(q) + 1 /\ added /\ r[i] = x
    /\ \A j \in 1..Len(q) :
          j = g \/ (Now(g, j) \in 1..Len(r) /\ r[Now(g, j)] = q[j])
    /\ added => \E i \in 1..Len(r) : r[i] = x

\* One link: a message taken or not, a message appended or not.
LEMMA OneQueue ==
    ASSUME NEW q, IsQueue(q), NEW g \in Nat, g = 0 \/ g \in 1..Len(q),
           NEW added \in BOOLEAN, NEW x, NEW base, NEW r,
           base = IF g # 0 THEN RemoveAt(q, g) ELSE q,
           r = IF added THEN Append(base, x) ELSE base
    PROVE  Moved(q, r, g, added, x)
<1> DEFINE S == ToSet(q)
<1>1. q \in Seq(S) /\ Len(q) \in Nat
  BY LenProperties DEF IsQueue
<1> HIDE DEF S
<1>2. /\ base \in Seq(S) /\ Len(base) \in Nat /\ Len(base) = IF g = 0 THEN Len(q) ELSE Len(q) - 1
      /\ \A i \in 1..Len(base) : base[i] = q[Was(g, i)]
  <2>1. CASE g # 0
    <3>1. g \in 1..Len(q) /\ base = RemoveAt(q, g)
      BY <2>1
    <3>2. /\ RemoveAt(q, g) \in Seq(S) /\ Len(RemoveAt(q, g)) = Len(q) - 1
          /\ \A i \in 1..(Len(q) - 1) : RemoveAt(q, g)[i] = q[Was(g, i)]
      BY <1>1, <3>1, RemoveAtIs
    <3> QED
      BY <1>1, <2>1, <3>1, <3>2
  <2>2. CASE g = 0
    BY <1>1, <2>2 DEF Was
  <2> QED
    BY <2>1, <2>2
<1>3. \A i \in 1..Len(base) : Was(g, i) \in 1..Len(q)
  <2>1. CASE g = 0
    BY <1>1, <1>2, <2>1 DEF Was
  <2>2. CASE g # 0
    BY <1>1, <1>2, <2>2 DEF Was
  <2> QED
    BY <2>1, <2>2
<1>4. ASSUME NEW j \in 1..Len(q), j # g
      PROVE  Now(g, j) \in 1..Len(base) /\ Was(g, Now(g, j)) = j
  BY <1>1, <1>2, <1>4 DEF Was, Now
<1>5. Was(g, Len(base) + 1) = Len(q) + 1
  <2>1. CASE g = 0
    BY <1>1, <1>2, <2>1 DEF Was
  <2>2. CASE g # 0
    BY <1>1, <1>2, <2>2 DEF Was
  <2> QED
    BY <2>1, <2>2
<1>6. CASE ~added
  <2>1. r = base
    BY <1>6
  <2>2. IsQueue(r)
    BY <1>2, <2>1, QueueOfSeq
  <2>3. \A j \in 1..Len(q) : j = g \/ (Now(g, j) \in 1..Len(r) /\ r[Now(g, j)] = q[j])
    BY <1>2, <1>4, <2>1
  <2> QED
    BY <1>2, <1>3, <1>6, <2>1, <2>2, <2>3 DEF Moved
<1>7. CASE added
  <2>1. r = Append(base, x) /\ base \in Seq(S \cup {x})
    BY <1>2, <1>7, SeqMonotonic
  <2>2. /\ r \in Seq(S \cup {x}) /\ Len(r) = Len(base) + 1
        /\ \A i \in 1..Len(base) : r[i] = base[i]
        /\ r[Len(base) + 1] = x
    BY <2>1, AppendProperties
  <2>3. IsQueue(r)
    BY <2>2, QueueOfSeq
  <2>4. ASSUME NEW i \in 1..Len(r)
        PROVE  \/ Was(g, i) \in 1..Len(q) /\ r[i] = q[Was(g, i)]
               \/ Was(g, i) = Len(q) + 1 /\ added /\ r[i] = x
    <3>1. CASE i \in 1..Len(base)
      BY <1>2, <1>3, <2>2, <3>1
    <3>2. CASE i \notin 1..Len(base)
      <4>1. i = Len(base) + 1
        BY <1>2, <2>2, <3>2
      <4> QED
        BY <1>5, <1>7, <2>2, <4>1
    <3> QED
      BY <3>1, <3>2
  <2>5. ASSUME NEW j \in 1..Len(q), j # g
        PROVE  Now(g, j) \in 1..Len(r) /\ r[Now(g, j)] = q[j]
    <3>1. Now(g, j) \in 1..Len(base) /\ Was(g, Now(g, j)) = j
      BY <1>4, <2>5
    <3>2. base[Now(g, j)] = q[j]
      BY <1>2, <3>1
    <3> QED
      BY <1>2, <2>2, <3>1, <3>2
  <2>6. Len(base) + 1 \in 1..Len(r)
    BY <1>2, <2>2
  <2> QED
    BY <2>2, <2>3, <2>4, <2>5, <2>6 DEF Moved
<1> QED
  BY <1>6, <1>7

\* The shapes of the handlers' effects on the links.
LEMMA CarriedBy ==
    ASSUME Queues, linked \in [Node -> SUBSET Node], NEW m \in Node, NEW n \in Node,
           NEW g \in Nat, g = 0 \/ g \in 1..Len(chan[m][n]), NEW s \in BOOLEAN, NEW x,
           chan' = LET c == IF g # 0 THEN Taken(m, n, g) ELSE chan
                   IN  IF s THEN Sent(c, n, x) ELSE c
    PROVE  Carried(g, m, n, IF s THEN {x} ELSE {})
<1> DEFINE c == IF g # 0 THEN Taken(m, n, g) ELSE chan
           adds == s /\ x.relay.next \in linked[n]
           base(a, b) == IF g # 0 /\ a = m /\ b = n THEN RemoveAt(chan[a][b], g) ELSE chan[a][b]
<1>1. c = [a \in Node |-> [b \in Node |-> base(a, b)]]
  BY DEF Queues, Pairs, Taken
<1>2. adds => x.relay.next \in Node
  OBVIOUS
<1>3. chan' = IF adds THEN [c EXCEPT ![n][x.relay.next] = Append(@, x)] ELSE c
  BY DEF Sent
<1> HIDE DEF c
<1>4. /\ Pairs(chan', Node, Node)
      /\ \A a, b \in Node :
            chan'[a][b] = IF adds /\ a = n /\ b = x.relay.next
                          THEN Append(base(a, b), x) ELSE base(a, b)
  <2>0. /\ \A a, b \in Node : c[a][b] = base(a, b)
        /\ Pairs(c, Node, Node)
    BY <1>1 DEF Pairs
  <2>1. CASE adds
    <3> DEFINE d == x.relay.next
               v == Append(c[n][d], x)
    <3>1. chan' = [c EXCEPT ![n][d] = v] /\ d \in Node
      BY <1>2, <1>3, <2>1
    <3> HIDE DEF base, d, v
    <3>2. Changed(chan', c, Node, Node, n, d, v)
      BY <2>0, <3>1, ExceptPair
    <3>3. c[n][d] = base(n, d)
      BY <2>0, <3>1
    <3> QED
      BY <2>0, <2>1, <3>2, <3>3 DEF d, v, Changed
  <2>2. CASE ~adds
    BY <1>3, <2>0, <2>2
  <2> QED
    BY <2>1, <2>2
<1>5. ASSUME NEW a \in Node, NEW b \in Node
      PROVE  Moved(chan[a][b], chan'[a][b], Gone(g, m, n, a, b),
                   adds /\ a = n /\ b = x.relay.next, x)
  <2> DEFINE q == chan[a][b]
             r == chan'[a][b]
             h == Gone(g, m, n, a, b)
             added == adds /\ a = n /\ b = x.relay.next
             B == base(a, b)
  <2>1. IsQueue(q) /\ h \in Nat /\ (h = 0 \/ h \in 1..Len(q)) /\ added \in BOOLEAN
    BY DEF Queues, Gone
  <2>2. r = IF added THEN Append(B, x) ELSE B
    BY <1>4
  <2>3. B = IF h # 0 THEN RemoveAt(q, h) ELSE q
    BY DEF Gone
  <2> HIDE DEF q, r, h, added, B
  <2>4. Moved(q, r, h, added, x)
    BY <2>1, <2>2, <2>3, OneQueue
  <2> QED
    BY <2>4 DEF q, r, h, added
<1> DEFINE X == IF s THEN {x} ELSE {}
<1>6. Queues'
  BY <1>4, <1>5 DEF Queues, Moved
<1>7. adds => x \in X
  OBVIOUS
<1> HIDE DEF base
<1>8. ASSUME NEW y \in X, y.relay.next \in linked[n]
      PROVE  \E i \in 1..Len(chan'[n][y.relay.next]) : chan'[n][y.relay.next][i] = y
  <2>1. y = x /\ adds /\ y.relay.next \in Node
    BY <1>2, <1>8
  <2>2. Moved(chan[n][x.relay.next], chan'[n][x.relay.next], Gone(g, m, n, n, x.relay.next),
              adds /\ n = n /\ x.relay.next = x.relay.next, x)
    BY <1>5, <2>1
  <2> HIDE DEF adds
  <2> QED
    BY <2>1, <2>2 DEF Moved
<1> HIDE DEF X
<1>9. \A a, b \in Node : \A i \in 1..Len(chan'[a][b]) :
          \/ /\ Was(Gone(g, m, n, a, b), i) \in 1..Len(chan[a][b])
             /\ chan'[a][b][i] = chan[a][b][Was(Gone(g, m, n, a, b), i)]
          \/ /\ Was(Gone(g, m, n, a, b), i) = Len(chan[a][b]) + 1
             /\ a = n /\ b \in linked[n]
             /\ chan'[a][b][i] \in X /\ b = chan'[a][b][i].relay.next
  <2> SUFFICES ASSUME NEW a \in Node, NEW b \in Node, NEW i \in 1..Len(chan'[a][b])
               PROVE  \/ /\ Was(Gone(g, m, n, a, b), i) \in 1..Len(chan[a][b])
                         /\ chan'[a][b][i] = chan[a][b][Was(Gone(g, m, n, a, b), i)]
                      \/ /\ Was(Gone(g, m, n, a, b), i) = Len(chan[a][b]) + 1
                         /\ a = n /\ b \in linked[n]
                         /\ chan'[a][b][i] \in X /\ b = chan'[a][b][i].relay.next
    OBVIOUS
  <2>1. \/ /\ Was(Gone(g, m, n, a, b), i) \in 1..Len(chan[a][b])
           /\ chan'[a][b][i] = chan[a][b][Was(Gone(g, m, n, a, b), i)]
        \/ /\ Was(Gone(g, m, n, a, b), i) = Len(chan[a][b]) + 1
           /\ adds /\ a = n /\ b = x.relay.next /\ chan'[a][b][i] = x
    BY <1>5 DEF Moved
  <2> QED
    BY <1>7, <2>1
<1>10. \A a, b \in Node : \A j \in 1..Len(chan[a][b]) :
          \/ j = Gone(g, m, n, a, b)
          \/ /\ Now(Gone(g, m, n, a, b), j) \in 1..Len(chan'[a][b])
             /\ chan'[a][b][Now(Gone(g, m, n, a, b), j)] = chan[a][b][j]
  BY <1>5 DEF Moved
<1> QED
  BY <1>6, <1>8, <1>9, <1>10 DEF Carried, X

LEMMA CarriedForms ==
    ASSUME Queues, linked \in [Node -> SUBSET Node], NEW m \in Node, NEW n \in Node
    PROVE  /\ chan' = chan => Carried(0, m, n, {})
           /\ \A x : chan' = Sent(chan, n, x) => Carried(0, m, n, {x})
           /\ \A g \in 1..Len(chan[m][n]) :
                 /\ chan' = Taken(m, n, g) => Carried(g, m, n, {})
                 /\ \A x : chan' = Sent(Taken(m, n, g), n, x) => Carried(g, m, n, {x})
<1>0. Len(chan[m][n]) \in Nat
  BY LenProperties DEF Queues, IsQueue
<1>1. ASSUME chan' = chan PROVE Carried(0, m, n, {})
  <2>1. Carried(0, m, n, IF FALSE THEN {0} ELSE {})
    BY <1>1, CarriedBy
  <2> QED
    BY <2>1
<1>2. ASSUME NEW x, chan' = Sent(chan, n, x) PROVE Carried(0, m, n, {x})
  <2>1. Carried(0, m, n, IF TRUE THEN {x} ELSE {})
    BY <1>2, CarriedBy
  <2> QED
    BY <2>1
<1>3. ASSUME NEW g \in 1..Len(chan[m][n]), chan' = Taken(m, n, g) PROVE Carried(g, m, n, {})
  <2>1. g \in Nat /\ g # 0
    BY <1>0
  <2>2. Carried(g, m, n, IF FALSE THEN {0} ELSE {})
    BY <1>3, <2>1, CarriedBy
  <2> QED
    BY <2>2
<1>4. ASSUME NEW g \in 1..Len(chan[m][n]), NEW x, chan' = Sent(Taken(m, n, g), n, x)
      PROVE  Carried(g, m, n, {x})
  <2>1. g \in Nat /\ g # 0
    BY <1>0
  <2>2. Carried(g, m, n, IF TRUE THEN {x} ELSE {})
    BY <1>4, <2>1, CarriedBy
  <2> QED
    BY <2>2
<1> QED
  BY <1>1, <1>2, <1>3, <1>4

-----------------------------------------------------------------------------
(* Types: what is stored, at work and in transit *)

\* What the key k may hold.
Holds(k, v) == v = NoVNode \/ (v \in Data /\ v.did = k)

Stored(s) ==
    /\ Pairs(s, Node, Key)
    /\ \A n \in Node, k \in Key : Holds(k, s[n][k])

IsOperating(op, w, later) ==
    /\ w = [by |-> w.by, at |-> w.at, read |-> w.read]
    /\ w.by \in {"service", "listener"} /\ w.at \in Node
    /\ op \notin later /\ Holds(op.did, w.read)

IsFetching(w) ==
    /\ w = [by |-> "service", at |-> w.at, key |-> w.key, read |-> w.read]
    /\ w.at \in Node /\ w.key \in Key /\ Holds(w.key, w.read)

IsOperate(x, later) ==
    /\ x = [kind |-> "OperateVNode", op |-> x.op, relay |-> x.relay]
    /\ x.op \in Op \ later

IsSearch(x, later) ==
    /\ x = [kind |-> "SearchVNode", key |-> x.key, tx |-> x.tx, own |-> x.own, relay |-> x.relay]
    /\ x.key \in Key /\ x.own \subseteq {op \in Op \ later : op.did = x.key}

IsFound(x) ==
    /\ x = [kind |-> "FoundVNode", vnode |-> x.vnode, tx |-> x.tx, own |-> x.own,
            after |-> x.after, relay |-> x.relay]
    /\ x.vnode \in Data

IsAnswering(a) ==
    /\ a = [at |-> a.at, answer |-> a.answer]
    /\ a.at \in Node /\ IsFound(a.answer)

Message(x, later) == IsOperate(x, later) \/ IsSearch(x, later) \/ IsFound(x)

AtWork ==
    /\ doing = [op \in Op |-> doing[op]]
    /\ \A op \in Op : doing[op] = Idle \/ IsOperating(op, doing[op], todo)
    /\ reading = [f \in Fetch |-> reading[f]]
    /\ \A f \in Fetch : reading[f] = Idle \/ IsFetching(reading[f])
    /\ \A a \in answering : IsAnswering(a)

TypeInv ==
    /\ linked \in [Node -> SUBSET Node]
    /\ Stored(store) /\ Stored(cache)
    /\ AtWork
    /\ todo \subseteq Op /\ handled \subseteq Op \ todo
    /\ Queues
    /\ \A a, b \in Node : \A i \in 1..Len(chan[a][b]) : Message(chan[a][b][i], todo)

\* Work and messages are told apart by their names.
LEMMA WorkForms ==
    ASSUME NEW w, NEW op, NEW later
    PROVE  /\ IsOperating(op, w, later) => w # Idle
           /\ IsFetching(w) => w # Idle
<1>1. Idle.by = "nobody"
  BY DEF Idle
<1>2. IsOperating(op, w, later) => w.by \in {"service", "listener"}
  BY DEF IsOperating
<1>3. ASSUME NEW a, NEW b, NEW c, w = [by |-> "service", at |-> a, key |-> b, read |-> c]
      PROVE  w.by = "service"
  BY <1>3
<1> QED
  BY <1>1, <1>2, <1>3 DEF IsFetching

LEMMA MessageForms ==
    ASSUME NEW x, NEW later
    PROVE  /\ IsOperate(x, later) => x.kind = "OperateVNode"
           /\ IsSearch(x, later) => x.kind = "SearchVNode"
           /\ IsFound(x) => x.kind = "FoundVNode"
<1>1. ASSUME NEW a, NEW b, x = [kind |-> "OperateVNode", op |-> a, relay |-> b]
      PROVE  x.kind = "OperateVNode"
  BY <1>1
<1>2. ASSUME NEW a, NEW b, NEW c, NEW d,
             x = [kind |-> "SearchVNode", key |-> a, tx |-> d, own |-> b, relay |-> c]
      PROVE  x.kind = "SearchVNode"
  BY <1>2
<1>3. ASSUME NEW a, NEW b, NEW c, NEW d, NEW e,
             x = [kind |-> "FoundVNode", vnode |-> a, tx |-> e, own |-> b, after |-> c, relay |-> d]
      PROVE  x.kind = "FoundVNode"
  BY <1>3
<1> QED
  BY <1>1, <1>2, <1>3 DEF IsOperate, IsSearch, IsFound

\* Writing what a key may hold.
LEMMA StoredChanged ==
    ASSUME NEW s, Stored(s), NEW n \in Node, NEW k \in Key, NEW v, Holds(k, v),
           NEW s1, s1 = [s EXCEPT ![n][k] = v]
    PROVE  Stored(s1)
<1>1. Changed(s1, s, Node, Key, n, k, v)
  BY ExceptPair DEF Stored
<1> QED
  BY <1>1 DEF Stored, Changed

\* An operation is taken up or done.
LEMMA DoingChanged ==
    ASSUME AtWork, NEW op \in Op, NEW w, doing' = [doing EXCEPT ![op] = w],
           UNCHANGED <<reading, answering>>, todo' \subseteq todo,
           w = Idle \/ IsOperating(op, w, todo')
    PROVE  AtWork'
<1>1. /\ doing' = [p \in Op |-> doing'[p]] /\ doing'[op] = w
      /\ \A p \in Op \ {op} : doing'[p] = doing[p]
  BY DEF AtWork
<1>2. ASSUME NEW p \in Op PROVE doing'[p] = Idle \/ IsOperating(p, doing'[p], todo')
  BY <1>1 DEF AtWork, IsOperating
<1> QED
  BY <1>1, <1>2 DEF AtWork

\* What is at work stays as it is.
LEMMA WorkSame ==
    ASSUME AtWork, UNCHANGED tasks, todo' \subseteq todo
    PROVE  AtWork'
<1>1. doing' = doing /\ reading' = reading /\ answering' = answering
  BY DEF tasks
<1>2. \A op \in Op : doing[op] = Idle \/ IsOperating(op, doing[op], todo')
  BY DEF AtWork, IsOperating
<1> QED
  BY <1>1, <1>2 DEF AtWork

\* The messages that stay are messages still, and so are those that are sent.
LEMMA MessagesCarried ==
    ASSUME TypeInv, NEW g, NEW m \in Node, NEW n \in Node, NEW X,
           Carried(g, m, n, X), todo' \subseteq todo, \A x \in X : Message(x, todo')
    PROVE  /\ Queues'
           /\ \A a, b \in Node : \A i \in 1..Len(chan'[a][b]) : Message(chan'[a][b][i], todo')
<1>1. ASSUME NEW x, Message(x, todo) PROVE Message(x, todo')
  BY <1>1 DEF Message, IsOperate, IsSearch, IsFound
<1>2. ASSUME NEW a \in Node, NEW b \in Node, NEW i \in 1..Len(chan'[a][b])
      PROVE  Message(chan'[a][b][i], todo')
  <2> DEFINE j == Was(Gone(g, m, n, a, b), i)
  <2>1. \/ j \in 1..Len(chan[a][b]) /\ chan'[a][b][i] = chan[a][b][j]
        \/ chan'[a][b][i] \in X
    BY <1>2 DEF Carried
  <2> HIDE DEF j
  <2>2. \A k \in 1..Len(chan[a][b]) : Message(chan[a][b][k], todo)
    BY DEF TypeInv
  <2> QED
    BY <1>1, <2>1, <2>2
<1> QED
  BY <1>2 DEF Carried

LEMMA MessagesKept ==
    ASSUME TypeInv, NEW g, NEW m \in Node, NEW n \in Node,
           Carried(g, m, n, {}), todo' \subseteq todo
    PROVE  /\ Queues'
           /\ \A a, b \in Node : \A i \in 1..Len(chan'[a][b]) : Message(chan'[a][b][i], todo')
<1>1. \A x \in {} : Message(x, todo')
  OBVIOUS
<1> QED
  BY <1>1, MessagesCarried

LEMMA MessageCarried ==
    ASSUME TypeInv, NEW g, NEW m \in Node, NEW n \in Node, NEW y,
           Carried(g, m, n, {y}), todo' \subseteq todo, Message(y, todo')
    PROVE  /\ Queues'
           /\ \A a, b \in Node : \A i \in 1..Len(chan'[a][b]) : Message(chan'[a][b][i], todo')
<1>1. \A x \in {y} : Message(x, todo')
  OBVIOUS
<1> QED
  BY <1>1, MessagesCarried

\* What a handler finds at its place of a link.
LEMMA MessageAt ==
    ASSUME TypeInv, NEW m \in Node, NEW n \in Node, NEW g \in 1..Len(chan[m][n])
    PROVE  Message(chan[m][n][g], todo) /\ Len(chan[m][n]) \in Nat
  BY LenProperties DEF TypeInv, Queues, IsQueue

LEMMA OperatesType ==
    ASSUME TypeInv, NEW op \in Op, ServiceOperates(op)
    PROVE  TypeInv'
<1> DEFINE n == op.by
           k == op.did
           x == [kind |-> "OperateVNode", op |-> op, relay |-> NewMessage(n, Lookup(n, k).did)]
           w == [by |-> "service", at |-> n, read |-> store[n][k]]
<1>1. n \in Node /\ k \in Key
  BY StoreAssumption
<1>2. /\ op \in todo /\ todo' = todo \ {op} /\ todo' \subseteq todo
      /\ linked' = linked /\ store' = store /\ cache' = cache /\ handled' = handled
      /\ reading' = reading /\ answering' = answering
  BY DEF ServiceOperates, tables
<1>3. todo' \subseteq Op /\ handled' \subseteq Op \ todo' /\ Stored(store') /\ Stored(cache')
      /\ Stored(store)
  BY <1>2 DEF TypeInv
<1>4. CASE Stores(n, k)
  <2>1. doing' = [doing EXCEPT ![op] = w] /\ chan' = chan
    BY <1>4 DEF ServiceOperates, Reads
  <2>2. IsOperating(op, w, todo')
    BY <1>1, <1>2, <1>3 DEF IsOperating, Stored
  <2> HIDE DEF w
  <2>3. AtWork'
    BY <1>1, <1>2, <2>1, <2>2, DoingChanged DEF TypeInv
  <2>4. Carried(0, n, n, {})
    BY <1>1, <2>1, CarriedForms DEF TypeInv
  <2>5. /\ Queues'
        /\ \A a, b \in Node : \A i \in 1..Len(chan'[a][b]) : Message(chan'[a][b][i], todo')
    BY <1>1, <1>2, <2>4, MessagesKept
  <2> QED
    BY <1>2, <1>3, <2>3, <2>5 DEF TypeInv
<1>5. CASE ~Stores(n, k)
  <2>1. chan' = Sent(chan, n, x) /\ UNCHANGED tasks
    BY <1>2, <1>5 DEF ServiceOperates, tasks
  <2>2. IsOperate(x, todo')
    BY <1>2 DEF IsOperate
  <2>3. AtWork'
    BY <1>2, <2>1, WorkSame DEF TypeInv
  <2> HIDE DEF x
  <2>4. Carried(0, n, n, {x})
    BY <1>1, <2>1, CarriedForms DEF TypeInv
  <2>5. /\ Queues'
        /\ \A a, b \in Node : \A i \in 1..Len(chan'[a][b]) : Message(chan'[a][b][i], todo')
    BY <1>1, <1>2, <2>2, <2>4, MessageCarried DEF Message
  <2> QED
    BY <1>2, <1>3, <2>3, <2>5 DEF TypeInv
<1> QED
  BY <1>4, <1>5

LEMMA FetchesType ==
    ASSUME TypeInv, NEW n \in Node, NEW k \in Key, Fetches(n, k)
    PROVE  TypeInv'
<1> DEFINE f == fetches + 1
           x == Search(n, k, f, NewMessage(n, Lookup(n, k).did))
           w == [by |-> "service", at |-> n, key |-> k, read |-> store[n][k]]
<1>1. /\ todo' = todo /\ linked' = linked /\ store' = store /\ cache' = cache
      /\ handled' = handled /\ doing' = doing /\ answering' = answering /\ f \in Fetch
  BY DEF Fetches, tables
<1>2. CASE Stores(n, k)
  <2>1. reading' = [reading EXCEPT ![f] = w] /\ chan' = chan
    BY <1>2 DEF Fetches
  <2>2. IsFetching(w)
    BY DEF IsFetching, TypeInv, Stored
  <2> HIDE DEF w, f
  <2>3. AtWork
    BY DEF TypeInv
  <2>4. /\ reading' = [e \in Fetch |-> reading'[e]]
        /\ \A e \in Fetch : reading'[e] = IF e = f THEN w ELSE reading[e]
    BY <2>1, <2>3 DEF AtWork
  <2>5. AtWork'
    BY <1>1, <2>2, <2>3, <2>4 DEF AtWork
  <2> QED
    BY <1>1, <2>1, <2>5 DEF TypeInv, Queues
<1>3. CASE ~Stores(n, k)
  <2>1. chan' = Sent(chan, n, x) /\ UNCHANGED tasks
    BY <1>1, <1>3 DEF Fetches, tasks
  <2>2. IsSearch(x, todo')
    BY <1>1 DEF IsSearch, Search, Own
  <2>3. AtWork'
    BY <1>1, <2>1, WorkSame DEF TypeInv
  <2> HIDE DEF x
  <2>4. Carried(0, n, n, {x})
    BY <2>1, CarriedForms DEF TypeInv
  <2>5. /\ Queues'
        /\ \A a, b \in Node : \A i \in 1..Len(chan'[a][b]) : Message(chan'[a][b][i], todo')
    BY <1>1, <2>2, <2>4, MessageCarried DEF Message
  <2> QED
    BY <1>1, <2>3, <2>5 DEF TypeInv
<1> QED
  BY <1>2, <1>3

\* What an operation writes may be held by its key.
LEMMA WrittenHolds ==
    ASSUME NEW op \in Op, NEW read, NEW v, Holds(op.did, read), Holds(op.did, v)
    PROVE  Holds(op.did, Written(v, read, op))
<1> DEFINE result == Operate(Existing(read, op), op)
<1>1. result = NoVNode \/ (result \in Data /\ result.did = op.did)
  BY OperateType DEF Holds, Content
<1>2. Written(v, read, op) = IF result = NoVNode THEN v ELSE result
  BY DEF Written
<1> HIDE DEF result
<1> QED
  BY <1>1, <1>2 DEF Holds

LEMMA PutsType ==
    ASSUME TypeInv, NEW op \in Op, Puts(op)
    PROVE  TypeInv'
<1> DEFINE w == doing[op]
           v == Written(store[w.at][op.did], w.read, op)
<1>1. /\ todo' = todo /\ linked' = linked /\ cache' = cache /\ chan' = chan
      /\ handled' = handled \cup {op} /\ w # Idle
      /\ store' = [store EXCEPT ![w.at][op.did] = v]
      /\ doing' = [doing EXCEPT ![op] = Idle]
      /\ reading' = reading /\ answering' = answering
  BY DEF Puts, tables
<1>2. /\ op \notin todo /\ Holds(op.did, w.read) /\ op.did \in Key /\ w.at \in Node
  BY <1>1, StoreAssumption DEF TypeInv, AtWork, IsOperating
<1>3. Holds(op.did, v)
  BY <1>2, WrittenHolds DEF TypeInv, Stored
<1> HIDE DEF v
<1>4. Stored(store')
  BY <1>1, <1>2, <1>3, StoredChanged DEF TypeInv
<1>5. AtWork'
  BY <1>1, DoingChanged DEF TypeInv
<1> QED
  BY <1>1, <1>2, <1>4, <1>5 DEF TypeInv, Queues

LEMMA CachesType ==
    ASSUME TypeInv, NEW f \in Fetch, Caches(f)
    PROVE  TypeInv'
<1> DEFINE w == reading[f]
           v == IF w.read = NoVNode THEN cache[w.at][w.key] ELSE w.read
<1>1. /\ todo' = todo /\ linked' = linked /\ store' = store /\ chan' = chan
      /\ handled' = handled /\ w # Idle
      /\ cache' = [cache EXCEPT ![w.at][w.key] = v]
      /\ reading' = [reading EXCEPT ![f] = Idle]
      /\ doing' = doing /\ answering' = answering
  BY DEF Caches, tables
<1>2. IsFetching(w) /\ AtWork
  BY <1>1 DEF TypeInv, AtWork
<1>3. w.at \in Node /\ w.key \in Key /\ Holds(w.key, v)
  BY <1>2 DEF IsFetching, Holds, TypeInv, Stored
<1> HIDE DEF v
<1>4. Stored(cache')
  BY <1>1, <1>3, StoredChanged DEF TypeInv
<1>5. /\ reading' = [e \in Fetch |-> reading'[e]]
      /\ \A e \in Fetch : reading'[e] = IF e = f THEN Idle ELSE reading[e]
  BY <1>1, <1>2 DEF AtWork
<1>6. AtWork'
  BY <1>1, <1>2, <1>5 DEF AtWork
<1> QED
  BY <1>1, <1>4, <1>6 DEF TypeInv, Queues

LEMMA HandleOperateType ==
    ASSUME TypeInv, NEW m \in Node, NEW n \in Node, NEW g \in 1..Len(chan[m][n]),
           HandleOperateVNode(m, n, g)
    PROVE  TypeInv'
<1> DEFINE x == chan[m][n][g]
           k == x.op.did
           next == Lookup(n, k).did
           y == [x EXCEPT !.relay = RelaySend(ResetDestination(@, next), n, next)]
           w == [by |-> "listener", at |-> n, read |-> store[n][k]]
<1>1. /\ todo' = todo /\ linked' = linked /\ store' = store /\ cache' = cache
      /\ handled' = handled /\ reading' = reading /\ answering' = answering
      /\ x.kind = "OperateVNode"
  BY DEF HandleOperateVNode, tables, Handles
<1>2. IsOperate(x, todo)
  BY <1>1, MessageAt, MessageForms DEF Message
<1>3. x.op \in Op \ todo /\ k \in Key
  BY <1>2, StoreAssumption DEF IsOperate
<1>4. IsOperate(y, todo')
  BY <1>1, <1>2 DEF IsOperate
<1>5. CASE Stores(n, k)
  <2>1. doing' = [doing EXCEPT ![x.op] = w] /\ chan' = Taken(m, n, g)
    BY <1>5 DEF HandleOperateVNode, Reads
  <2>2. IsOperating(x.op, w, todo')
    BY <1>1, <1>3 DEF IsOperating, Stored, TypeInv
  <2> HIDE DEF w
  <2>3. AtWork'
    BY <1>1, <1>3, <2>1, <2>2, DoingChanged DEF TypeInv
  <2>4. Carried(g, m, n, {})
    BY <1>1, <2>1, CarriedForms DEF TypeInv
  <2>5. /\ Queues'
        /\ \A a, b \in Node : \A i \in 1..Len(chan'[a][b]) : Message(chan'[a][b][i], todo')
    BY <1>1, <2>4, MessagesKept
  <2> QED
    BY <1>1, <2>3, <2>5 DEF TypeInv
<1>6. CASE ~Stores(n, k)
  <2>1. UNCHANGED tasks /\ (chan' = Sent(Taken(m, n, g), n, y) \/ chan' = Taken(m, n, g))
    BY <1>1, <1>6 DEF HandleOperateVNode, tasks
  <2> HIDE DEF y
  <2>2. Carried(g, m, n, {y}) \/ Carried(g, m, n, {})
    BY <1>1, <2>1, CarriedForms DEF TypeInv
  <2>3. /\ Queues'
        /\ \A a, b \in Node : \A i \in 1..Len(chan'[a][b]) : Message(chan'[a][b][i], todo')
    BY <1>1, <1>4, <2>2, MessagesKept, MessageCarried DEF Message
  <2>4. AtWork'
    BY <1>1, <2>1, WorkSame DEF TypeInv
  <2> QED
    BY <1>1, <2>1, <2>3, <2>4 DEF TypeInv
<1> QED
  BY <1>5, <1>6

LEMMA HandleSearchType ==
    ASSUME TypeInv, NEW m \in Node, NEW n \in Node, NEW g \in 1..Len(chan[m][n]),
           HandleSearchVNode(m, n, g)
    PROVE  TypeInv'
<1> DEFINE x == chan[m][n][g]
           k == x.key
           found == Found(n, x)
           y == [x EXCEPT !.relay = RelaySend(@, n, Lookup(n, k).did)]
<1>1. /\ todo' = todo /\ linked' = linked /\ store' = store /\ cache' = cache
      /\ handled' = handled /\ doing' = doing /\ reading' = reading /\ x.kind = "SearchVNode"
  BY DEF HandleSearchVNode, tables, Handles
<1>2. IsSearch(x, todo)
  BY <1>1, MessageAt, MessageForms DEF Message
<1>3. IsSearch(y, todo')
  BY <1>1, <1>2 DEF IsSearch
<1>4. k \in Key
  BY <1>2 DEF IsSearch
<1>5. store[n][k] # NoVNode => IsFound(found)
  BY <1>4 DEF IsFound, Found, TypeInv, Stored, Holds
<1>6. /\ chan' = Sent(Taken(m, n, g), n, y) \/ chan' = Taken(m, n, g)
      /\ \/ answering' = answering
         \/ store[n][k] # NoVNode /\ answering' = answering \cup {[at |-> n, answer |-> found]}
  BY DEF HandleSearchVNode
<1> HIDE DEF found, y
<1>7. Carried(g, m, n, {y}) \/ Carried(g, m, n, {})
  BY <1>1, <1>6, CarriedForms DEF TypeInv
<1>8. /\ Queues'
      /\ \A a, b \in Node : \A i \in 1..Len(chan'[a][b]) : Message(chan'[a][b][i], todo')
  BY <1>1, <1>3, <1>7, MessagesKept, MessageCarried DEF Message
<1>9. \A a \in answering' : IsAnswering(a)
  BY <1>5, <1>6 DEF TypeInv, AtWork, IsAnswering
<1>10. AtWork'
  BY <1>1, <1>9 DEF TypeInv, AtWork
<1> QED
  BY <1>1, <1>8, <1>10 DEF TypeInv

LEMMA AnswersType ==
    ASSUME TypeInv, NEW a \in answering, Answers(a)
    PROVE  TypeInv'
<1>1. /\ todo' = todo /\ linked' = linked /\ store' = store /\ cache' = cache
      /\ handled' = handled /\ doing' = doing /\ reading' = reading
      /\ answering' = answering \ {a} /\ chan' = Sent(chan, a.at, a.answer)
  BY DEF Answers, tables
<1>2. IsAnswering(a)
  BY DEF TypeInv, AtWork
<1>3. a.at \in Node /\ Message(a.answer, todo')
  BY <1>2 DEF IsAnswering, Message
<1>4. Carried(0, a.at, a.at, {a.answer})
  BY <1>1, <1>3, CarriedForms DEF TypeInv
<1>5. /\ Queues'
      /\ \A b, c \in Node : \A i \in 1..Len(chan'[b][c]) : Message(chan'[b][c][i], todo')
  BY <1>1, <1>3, <1>4, MessageCarried
<1>6. AtWork'
  BY <1>1 DEF TypeInv, AtWork
<1> QED
  BY <1>1, <1>5, <1>6 DEF TypeInv

LEMMA HandleFoundType ==
    ASSUME TypeInv, NEW m \in Node, NEW n \in Node, NEW g \in 1..Len(chan[m][n]),
           HandleFoundVNode(m, n, g)
    PROVE  TypeInv'
<1> DEFINE x == chan[m][n][g]
           back == RelayReport(x.relay, n)
           y == [x EXCEPT !.relay = back]
<1>1. /\ todo' = todo /\ linked' = linked /\ store' = store /\ UNCHANGED tasks
      /\ handled' = handled /\ x.kind = "FoundVNode"
      /\ chan' = Sent(Taken(m, n, g), n, y) \/ chan' = Taken(m, n, g)
      /\ cache' = cache \/ cache' = [cache EXCEPT ![n][x.vnode.did] = x.vnode]
  BY DEF HandleFoundVNode, tables, Handles
<1>2. IsFound(x)
  BY <1>1, MessageAt, MessageForms DEF Message
<1>3. IsFound(y)
  BY <1>2 DEF IsFound
<1>4. x.vnode.did \in Key /\ Holds(x.vnode.did, x.vnode)
  BY <1>2 DEF IsFound, Data, Holds
<1>5. Stored(cache')
  BY <1>1, <1>4, StoredChanged DEF TypeInv
<1> HIDE DEF y
<1>6. Carried(g, m, n, {y}) \/ Carried(g, m, n, {})
  BY <1>1, CarriedForms DEF TypeInv
<1>7. /\ Queues'
      /\ \A a, b \in Node : \A i \in 1..Len(chan'[a][b]) : Message(chan'[a][b][i], todo')
  BY <1>1, <1>3, <1>6, MessagesKept, MessageCarried DEF Message
<1>8. AtWork'
  BY <1>1, WorkSame DEF TypeInv
<1> QED
  BY <1>1, <1>5, <1>7, <1>8 DEF TypeInv

LEMMA InitType == Init => TypeInv
<1> SUFFICES ASSUME Init PROVE TypeInv
  OBVIOUS
<1>1. linked \in [Node -> SUBSET Node]
  BY StoreAssumption DEF Init, Known
<1>2. Stored(store) /\ Stored(cache)
  BY DEF Init, Stored, Pairs, Holds
<1>3. AtWork
  BY DEF Init, AtWork
<1>4. Pairs(chan, Node, Node) /\ \A a, b \in Node : chan[a][b] = <<>>
  BY DEF Init, Pairs
<1>5. Len(<<>>) = 0 /\ IsQueue(<<>>)
  BY DEF IsQueue
<1> QED
  BY <1>1, <1>2, <1>3, <1>4, <1>5 DEF Init, TypeInv, Queues

\* The steps of the specification, by what they do.
LEMMA Steps ==
    ASSUME TypeInv, [Next]_vars
    PROVE  \/ \E op \in Op : ServiceOperates(op) \/ Puts(op)
           \/ \E n \in Node, k \in Key : Fetches(n, k)
           \/ \E f \in Fetch : Caches(f)
           \/ \E a \in answering : Answers(a)
           \/ \E m, n \in Node : \E g \in 1..Len(chan[m][n]) :
                 \/ HandleOperateVNode(m, n, g) \/ HandleSearchVNode(m, n, g)
                 \/ HandleFoundVNode(m, n, g)
           \/ UNCHANGED <<tables, store, cache, tasks, chan, todo, handled>>
<1>1. CASE \E op \in Op : \/ PublishMessageToTopic(op) \/ RegisterService(op)
                          \/ StorageStore(op) \/ SubringJoinCall(op)
  BY <1>1 DEF PublishMessageToTopic, RegisterService, StorageStore, SubringJoinCall
<1>2. CASE \E n \in Node, k \in Key : LookupService(n, k)
  BY <1>2 DEF LookupService
<1>3. CASE \E n \in Subscriber : FetchMessagesOfTopic(n)
  BY <1>3, StoreAssumption DEF FetchMessagesOfTopic
<1>4. CASE \E n \in Subscriber : SubscribeTopic(n)
  BY <1>4 DEF SubscribeTopic
<1>5. CASE \E m, n \in Node : Listener(m, n)
  BY <1>5 DEF Listener
<1>6. CASE UNCHANGED vars
  BY <1>6 DEF vars
<1> QED
  BY <1>1, <1>2, <1>3, <1>4, <1>5, <1>6 DEF Next, Starts, Continues

LEMMA TypeStep == TypeInv /\ [Next]_vars => TypeInv'
<1> SUFFICES ASSUME TypeInv, [Next]_vars PROVE TypeInv'
  OBVIOUS
<1>1. CASE UNCHANGED <<tables, store, cache, tasks, chan, todo, handled>>
  BY <1>1, WorkSame DEF TypeInv, Queues, tables
<1> QED
  BY <1>1, Steps, OperatesType, FetchesType, PutsType, CachesType, AnswersType,
     HandleOperateType, HandleSearchType, HandleFoundType

\* What is stored, at work and in transit is of its form, and everything in it
\* was asked for: an inductive invariant.
THEOREM StoreInvariant == Spec => []TypeInv
  BY InitType, TypeStep, PTL DEF Spec

\* Virtual nodes are stored and cached under their own did and hold no more than
\* the limit, whatever operations reach a key in whatever order (extend, touch,
\* overwrite).
THEOREM TypeOKAlways == Spec => []TypeOK
<1>1. TypeInv => TypeOK
  <2> SUFFICES ASSUME TypeInv PROVE TypeOK
    OBVIOUS
  <2>1. ASSUME NEW k \in Key, NEW v \in VNodes(k)
        PROVE  v.did = k /\ v.kind \in {"Data", "Subring"} /\ Len(v.data) <= MaxLen
    BY <2>1 DEF VNodes, TypeInv, Stored, Holds, Data
  <2>2. ASSUME NEW op \in Op
        PROVE  doing[op].by \in {"nobody", "service", "listener"}
    <3>1. doing[op] = Idle \/ IsOperating(op, doing[op], todo)
      BY DEF TypeInv, AtWork
    <3> QED
      BY <3>1 DEF Idle, IsOperating
  <2> QED
    BY <2>1, <2>2 DEF TypeOK
<1> QED
  BY <1>1, StoreInvariant, PTL

=============================================================================
