--------------------------- MODULE MeasureProofs ---------------------------
(* The tasks of PeriodicMeasure use the IndexedDB storage as RowStore says,  *)
(* so its bound holds for them: for every set of keys and tasks, capacity    *)
(* and period, over failed saves and restarts.                               *)
EXTENDS Measure, FiniteSetTheorems, TLAPS

-----------------------------------------------------------------------------
(* The table of rows by itself: it stays within its capacity and the puts     *)
(* under way, for every capacity, set of keys and set of tasks.               *)

IInv == RowTypeOK /\ RowsAndPuts

\* The cardinalities the invariant speaks of are numbers.
LEMMA Counts ==
    ASSUME RowTypeOK
    PROVE  /\ IsFiniteSet(rows) /\ Cardinality(rows) \in Nat
           /\ IsFiniteSet(Putting) /\ Cardinality(Putting) \in Nat
           /\ Putting \subseteq Writer
           /\ Cardinality(Putting) <= Cardinality(Writer)
           /\ Cardinality(Writer) \in Nat
<1>1. IsFiniteSet(rows)
  BY RowAssumption, FS_Subset DEF RowTypeOK
<1>2. Putting \subseteq Writer
  BY DEF Putting
<1>3. IsFiniteSet(Putting) /\ Cardinality(Putting) <= Cardinality(Writer)
  BY <1>2, RowAssumption, FS_Subset
<1>4. QED
  BY <1>1, <1>2, <1>3, RowAssumption, FS_CardinalityType

\* A task that starts a put is one more of those under way.
LEMMA StartsPut ==
    ASSUME RowTypeOK, NEW w \in Writer, NEW k \in Key, putting[w] = NoKey,
           putting' = [putting EXCEPT ![w] = k]
    PROVE  /\ Cardinality(Putting') = Cardinality(Putting) + 1
           /\ Cardinality(Putting') <= Cardinality(Writer)
<1>1. Putting' = Putting \cup {w} /\ w \notin Putting
  BY RowAssumption DEF Putting, RowTypeOK
<1>2. Cardinality(Putting') = Cardinality(Putting) + 1
  BY <1>1, Counts, FS_AddElement
<1>3. Putting' \subseteq Writer
  BY DEF Putting
<1>4. QED
  BY <1>2, <1>3, RowAssumption, FS_Subset

\* A task that ends a put is one less.
LEMMA EndsPut ==
    ASSUME RowTypeOK, NEW w \in Writer, putting[w] \in Key,
           putting' = [putting EXCEPT ![w] = NoKey]
    PROVE  Cardinality(Putting') = Cardinality(Putting) - 1
<1>1. Putting' = Putting \ {w} /\ w \in Putting
  BY RowAssumption DEF Putting, RowTypeOK
<1>2. QED
  BY <1>1, Counts, FS_RemoveElement

\* Taking rows away changes neither their type nor, for the worse, their number.
LEMMA FewerRows ==
    ASSUME RowTypeOK, rows' \subseteq rows
    PROVE  Cardinality(rows') <= Cardinality(rows) /\ Cardinality(rows') \in Nat
  BY Counts, FS_Subset, FS_CardinalityType

\* A table without rows and without puts under way is within its bound.
LEMMA RowInitInv == RowInit => IInv
<1> SUFFICES ASSUME RowInit PROVE IInv
  OBVIOUS
<1>1. RowTypeOK
  BY DEF RowInit, RowTypeOK
<1>2. Cardinality(rows) = 0 /\ Cardinality(Putting) = 0
  BY FS_EmptySet DEF RowInit, Putting
<1>3. QED
  BY <1>1, <1>2, Counts, RowAssumption DEF IInv, RowsAndPuts

\* Every step of the table keeps its type.
LEMMA RowTypeStep == RowTypeOK /\ [RowNext]_rowVars => RowTypeOK'
<1> SUFFICES ASSUME RowTypeOK, [RowNext]_rowVars PROVE RowTypeOK'
  OBVIOUS
<1> USE DEF RowTypeOK
<1>1. ASSUME NEW w \in Writer, Put(w) PROVE RowTypeOK'
  BY <1>1 DEF Put
<1>2. ASSUME NEW w \in Writer, NEW k \in Key, Prune(w, k) PROVE RowTypeOK'
  BY <1>2 DEF Prune, Oldest
<1>3. ASSUME NEW k \in Key, Get(k) \/ Remove(k) PROVE RowTypeOK'
  BY <1>3 DEF Get, Remove
<1>4. CASE Clear \/ RowTick
  BY <1>4 DEF Clear, RowTick
<1>5. CASE UNCHANGED rowVars
  BY <1>5 DEF rowVars
<1>6. QED
  BY <1>1, <1>2, <1>3, <1>4, <1>5 DEF RowNext

\* Every step of the table keeps the bound: a put adds at most the one row it answers for.
LEMMA RowStep == IInv /\ [RowNext]_rowVars => IInv'
<1> SUFFICES ASSUME IInv, [RowNext]_rowVars PROVE RowsAndPuts'
  BY RowTypeStep DEF IInv
<1>0. RowTypeOK /\ RowsAndPuts /\ Cap \in Nat \ {0}
  BY RowAssumption DEF IInv
<1>1. ASSUME NEW w \in Writer, Put(w) PROVE RowsAndPuts'
  <2>1. Cardinality(Putting') = Cardinality(Putting) - 1
    BY <1>0, <1>1, EndsPut DEF Put
  <2>2. Cardinality(rows') <= Cardinality(rows) + 1 /\ Cardinality(rows') \in Nat
    <3>1. rows' = rows \cup {putting[w]}
      BY <1>1 DEF Put
    <3>2. IsFiniteSet(rows) /\ Cardinality(rows) \in Nat
      BY <1>0, Counts
    <3>3. CASE putting[w] \in rows
      <4>1. rows' = rows
        BY <3>1, <3>3
      <4>2. QED
        BY <3>2, <4>1
    <3>4. CASE putting[w] \notin rows
      <4>1. Cardinality(rows \cup {putting[w]}) = Cardinality(rows) + 1
        BY <3>2, <3>4, FS_AddElement
      <4>2. QED
        BY <3>1, <3>2, <4>1
    <3>5. QED
      BY <3>3, <3>4
  <2>3. QED
    BY <1>0, <2>1, <2>2, Counts DEF RowsAndPuts
<1>2. ASSUME NEW w \in Writer, NEW k \in Key, Prune(w, k) PROVE RowsAndPuts'
  <2>1. /\ Cardinality(Putting') = Cardinality(Putting) + 1
        /\ Cardinality(Putting') <= Cardinality(Writer)
    BY <1>0, <1>2, StartsPut DEF Prune
  <2>2. CASE Cardinality(rows) < Cap /\ rows' = rows
    BY <1>0, <2>1, <2>2, Counts DEF RowsAndPuts
  <2>3. CASE \E old \in Oldest : rows' = rows \ {old}
    <3>1. PICK old \in rows : rows' = rows \ {old}
      BY <2>3 DEF Oldest
    <3>2. Cardinality(rows') = Cardinality(rows) - 1
      BY <1>0, <3>1, Counts, FS_RemoveElement
    <3>3. QED
      BY <1>0, <2>1, <3>2, Counts DEF RowsAndPuts
  <2>4. QED
    BY <1>2, <2>2, <2>3 DEF Prune
<1>3. ASSUME rows' \subseteq rows, putting' = putting PROVE RowsAndPuts'
  <2>1. Putting' = Putting
    BY <1>3 DEF Putting
  <2>2. QED
    BY <1>0, <1>3, <2>1, FewerRows, Counts DEF RowsAndPuts
<1>4. ASSUME NEW k \in Key, Get(k) \/ Remove(k) PROVE RowsAndPuts'
  BY <1>3, <1>4 DEF Get, Remove
<1>5. CASE Clear \/ RowTick
  BY <1>3, <1>5 DEF Clear, RowTick
<1>6. CASE UNCHANGED rowVars
  BY <1>3, <1>6 DEF rowVars
<1>7. QED
  BY <1>1, <1>2, <1>4, <1>5, <1>6 DEF RowNext

\* The rows and the puts under way stay within the bound, whatever the tasks
\* do in whatever order.
THEOREM RowsInvariant == RowSpec => []IInv
<1>1. QED
  BY RowInitInv, RowStep, PTL DEF RowSpec

\* The table never holds more rows than its capacity and one for every task
\* but the first.
THEOREM RowsBounded == RowSpec => []RowBound
<1>1. IInv => RowBound
  BY Counts, RowAssumption DEF IInv, RowsAndPuts, RowBound
<1>2. QED
  BY RowsInvariant, <1>1, PTL

-----------------------------------------------------------------------------
(* The tasks that use it *)

MInv == TypeOK /\ RowTypeOK /\ (engine = "idb" => RowsAndPuts)

\* What a refresh and a first use make is a counter.
LEMMA CounterTypes ==
    ASSUME NEW c \in Counter, NEW value \in Nat, now \in Nat
    PROVE  /\ Refresh(c) \in Counter /\ BarelyGet(c) \in Nat
           /\ NewCounter(value) \in Counter
  BY DEF Refresh, Refreshed, BarelyGet, NewCounter, Counter

\* The initial state satisfies the invariant about the rows.
LEMMA MeasureInit == Init => MInv
<1> SUFFICES ASSUME Init PROVE MInv
  OBVIOUS
<1>1. RowTypeOK
  BY DEF Init, RowTypeOK
<1>2. TypeOK
  BY DEF Init, TypeOK, NoCounter, Counter, Idle
<1>3. Cardinality(rows) = 0 /\ Cardinality(Putting) = 0
  BY FS_EmptySet DEF Init, Putting
<1>4. RowsAndPuts
  <2>1. Cardinality(Writer) \in Nat /\ Cap - 1 >= 0 /\ Cap \in Nat
    BY RowAssumption, FS_CardinalityType
  <2>2. QED
    BY <1>3, <2>1 DEF RowsAndPuts
<1>5. QED
  BY <1>1, <1>2, <1>4 DEF MInv

\* What every step leaves of the types of the tasks and counters.
LEMMA MeasureTypeStep == MInv /\ [Next]_measureVars => TypeOK'
<1> SUFFICES ASSUME MInv, [Next]_measureVars PROVE TypeOK'
  OBVIOUS
<1>0. TypeOK /\ RowTypeOK
  BY DEF MInv
<1> USE <1>0, RowAssumption DEF TypeOK
<1>1. ASSUME NEW w \in Writer, NEW k \in Key, NEW op \in {"incr", "get"}, Loads(w, k, op)
      PROVE  TypeOK'
  BY <1>1 DEF Loads, Idle
<1>2. ASSUME NEW w \in Writer, Counted(w) PROVE TypeOK'
  <2> DEFINE k == task[w].key
             old == EntryOrInsert(k, task[w].value)
             new == [Refresh(old) EXCEPT !.count = @ + IF task[w].op = "incr" THEN 1 ELSE 0]
  <2>1. k \in Key /\ task[w].value \in Nat /\ now \in Nat /\ counters[k] \in Counter
    BY <1>2 DEF Counted, RowTypeOK
  <2>2. old \in Counter
    BY <2>1, CounterTypes DEF EntryOrInsert
  <2>3. Refresh(old) \in Counter
    BY <2>1, <2>2, CounterTypes
  <2>4. new \in Counter
    BY <2>3 DEF Counter
  <2>5. BarelyGet(new) \in Nat
    BY <2>1, <2>4, CounterTypes
  <2>6. counters' \in [Key -> Counter]
    BY <1>2, <2>1, <2>4 DEF Counted
  <2>7. task' = [task EXCEPT ![w] = [@ EXCEPT !.at = IF Due(old) THEN "save" ELSE "done",
                                              !.value = BarelyGet(new)]]
    BY <1>2 DEF Counted
  <2>8. UNCHANGED <<engine, stored, flushed>>
    BY <1>2 DEF Counted
  <2> DEFINE then == [task[w] EXCEPT !.at = IF Due(old) THEN "save" ELSE "done",
                                     !.value = BarelyGet(new)]
  <2> HIDE DEF k, old, new
  <2>9. /\ then \in [at : {"idle", "loaded", "save", "done"}, op : {"incr", "get"},
                     key : Key \cup {NoKey}, value : Nat]
        /\ then.key = task[w].key
    BY <2>5
  <2>10. task' = [task EXCEPT ![w] = then]
    BY <2>7
  <2>11. \A v \in Writer : task'[v].at # "idle" => task'[v].key \in Key
    BY <1>2, <2>9, <2>10 DEF Counted
  <2> HIDE DEF then
  <2>12. QED
    BY <2>6, <2>8, <2>9, <2>10, <2>11
<1>3. ASSUME NEW w \in Writer, Saves(w) PROVE TypeOK'
  BY <1>3 DEF Saves
<1>4. ASSUME NEW w \in Writer, SaveFails(w) \/ Returns(w) PROVE TypeOK'
  BY <1>4 DEF SaveFails, Returns, Idle
<1>5. CASE Flush
  BY <1>5 DEF Flush, RowTypeOK
<1>6. CASE Tick
  BY <1>6 DEF Tick
<1>7. CASE Restart
  BY <1>7 DEF Restart, NoCounter, Counter, Idle
<1>8. CASE UNCHANGED measureVars
  BY <1>8 DEF measureVars
<1>9. QED
  BY <1>1, <1>2, <1>3, <1>4, <1>5, <1>6, <1>7, <1>8 DEF Next

\* A task that gives its put up only leaves room.
LEMMA GivesUp ==
    ASSUME RowTypeOK, RowsAndPuts, rows' = rows, visited' = visited, now' = now,
           putting' \in [Writer -> Key \cup {NoKey}],
           \A w \in Writer : putting'[w] \in {putting[w], NoKey}
    PROVE  RowTypeOK' /\ RowsAndPuts'
<1>1. RowTypeOK'
  BY DEF RowTypeOK
<1>2. Putting' \subseteq Putting
  BY DEF Putting, RowTypeOK
<1>3. /\ IsFiniteSet(Putting) /\ Cardinality(Putting) \in Nat
      /\ Cardinality(rows) \in Nat /\ Cardinality(Writer) \in Nat
  BY Counts
<1>4. Cardinality(Putting') <= Cardinality(Putting) /\ Cardinality(Putting') \in Nat
  BY <1>2, <1>3, FS_Subset, FS_CardinalityType
<1>5. QED
  BY <1>1, <1>3, <1>4, RowAssumption DEF RowsAndPuts

\* With IndexedDB a step is one of the storage's, a stutter or a put given up.
LEMMA MeasureRows == MInv /\ [Next]_measureVars => RowTypeOK' /\ (engine' = "idb" => RowsAndPuts')
<1> SUFFICES ASSUME MInv, [Next]_measureVars
             PROVE  RowTypeOK' /\ (engine' = "idb" => RowsAndPuts')
  OBVIOUS
<1>0. TypeOK /\ RowTypeOK /\ (engine = "idb" => RowsAndPuts)
  BY DEF MInv
<1>1. ASSUME [RowNext]_rowVars, engine' = engine
      PROVE  RowTypeOK' /\ (engine' = "idb" => RowsAndPuts')
  BY <1>0, <1>1, RowTypeStep, RowStep DEF IInv
<1>2. ASSUME NEW w \in Writer, NEW k \in Key, NEW op \in {"incr", "get"}, Loads(w, k, op)
      PROVE  [RowNext]_rowVars /\ engine' = engine
  BY <1>2 DEF Loads, RowNext
<1>3. ASSUME NEW w \in Writer, Counted(w) \/ Returns(w)
      PROVE  [RowNext]_rowVars /\ engine' = engine
  BY <1>3 DEF Counted, Returns
<1>4. ASSUME NEW w \in Writer, Saves(w) PROVE RowTypeOK' /\ (engine' = "idb" => RowsAndPuts')
  <2>1. task[w].key \in Key
    BY <1>0, <1>4 DEF Saves, TypeOK
  <2>2. CASE engine = "kv"
    BY <1>0, <1>4, <2>1, <2>2, RowAssumption DEF Saves, RowTypeOK, Prune, Put
  <2>3. CASE engine = "idb"
    <3>1. Prune(w, task[w].key) \/ Put(w)
      BY <1>4, <2>3 DEF Saves
    <3>2. RowNext
      BY <2>1, <3>1 DEF RowNext
    <3>3. QED
      BY <1>1, <1>4, <3>2 DEF Saves
  <2>4. QED
    BY <1>0, <2>2, <2>3 DEF TypeOK
<1>5. ASSUME NEW w \in Writer, SaveFails(w) PROVE RowTypeOK' /\ (engine' = "idb" => RowsAndPuts')
  <2>1. /\ putting' \in [Writer -> Key \cup {NoKey}]
        /\ \A v \in Writer : putting'[v] \in {putting[v], NoKey}
    BY <1>0, <1>5 DEF SaveFails, RowTypeOK
  <2>2. UNCHANGED <<rows, visited, now, engine>>
    BY <1>5 DEF SaveFails
  <2>3. RowTypeOK'
    BY <1>0, <2>1, <2>2 DEF RowTypeOK
  <2>4. QED
    BY <1>0, <2>1, <2>2, <2>3, GivesUp
<1>6. CASE Flush \/ Tick
  BY <1>1, <1>6 DEF Flush, Tick, RowNext
<1>7. CASE Restart
  <2>1. /\ putting' \in [Writer -> Key \cup {NoKey}]
        /\ \A v \in Writer : putting'[v] \in {putting[v], NoKey}
        /\ visited' = visited /\ now' = now /\ engine' = engine
    BY <1>0, <1>7 DEF Restart, RowTypeOK
  <2>2. CASE engine = "kv"
    BY <1>0, <1>7, <2>1, <2>2 DEF Restart, RowTypeOK, TypeOK
  <2>3. CASE engine = "idb"
    BY <1>0, <1>7, <2>1, <2>3, GivesUp DEF Restart
  <2>4. QED
    BY <1>0, <2>2, <2>3 DEF TypeOK
<1>8. CASE UNCHANGED measureVars
  BY <1>1, <1>8 DEF measureVars
<1>9. QED
  BY <1>1, <1>2, <1>3, <1>4, <1>5, <1>6, <1>7, <1>8 DEF Next

\* The tasks and counters keep their types, and IndexedDB its rows and puts.
THEOREM MeasureInvariant == Spec => []MInv
<1>1. MInv /\ [Next]_measureVars => MInv'
  BY MeasureTypeStep, MeasureRows DEF MInv
<1>2. QED
  BY MeasureInit, <1>1, PTL DEF Spec

\* However the tasks' lookups, counts, saves and restarts interleave, the
\* IndexedDB table holds at most its capacity and a row per further task.
THEOREM RowsAreKept == Spec => []RowsKept
<1>1. MInv => RowsKept
  <2> SUFFICES ASSUME MInv, engine = "idb" PROVE RowBound
    BY DEF RowsKept
  <2>1. IInv
    BY DEF MInv, IInv
  <2>2. QED
    BY <2>1, Counts, RowAssumption DEF IInv, RowsAndPuts, RowBound
<1>2. QED
  BY MeasureInvariant, <1>1, PTL
-----------------------------------------------------------------------------
(* What the counters count                                                   *)

Limit == MaxCalls + Cardinality(Writer)

\* Some period saw v calls or more.
Seen(h, v) == \E t \in Times : v <= HitsAt(h, Stretch(t))

\* The calls of incr that have looked the counter up and not counted yet.
Counting == {w \in Writer : task[w].at = "loaded" /\ task[w].op = "incr"}

Hits == [Key -> [Times -> 0 .. Limit]]

\* m are the calls of this process for a key, h those of all.
Recorded(m, h) ==
    /\ m \in [Times -> Nat] /\ h \in [Times -> Nat]
    /\ \A t \in Times : m[t] <= h[t] /\ (t > now => h[t] = 0)

\* A counter in use: its count is that of a period not ended by any call, and
\* what it remembers of the one before is not too much.
Sound(c, m, h) ==
    /\ c \in Counter
    /\ c.previous \in 1 .. now
    /\ c.count = HitsAt(m, c.previous .. now)
    /\ \A t \in Times : t >= c.previous + Period => m[t] = 0
    /\ Seen(h, c.previousCount)

HitsInv ==
    /\ now \in Times
    /\ hits \in Hits /\ mine \in Hits
    /\ \A k \in Key : Recorded(mine[k], hits[k])

CallsInv == Calls + Cardinality(Counting) <= Limit

CounterInv == \A k \in Key :
    IF counters[k] = NoCounter THEN \A t \in Times : mine[k][t] = 0
                               ELSE Sound(counters[k], mine[k], hits[k])

SeenInv ==
    /\ \A k \in Key : Seen(hits[k], stored[k]) /\ Seen(hits[k], flushed.data[k])
    /\ \A w \in Writer : task[w].at # "idle" => Seen(hits[task[w].key], task[w].value)

CountInv == TypeOK /\ RowTypeOK /\ HitsInv /\ CallsInv /\ CounterInv /\ SeenInv

\* The bounds of the model are numbers.
LEMMA Limits ==
    /\ Limit \in Nat /\ Limit > 0 /\ Numbers = 1 .. Limit
    /\ MaxNow \in Nat /\ MaxNow > 0 /\ Period \in Nat /\ Period > 0 /\ MaxCalls \in Nat
<1>1. Cardinality(Writer) \in Nat
  BY RowAssumption, FS_CardinalityType
<1>2. QED
  BY <1>1, MeasureAssumption DEF Limit, Numbers

\* A row of counted calls, one pair for each.
LEMMA HitsFinite ==
    ASSUME NEW h, NEW A, A \subseteq Times
    PROVE  /\ IsFiniteSet({c \in A \X Numbers : c[2] <= h[c[1]]})
           /\ HitsAt(h, A) \in Nat
<1>1. IsFiniteSet(Times) /\ IsFiniteSet(Numbers)
  BY Limits, FS_Interval DEF Times
<1>2. IsFiniteSet(A)
  BY <1>1, FS_Subset
<1>3. IsFiniteSet(A \X Numbers)
  BY <1>1, <1>2, FS_Product
<1>4. IsFiniteSet({c \in A \X Numbers : c[2] <= h[c[1]]})
  BY <1>3, FS_Subset
<1>5. QED
  BY <1>4, FS_CardinalityType DEF HitsAt

\* More calls at more times are more calls; times without calls count nothing.
LEMMA HitsGrow ==
    ASSUME NEW h \in [Times -> Nat], NEW g \in [Times -> Nat],
           NEW A, NEW B, A \subseteq Times, B \subseteq Times,
           \A t \in A : h[t] = 0 \/ (t \in B /\ h[t] <= g[t])
    PROVE  HitsAt(h, A) <= HitsAt(g, B)
<1> DEFINE S == {c \in A \X Numbers : c[2] <= h[c[1]]}
           T == {c \in B \X Numbers : c[2] <= g[c[1]]}
<1>1. ASSUME NEW c \in S PROVE c \in T
  <2>1. PICK t \in A, i \in Numbers : c = <<t, i>>
    OBVIOUS
  <2>2. i <= h[t] /\ i \in Nat /\ i > 0 /\ h[t] \in Nat /\ g[t] \in Nat
    BY <2>1, Limits
  <2>3. t \in B /\ h[t] <= g[t]
    BY <2>1, <2>2
  <2>4. i <= g[t]
    BY <2>2, <2>3
  <2>5. QED
    BY <2>1, <2>3, <2>4
<1>2. IsFiniteSet(T)
  BY HitsFinite
<1>3. QED
  BY <1>1, <1>2, FS_Subset DEF HitsAt

\* Times without calls have none.
LEMMA HitsNone ==
    ASSUME NEW h \in [Times -> Nat], NEW A, A \subseteq Times, \A t \in A : h[t] = 0
    PROVE  HitsAt(h, A) = 0
<1>1. {c \in A \X Numbers : c[2] <= h[c[1]]} = {}
  BY Limits
<1>2. QED
  BY <1>1, FS_EmptySet DEF HitsAt

\* One call more is one more in every stretch it falls in.
LEMMA HitsOne ==
    ASSUME NEW h \in [Times -> Nat], NEW A, A \subseteq Times, NEW t \in A,
           h[t] + 1 \in Numbers
    PROVE  HitsAt([h EXCEPT ![t] = @ + 1], A) = HitsAt(h, A) + 1
<1> DEFINE g == [h EXCEPT ![t] = @ + 1]
           S == {c \in A \X Numbers : c[2] <= h[c[1]]}
           T == {c \in A \X Numbers : c[2] <= g[c[1]]}
           last == <<t, h[t] + 1>>
<1>0. /\ g \in [Times -> Nat] /\ g[t] = h[t] + 1
      /\ \A u \in Times \ {t} : g[u] = h[u]
  OBVIOUS
<1> HIDE DEF g
<1>1. ASSUME NEW u \in A, NEW i \in Numbers
      PROVE  i <= g[u] <=> i <= h[u] \/ (u = t /\ i = h[t] + 1)
  <2>1. i \in Nat /\ h[u] \in Nat /\ h[t] \in Nat
    BY Limits
  <2>2. CASE u = t
    BY <1>0, <2>1, <2>2
  <2>3. CASE u # t
    BY <1>0, <2>1, <2>3
  <2>4. QED
    BY <2>2, <2>3
<1>2. T \subseteq S \cup {last}
  BY <1>1
<1>3. S \subseteq T
  BY <1>1
<1>4. last \in T
  BY <1>1
<1>5. last \notin S
  <2>1. h[t] \in Nat /\ ~(h[t] + 1 <= h[t])
    OBVIOUS
  <2>2. QED
    BY <2>1
<1>6. T = S \cup {last}
  BY <1>2, <1>3, <1>4
<1>7. IsFiniteSet(S)
  BY HitsFinite
<1>8. Cardinality(T) = Cardinality(S) + 1
  <2> HIDE DEF S, T, last
  <2>1. QED
    BY <1>5, <1>6, <1>7, FS_AddElement
<1>9. QED
  BY <1>8 DEF HitsAt, g
\* The triples Calls counts, one for each call.
Counted3 == {c \in Key \X Times \X Numbers : c[3] <= hits[c[1]][c[2]]}

\* Calls is the number of the triples it counts, which are finitely many.
LEMMA CallsFinite == IsFiniteSet(Counted3) /\ Calls = Cardinality(Counted3) /\ Calls \in Nat
<1> DEFINE S == (Key \X Times) \X Numbers
           T == Key \X Times \X Numbers
           f == [x \in S |-> <<x[1][1], x[1][2], x[2]>>]
<1>1. IsFiniteSet(Times) /\ IsFiniteSet(Numbers) /\ IsFiniteSet(Key)
  BY Limits, RowAssumption, FS_Interval DEF Times
<1>2. IsFiniteSet(Key \X Times)
  BY <1>1, FS_Product
<1>3. IsFiniteSet(S)
  BY <1>1, <1>2, FS_Product
<1>4. f \in [S -> T]
  OBVIOUS
<1>5. ASSUME NEW k \in Key, NEW t \in Times, NEW i \in Numbers
      PROVE  \E x \in S : f[x] = <<k, t, i>>
  <2>1. <<<<k, t>>, i>> \in S
    OBVIOUS
  <2>2. QED
    BY <2>1
<1>6. f \in Surjection(S, T)
  <2>1. ASSUME NEW c \in T PROVE \E x \in S : f[x] = c
    <3>1. PICK k \in Key, t \in Times, i \in Numbers : c = <<k, t, i>>
      OBVIOUS
    <3>2. PICK x \in S : f[x] = <<k, t, i>>
      BY <1>5
    <3>3. QED
      BY <3>1, <3>2
  <2> HIDE DEF S, T, f
  <2>2. QED
    BY <1>4, <2>1 DEF Surjection
<1>7. IsFiniteSet(T)
  <2> HIDE DEF S, T, f
  <2>1. QED
    BY <1>3, <1>6, FS_Surjection
<1>8. IsFiniteSet(Counted3)
  BY <1>7, FS_Subset DEF Counted3
<1>9. QED
  BY <1>8, FS_CardinalityType DEF Calls, Counted3

\* Every one of the calls at some time is one of all.
LEMMA CallsMost ==
    ASSUME hits \in Hits, NEW k \in Key, NEW t \in Times
    PROVE  hits[k][t] <= Calls
<1> DEFINE n == hits[k][t]
           f == [i \in 1 .. n |-> <<k, t, i>>]
<1>1. n \in 0 .. Limit /\ n \in Nat
  BY Limits DEF Hits
<1>2. ASSUME NEW i \in 1 .. n PROVE <<k, t, i>> \in Counted3
  BY <1>1, Limits DEF Counted3
<1>3. f \in Injection(1 .. n, Counted3)
  <2> HIDE DEF n
  <2>1. f \in [1 .. n -> Counted3]
    BY <1>2
  <2>2. \A i, j \in 1 .. n : f[i] = f[j] => i = j
    OBVIOUS
  <2> HIDE DEF f
  <2>3. QED
    BY <2>1, <2>2 DEF Injection, IsInjective
<1>4. Cardinality(1 .. n) <= Calls
  <2> HIDE DEF n, f
  <2>1. QED
    BY <1>3, CallsFinite, FS_Injection
<1>5. Cardinality(1 .. n) = n
  <2>1. 0 \in Int /\ 1 \in Int /\ n \in Int
    BY <1>1
  <2>2. Cardinality(1 .. n) = IF 1 > n THEN 0 ELSE n - 1 + 1
    BY <2>1, FS_Interval
  <2> HIDE DEF n
  <2>3. QED
    BY <1>1, <2>2
<1>6. QED
  BY <1>4, <1>5

\* A call counted is one call more.
LEMMA CallsOne ==
    ASSUME hits \in Hits, NEW k \in Key, NEW t \in Times,
           hits' = [hits EXCEPT ![k][t] = @ + 1]
    PROVE  Calls' <= Calls + 1 /\ Calls' \in Nat
<1> DEFINE last == <<k, t, hits[k][t] + 1>>
<1>1. Counted3' \subseteq Counted3 \cup {last}
  <2>1. SUFFICES ASSUME NEW l \in Key, NEW u \in Times, NEW i \in Numbers, i <= hits'[l][u]
                 PROVE  i <= hits[l][u] \/ <<l, u, i>> = last
    BY DEF Counted3
  <2>2. i \in Nat /\ hits[l][u] \in Nat /\ hits[k][t] \in Nat
    BY Limits DEF Hits
  <2>3. CASE l = k /\ u = t
    <3>1. hits'[l][u] = hits[l][u] + 1
      BY <2>3 DEF Hits
    <3>2. QED
      BY <2>1, <2>2, <2>3, <3>1
  <2>4. CASE ~(l = k /\ u = t)
    <3>1. hits'[l][u] = hits[l][u]
      BY <2>4 DEF Hits
    <3>2. QED
      BY <2>1, <3>1
  <2>5. QED
    BY <2>3, <2>4
<1>2. IsFiniteSet(Counted3) /\ Calls = Cardinality(Counted3) /\ Calls \in Nat
  BY CallsFinite
<1>3. IsFiniteSet(Counted3 \cup {last}) /\ Cardinality(Counted3 \cup {last}) <= Calls + 1
  <2> HIDE DEF last
  <2>1. /\ IsFiniteSet(Counted3 \cup {last})
        /\ Cardinality(Counted3 \cup {last}) =
              IF last \in Counted3 THEN Cardinality(Counted3) ELSE Cardinality(Counted3) + 1
    BY <1>2, FS_AddElement
  <2>2. QED
    BY <1>2, <2>1
<1>4. IsFiniteSet(Counted3') /\ Cardinality(Counted3') <= Calls + 1
  <2>1. Cardinality(Counted3') <= Cardinality(Counted3 \cup {last}) /\ IsFiniteSet(Counted3')
    BY <1>1, <1>3, FS_Subset
  <2>2. Cardinality(Counted3') \in Nat /\ Cardinality(Counted3 \cup {last}) \in Nat
    BY <1>3, <2>1, FS_CardinalityType
  <2>3. QED
    BY <1>2, <1>3, <2>1, <2>2
<1>5. Calls' = Cardinality(Counted3') /\ Calls' \in Nat
  BY <1>4, FS_CardinalityType DEF Calls, Counted3
<1>6. QED
  BY <1>4, <1>5
\* A stretch is of the clock's times, and so is what lies between a period's
\* beginning and now.
LEMMA Stretches ==
    ASSUME NEW h
    PROVE  \A t : Stretch(t) \subseteq Times /\ HitsAt(h, Stretch(t)) \in Nat
<1>1. \A t : Stretch(t) \subseteq Times
  BY DEF Stretch
<1>2. QED
  BY <1>1, HitsFinite

\* A count of zero is justified by any history.
LEMMA SeenZero == \A h : Seen(h, 0)
<1>1. 1 \in Times
  BY Limits DEF Times
<1>2. QED
  BY <1>1, Stretches DEF Seen

\* What a history justifies, a history with more calls justifies as well.
LEMMA SeenMore ==
    ASSUME NEW h \in [Times -> Nat], NEW g \in [Times -> Nat],
           \A t \in Times : h[t] <= g[t], NEW v \in Nat, Seen(h, v)
    PROVE  Seen(g, v)
<1>1. PICK t \in Times : v <= HitsAt(h, Stretch(t))
  BY DEF Seen
<1>2. HitsAt(h, Stretch(t)) <= HitsAt(g, Stretch(t))
  BY Stretches, HitsGrow
<1>3. HitsAt(h, Stretch(t)) \in Nat /\ HitsAt(g, Stretch(t)) \in Nat
  BY Stretches
<1>4. v <= HitsAt(g, Stretch(t))
  BY <1>1, <1>2, <1>3
<1>5. QED
  BY <1>4 DEF Seen

\* The first call for a key makes a sound counter of what the storage had.
LEMMA SoundNew ==
    ASSUME now \in Times, NEW m, NEW h, Recorded(m, h), \A t \in Times : m[t] = 0,
           NEW value \in Nat, Seen(h, value)
    PROVE  Sound(NewCounter(value), m, h)
<1>1. now \in Nat /\ now >= 1 /\ now .. now \subseteq Times
  BY Limits DEF Times
<1>2. HitsAt(m, now .. now) = 0
  BY <1>1, HitsNone DEF Recorded
<1>3. NewCounter(value) \in Counter
  BY <1>1 DEF NewCounter, Counter
<1>4. /\ NewCounter(value).count = 0 /\ NewCounter(value).previous = now
      /\ NewCounter(value).previousCount = value
  BY DEF NewCounter
<1>5. QED
  BY <1>1, <1>2, <1>3, <1>4 DEF Sound

\* No count is more than its period saw.
LEMMA SoundSeen ==
    ASSUME now \in Times, NEW m, NEW h, Recorded(m, h), NEW c, Sound(c, m, h)
    PROVE  Seen(h, c.count) /\ Seen(h, BarelyGet(c))
<1> DEFINE p == c.previous
<1>1. p \in Times /\ p .. now \subseteq Times /\ p \in Nat /\ now \in Nat
  BY Limits DEF Sound, Times
<1>2. ASSUME NEW t \in p .. now PROVE m[t] = 0 \/ (t \in Stretch(p) /\ m[t] <= h[t])
  <2>1. t \in Times /\ t \in Nat /\ p <= t
    BY <1>1
  <2>2. t >= p + Period => m[t] = 0
    BY <2>1 DEF Sound
  <2>3. m[t] <= h[t]
    BY <2>1 DEF Recorded
  <2>4. QED
    BY <1>1, <2>1, <2>2, <2>3, Limits DEF Stretch
<1>3. m \in [Times -> Nat] /\ h \in [Times -> Nat]
  BY DEF Recorded
<1>4. HitsAt(m, p .. now) <= HitsAt(h, Stretch(p))
  <2>1. Stretch(p) \subseteq Times
    BY Stretches
  <2> HIDE DEF p
  <2>2. QED
    BY <1>1, <1>2, <1>3, <2>1, HitsGrow
<1>5. Seen(h, c.count)
  BY <1>1, <1>4 DEF Sound, Seen
<1>6. QED
  BY <1>5 DEF BarelyGet, Sound

\* A refresh only comes when no call has been counted since the period ended.
LEMMA SoundRefresh ==
    ASSUME now \in Times, NEW m, NEW h, Recorded(m, h), NEW c, Sound(c, m, h)
    PROVE  Sound(Refresh(c), m, h) /\ now < Refresh(c).previous + Period
<1>1. now \in Nat /\ now >= 1 /\ now .. now \subseteq Times /\ c.previous \in Nat
  BY Limits DEF Times, Sound
<1>2. CASE Due(c)
  <2>1. now >= c.previous + Period
    BY <1>1, <1>2, Limits DEF Due
  <2>2. m[now] = 0
    BY <2>1 DEF Sound
  <2>3. HitsAt(m, now .. now) = 0
    <3>1. \A t \in now .. now : m[t] = 0
      BY <1>1, <2>2
    <3>2. QED
      BY <1>1, <3>1, HitsNone DEF Recorded
  <2>4. Refresh(c) = [count |-> 0, previous |-> now, previousCount |-> c.count]
    BY <1>2 DEF Refresh, Refreshed
  <2>5. Refresh(c) \in Counter
    BY <1>1, <2>4 DEF Sound, Counter
  <2>6. /\ Refresh(c).count = 0 /\ Refresh(c).previous = now
        /\ Refresh(c).previousCount = c.count
    BY <2>4
  <2>7. ASSUME NEW t \in Times, t >= now + Period PROVE m[t] = 0
    <3>1. t \in Nat /\ t >= c.previous + Period
      BY <1>1, <2>1, <2>7, Limits DEF Times
    <3>2. QED
      BY <3>1 DEF Sound
  <2>8. Seen(h, c.count)
    BY SoundSeen
  <2>9. now \in 1 .. now /\ now < now + Period
    BY <1>1, Limits
  <2>10. Sound(Refresh(c), m, h)
    BY <2>3, <2>5, <2>6, <2>7, <2>8, <2>9 DEF Sound
  <2>11. QED
    BY <2>6, <2>9, <2>10
<1>3. CASE ~Due(c)
  BY <1>1, <1>3, Limits DEF Due, Refresh
<1>4. QED
  BY <1>2, <1>3

\* A counter that counts a call is sound for one call more.
LEMMA SoundCount ==
    ASSUME now \in Times, NEW m, NEW h, Recorded(m, h), NEW c, Sound(c, m, h),
           now < c.previous + Period, m[now] + 1 \in Numbers
    PROVE  /\ Sound([c EXCEPT !.count = @ + 1], [m EXCEPT ![now] = @ + 1], [h EXCEPT ![now] = @ + 1])
           /\ Recorded([m EXCEPT ![now] = @ + 1], [h EXCEPT ![now] = @ + 1])
<1> DEFINE d == [c EXCEPT !.count = @ + 1]
           n == [m EXCEPT ![now] = @ + 1]
           g == [h EXCEPT ![now] = @ + 1]
<1>1. m \in [Times -> Nat] /\ h \in [Times -> Nat] /\ n \in [Times -> Nat] /\ g \in [Times -> Nat]
  BY DEF Recorded
<1>2. /\ n[now] = m[now] + 1 /\ g[now] = h[now] + 1
      /\ \A t \in Times \ {now} : n[t] = m[t] /\ g[t] = h[t]
  BY <1>1
<1>3. Recorded(n, g)
  <2>1. ASSUME NEW t \in Times PROVE n[t] <= g[t] /\ (t > now => g[t] = 0)
    <3>1. m[t] \in Nat /\ h[t] \in Nat /\ m[t] <= h[t] /\ (t > now => h[t] = 0) /\ t \in Nat
      BY <1>1, Limits DEF Recorded, Times
    <3>2. CASE t = now
      BY <1>2, <3>1, <3>2
    <3>3. CASE t # now
      BY <1>2, <3>1, <3>3
    <3>4. QED
      BY <3>2, <3>3
  <2>2. QED
    BY <1>1, <2>1 DEF Recorded
<1>4. ASSUME NEW t \in Times PROVE h[t] <= g[t]
  BY <1>1, <1>2
<1>5. d \in Counter /\ d.previous = c.previous /\ d.previousCount = c.previousCount
      /\ d.count = c.count + 1
  BY DEF Sound, Counter
<1>6. c.previous \in Nat /\ now \in c.previous .. now /\ c.previous .. now \subseteq Times
  BY Limits DEF Sound, Times
<1>7. HitsAt(n, c.previous .. now) = HitsAt(m, c.previous .. now) + 1
  BY <1>1, <1>6, HitsOne
<1>8. ASSUME NEW t \in Times, t >= c.previous + Period PROVE n[t] = 0
  <2>1. t # now
    BY <1>6, <1>8, Limits DEF Times
  <2>2. QED
    BY <1>2, <1>8, <2>1 DEF Sound
<1>9. Seen(g, c.previousCount)
  <2>1. c.previousCount \in Nat /\ Seen(h, c.previousCount)
    BY DEF Sound, Counter
  <2> HIDE DEF g
  <2>2. QED
    BY <1>1, <1>4, <2>1, SeenMore
<1>10. Sound(d, n, g)
  <2>1. c.count = HitsAt(m, c.previous .. now) /\ c.previous \in 1 .. now
    BY DEF Sound
  <2> HIDE DEF d, n, g
  <2>2. QED
    BY <1>5, <1>7, <1>8, <1>9, <2>1 DEF Sound
<1>11. QED
  BY <1>3, <1>10

\* The initial state satisfies the invariant about the counts.
LEMMA CountInit == Init => CountInv
<1> SUFFICES ASSUME Init PROVE CountInv
  OBVIOUS
<1>1. TypeOK /\ RowTypeOK
  BY MeasureInit DEF MInv
<1>2. now = 1 /\ 1 \in Times
  BY Limits DEF Init, Times
<1>3. HitsInv
  BY <1>2, Limits DEF Init, HitsInv, Hits, Recorded
<1>4. CallsInv
  <2>1. Counted3 = {}
    BY Limits DEF Init, Counted3
  <2>2. Counting = {}
    BY DEF Init, Counting, Idle
  <2>3. Calls = 0 /\ Cardinality(Counting) = 0
    BY <2>1, <2>2, CallsFinite, FS_EmptySet
  <2>4. QED
    BY <2>3, Limits DEF CallsInv
<1>5. CounterInv
  BY DEF Init, CounterInv
<1>6. SeenInv
  BY SeenZero DEF Init, SeenInv, Idle
<1>7. QED
  BY <1>1, <1>3, <1>4, <1>5, <1>6 DEF CountInv

\* What the invariant says of the times and tasks, in the form steps need it.
LEMMA CountFacts ==
    ASSUME CountInv
    PROVE  /\ now \in Times /\ now \in Nat
           /\ \A k \in Key : Recorded(mine[k], hits[k])
           /\ IsFiniteSet(Counting) /\ Cardinality(Counting) \in Nat
           /\ Cardinality(Counting) <= Cardinality(Writer)
<1>1. Counting \subseteq Writer
  BY DEF Counting
<1>2. IsFiniteSet(Counting) /\ Cardinality(Counting) <= Cardinality(Writer)
  BY <1>1, RowAssumption, FS_Subset
<1>3. QED
  BY <1>2, FS_CardinalityType DEF CountInv, HitsInv, RowTypeOK

\* Fewer calls under way, and none counted, leave the bound.
LEMMA CallsKept ==
    ASSUME CountInv, UNCHANGED hits, Counting' \subseteq Counting
    PROVE  CallsInv'
<1>1. Cardinality(Counting') <= Cardinality(Counting) /\ Cardinality(Counting') \in Nat
  BY CountFacts, FS_Subset, FS_CardinalityType
<1>2. Calls' = Calls /\ Calls \in Nat
  BY CallsFinite DEF Calls
<1>3. QED
  BY <1>1, <1>2, CountFacts, Limits DEF CallsInv, CountInv, Limit

\* A step that neither counts nor waits leaves the counters as sound as they were.
LEMMA Quiet ==
    ASSUME CountInv, UNCHANGED <<now, counters, hits, mine>>
    PROVE  HitsInv' /\ CounterInv'
<1>1. HitsInv'
  BY DEF CountInv, HitsInv, Hits, Recorded, Limit
<1>2. CounterInv'
  BY DEF CountInv, CounterInv, Sound
<1>3. QED
  BY <1>1, <1>2

\* A call that loads its counter reads a value the history justifies.
LEMMA CountLoads ==
    ASSUME CountInv, NEW w \in Writer, NEW k \in Key, NEW op \in {"incr", "get"},
           op = "incr" => Calls < MaxCalls, Loads(w, k, op)
    PROVE  HitsInv' /\ CallsInv' /\ CounterInv' /\ SeenInv'
<1>1. UNCHANGED <<now, stored, flushed, counters, hits, mine>>
  BY DEF Loads, Get, rowVars
<1>2. PICK value \in {0, IF k \in rows THEN stored[k] ELSE 0} :
          task' = [task EXCEPT ![w] = [at |-> "loaded", op |-> op, key |-> k, value |-> value]]
  BY DEF Loads
<1>3. task \in [Writer -> [at : {"idle", "loaded", "save", "done"}, op : {"incr", "get"},
                           key : Key \cup {NoKey}, value : Nat]]
  BY DEF CountInv, TypeOK
<1>4. HitsInv'
  BY <1>1, Quiet
<1>5. CounterInv'
  BY <1>1, Quiet
<1>6. Seen(hits[k], value)
  BY <1>2, SeenZero DEF CountInv, SeenInv
<1>7. SeenInv'
  <2>1. \A v \in Writer : task'[v].at # "idle" => Seen(hits[task'[v].key], task'[v].value)
    <3> SUFFICES ASSUME NEW v \in Writer, task'[v].at # "idle"
                 PROVE  Seen(hits[task'[v].key], task'[v].value)
      OBVIOUS
    <3>1. CASE v = w
      BY <1>2, <1>3, <1>6, <3>1
    <3>2. CASE v # w
      BY <1>2, <1>3, <3>2 DEF CountInv, SeenInv
    <3>3. QED
      BY <3>1, <3>2
  <2>2. QED
    BY <1>1, <2>1 DEF CountInv, SeenInv
<1>8. CallsInv'
  <2>1. CASE op = "get"
    <3>1. Counting' \subseteq Counting
      BY <1>2, <1>3, <2>1 DEF Counting
    <3>2. QED
      BY <1>1, <3>1, CallsKept
  <2>2. CASE op = "incr"
    <3>1. Calls' = Calls /\ Calls \in Nat /\ Calls < MaxCalls
      BY <1>1, <2>2, CallsFinite DEF Calls
    <3>2. Counting' \subseteq Writer
      BY DEF Counting
    <3>3. /\ Cardinality(Counting') <= Cardinality(Writer) /\ Cardinality(Counting') \in Nat
          /\ Cardinality(Writer) \in Nat
      BY <3>2, RowAssumption, FS_Subset, FS_CardinalityType
    <3>4. QED
      BY <3>1, <3>3, Limits DEF CallsInv, Limit
  <2>3. QED
    BY <2>1, <2>2
<1>9. QED
  BY <1>4, <1>5, <1>7, <1>8

\* A call that saves stores the value it computed, which the history justifies.
LEMMA CountSaves ==
    ASSUME CountInv, NEW w \in Writer, Saves(w)
    PROVE  HitsInv' /\ CallsInv' /\ CounterInv' /\ SeenInv'
<1>1. UNCHANGED <<now, flushed, counters, hits, mine>>
  BY DEF Saves, Prune, Put
<1>2. task \in [Writer -> [at : {"idle", "loaded", "save", "done"}, op : {"incr", "get"},
                           key : Key \cup {NoKey}, value : Nat]]
      /\ stored \in [Key -> Nat]
  BY DEF CountInv, TypeOK
<1>3. task[w].at = "save" /\ task[w].key \in Key /\ Seen(hits[task[w].key], task[w].value)
  BY DEF Saves, CountInv, TypeOK, SeenInv
<1>4. task' = task \/ task' = [task EXCEPT ![w].at = "done"]
  BY DEF Saves
<1>5. stored' = stored \/ stored' = [stored EXCEPT ![task[w].key] = task[w].value]
  BY DEF Saves
<1>6. Counting' \subseteq Counting
  BY <1>2, <1>4 DEF Counting
<1>7. \A v \in Writer : task'[v].at # "idle" =>
          task[v].at # "idle" /\ task'[v].key = task[v].key /\ task'[v].value = task[v].value
  BY <1>2, <1>3, <1>4
<1>8. \A k \in Key : Seen(hits[k], stored'[k])
  BY <1>2, <1>3, <1>5 DEF CountInv, SeenInv
<1>9. SeenInv'
  BY <1>1, <1>7, <1>8 DEF CountInv, SeenInv
<1>10. QED
  BY <1>1, <1>6, <1>9, CallsKept, Quiet

\* A call that ends, or whose save fails, changes no count.
LEMMA CountEnds ==
    ASSUME CountInv, NEW w \in Writer, SaveFails(w) \/ Returns(w)
    PROVE  HitsInv' /\ CallsInv' /\ CounterInv' /\ SeenInv'
<1>1. UNCHANGED <<now, stored, flushed, counters, hits, mine>>
  BY DEF SaveFails, Returns, rowVars
<1>2. task \in [Writer -> [at : {"idle", "loaded", "save", "done"}, op : {"incr", "get"},
                           key : Key \cup {NoKey}, value : Nat]]
  BY DEF CountInv, TypeOK
<1>3. \/ task[w].at = "save" /\ task' = [task EXCEPT ![w].at = "done"]
      \/ task' = [task EXCEPT ![w] = Idle]
  BY DEF SaveFails, Returns
<1>4. Counting' \subseteq Counting
  BY <1>2, <1>3 DEF Counting, Idle
<1>5. \A v \in Writer : task'[v].at # "idle" =>
          task[v].at # "idle" /\ task'[v].key = task[v].key /\ task'[v].value = task[v].value
  BY <1>2, <1>3 DEF Idle
<1>6. SeenInv'
  BY <1>1, <1>5 DEF CountInv, SeenInv
<1>7. QED
  BY <1>1, <1>4, <1>6, CallsKept, Quiet

\* A flush copies the stored counts, which the history already justifies.
LEMMA CountFlush ==
    ASSUME CountInv, Flush
    PROVE  HitsInv' /\ CallsInv' /\ CounterInv' /\ SeenInv'
<1>1. UNCHANGED <<now, stored, counters, task, hits, mine>> /\ flushed'.data = stored
  BY DEF Flush, rowVars
<1>2. Counting' \subseteq Counting
  BY <1>1 DEF Counting
<1>3. SeenInv'
  BY <1>1 DEF CountInv, SeenInv
<1>4. QED
  BY <1>1, <1>2, <1>3, CallsKept, Quiet

\* No call has been counted at the new time yet.
LEMMA CountTick ==
    ASSUME CountInv, Tick
    PROVE  HitsInv' /\ CallsInv' /\ CounterInv' /\ SeenInv'
<1>1. UNCHANGED <<stored, flushed, counters, task, hits, mine>> /\ now' = now + 1 /\ now < MaxNow
  BY DEF Tick, RowTick
<1>2. now' \in Times /\ now \in Nat /\ now \in Times
  BY <1>1, CountFacts, Limits DEF Times
<1>3. HitsInv'
  <2>1. ASSUME NEW k \in Key PROVE Recorded(mine[k], hits[k])'
    <3>1. Recorded(mine[k], hits[k])
      BY CountFacts
    <3>2. \A t \in Times : t > now + 1 => t > now
      BY <1>2 DEF Times
    <3>3. QED
      BY <1>1, <3>1, <3>2 DEF Recorded
  <2>2. QED
    BY <1>1, <1>2, <2>1 DEF CountInv, HitsInv, Hits, Limit
<1>4. Counting' \subseteq Counting
  BY <1>1 DEF Counting
<1>5. SeenInv'
  BY <1>1 DEF CountInv, SeenInv
<1>6. CounterInv'
  <2> SUFFICES ASSUME NEW k \in Key, counters[k] # NoCounter
               PROVE  Sound(counters[k], mine[k], hits[k])'
    BY <1>1 DEF CountInv, CounterInv
  <2> DEFINE c == counters[k]
             m == mine[k]
             h == hits[k]
  <2>1. Sound(c, m, h) /\ Recorded(m, h)
    BY CountFacts DEF CountInv, CounterInv
  <2>2. m[now + 1] = 0
    <3>1. m[now + 1] \in Nat /\ h[now + 1] \in Nat /\ m[now + 1] <= h[now + 1] /\ h[now + 1] = 0
      BY <1>1, <1>2, <2>1 DEF Recorded
    <3>2. QED
      BY <3>1
  <2>3. /\ c.previous .. now \subseteq Times /\ c.previous .. (now + 1) \subseteq Times
        /\ c.previous \in Nat /\ c.previous \in 1 .. now
    BY <1>1, <1>2, <2>1, Limits DEF Sound, Times
  <2>4. \A t \in c.previous .. (now + 1) : m[t] = 0 \/ (t \in c.previous .. now /\ m[t] <= m[t])
    <3>1. SUFFICES ASSUME NEW t \in c.previous .. (now + 1), m[t] # 0
                   PROVE  t \in c.previous .. now /\ m[t] <= m[t]
      OBVIOUS
    <3>2. t # now + 1 /\ t \in Nat /\ m[t] \in Nat
      BY <2>1, <2>2, <2>3, <3>1 DEF Recorded
    <3>3. QED
      BY <1>2, <2>3, <3>2
  <2>5. m \in [Times -> Nat]
    BY <2>1 DEF Recorded
  <2>6. HitsAt(m, c.previous .. (now + 1)) <= HitsAt(m, c.previous .. now)
    <3> HIDE DEF c, m, h
    <3>1. QED
      BY <2>3, <2>4, <2>5, HitsGrow
  <2>7. HitsAt(m, c.previous .. now) <= HitsAt(m, c.previous .. (now + 1))
    <3>1. \A t \in c.previous .. now : t \in c.previous .. (now + 1) /\ m[t] <= m[t]
      BY <1>2, <2>3, <2>5
    <3> HIDE DEF c, m, h
    <3>2. QED
      BY <2>3, <2>5, <3>1, HitsGrow
  <2>8. HitsAt(m, c.previous .. (now + 1)) = HitsAt(m, c.previous .. now)
    <3>1. HitsAt(m, c.previous .. (now + 1)) \in Nat /\ HitsAt(m, c.previous .. now) \in Nat
      BY <2>3, HitsFinite
    <3> HIDE DEF c, m, h
    <3>2. QED
      BY <2>6, <2>7, <3>1
  <2>9. c.previous \in 1 .. (now + 1)
    BY <1>2, <2>3
  <2>10. c' = c /\ m' = m /\ h' = h
    BY <1>1
  <2> HIDE DEF c, m, h
  <2>11. Sound(c, m, h)'
    BY <1>1, <2>1, <2>8, <2>9, <2>10 DEF Sound
  <2>12. QED
    BY <2>11 DEF c, m, h
<1>7. QED
  BY <1>1, <1>3, <1>4, <1>5, <1>6, CallsKept

\* The new process has counted nothing, and starts from what had been seen.
LEMMA CountRestart ==
    ASSUME CountInv, Restart
    PROVE  HitsInv' /\ CallsInv' /\ CounterInv' /\ SeenInv'
<1>1. /\ UNCHANGED <<now, flushed, hits>>
      /\ counters' = [k \in Key |-> NoCounter]
      /\ mine' = [k \in Key |-> [t \in Times |-> 0]]
      /\ task' = [w \in Writer |-> Idle]
      /\ stored' = stored \/ stored' = flushed.data
  BY DEF Restart
<1>2. HitsInv'
  <2>1. mine' \in Hits /\ hits \in Hits
    BY <1>1, Limits DEF Hits, CountInv, HitsInv
  <2>2. ASSUME NEW k \in Key PROVE Recorded(mine[k], hits[k])'
    <3>1. Recorded(mine[k], hits[k])
      BY CountFacts
    <3>2. \A t \in Times : hits[k][t] \in Nat
      BY <3>1 DEF Recorded
    <3>3. QED
      BY <1>1, <3>1, <3>2 DEF Recorded
  <2>3. QED
    BY <1>1, <2>1, <2>2 DEF CountInv, HitsInv, Hits, Limit
<1>3. Counting' \subseteq Counting
  BY <1>1 DEF Counting, Idle
<1>4. CounterInv'
  BY <1>1 DEF CounterInv
<1>5. SeenInv'
  BY <1>1 DEF CountInv, SeenInv, Idle
<1>6. QED
  BY <1>1, <1>2, <1>3, <1>4, <1>5, CallsKept
\* A call is counted in a sound counter, which its task or another one made.
LEMMA CountCounted ==
    ASSUME CountInv, NEW w \in Writer, Counted(w)
    PROVE  HitsInv' /\ CallsInv' /\ CounterInv' /\ SeenInv'
<1> DEFINE k == task[w].key
           value == task[w].value
           m == mine[k]
           h == hits[k]
           old == EntryOrInsert(k, value)
           mid == Refresh(old)
           new == [mid EXCEPT !.count = @ + IF task[w].op = "incr" THEN 1 ELSE 0]
<1>1. /\ task[w].at = "loaded" /\ k \in Key /\ value \in Nat /\ Seen(h, value)
      /\ task[w].op \in {"incr", "get"}
  BY DEF Counted, CountInv, TypeOK, SeenInv
<1>2. /\ now \in Times /\ now \in Nat /\ \A l \in Key : Recorded(mine[l], hits[l])
      /\ hits \in Hits /\ mine \in Hits
  BY CountFacts DEF CountInv, HitsInv
<1>3. Recorded(m, h)
  BY <1>1, <1>2
<1>4. Sound(old, m, h)
  <2>1. CASE counters[k] = NoCounter
    <3>1. \A t \in Times : m[t] = 0
      BY <1>1, <2>1 DEF CountInv, CounterInv
    <3>2. old = NewCounter(value)
      BY <2>1 DEF EntryOrInsert
    <3> HIDE DEF k, value, m, h, old
    <3>3. QED
      BY <1>1, <1>2, <1>3, <3>1, <3>2, SoundNew
  <2>2. CASE counters[k] # NoCounter
    BY <1>1, <2>2 DEF CountInv, CounterInv, EntryOrInsert
  <2>3. QED
    BY <2>1, <2>2
<1>5. Sound(mid, m, h) /\ now < mid.previous + Period
  <2> HIDE DEF k, value, m, h, old
  <2>1. QED
    BY <1>2, <1>3, <1>4, SoundRefresh
<1>6. /\ counters' = [counters EXCEPT ![k] = new]
      /\ task' = [task EXCEPT ![w] = [@ EXCEPT !.at = IF Due(old) THEN "save" ELSE "done",
                                               !.value = BarelyGet(new)]]
      /\ UNCHANGED <<now, stored, flushed>>
      /\ \/ /\ task[w].op = "incr"
            /\ hits' = [hits EXCEPT ![k][now] = @ + 1]
            /\ mine' = [mine EXCEPT ![k][now] = @ + 1]
         \/ task[w].op = "get" /\ UNCHANGED <<hits, mine>>
  BY DEF Counted, rowVars
<1>7. task \in [Writer -> [at : {"idle", "loaded", "save", "done"}, op : {"incr", "get"},
                           key : Key \cup {NoKey}, value : Nat]]
      /\ counters \in [Key -> Counter] /\ stored \in [Key -> Nat]
      /\ flushed.data \in [Key -> Nat]
  BY DEF CountInv, TypeOK
\* One call more, when it is one, and the counter sound for it.
<1>8. /\ HitsInv' /\ CallsInv'
      /\ \E n, g : /\ mine' = [mine EXCEPT ![k] = n] /\ hits' = [hits EXCEPT ![k] = g]
                    /\ Sound(new, n, g) /\ Recorded(n, g)
                    /\ \A t \in Times : h[t] <= g[t]
  <2>1. CASE task[w].op = "incr"
    <3>1. /\ Cardinality(Counting') = Cardinality(Counting) - 1
          /\ Cardinality(Counting) >= 1 /\ Cardinality(Counting) \in Nat
      <4>1. Counting' = Counting \ {w} /\ w \in Counting
        BY <1>1, <1>6, <1>7, <2>1 DEF Counting
      <4>2. IsFiniteSet(Counting) /\ Cardinality(Counting) \in Nat
        BY CountFacts
      <4>3. Cardinality(Counting) # 0
        BY <4>1, <4>2, FS_EmptySet
      <4>4. QED
        BY <4>1, <4>2, <4>3, FS_RemoveElement
    <3>2. hits' = [hits EXCEPT ![k][now] = @ + 1] /\ mine' = [mine EXCEPT ![k][now] = @ + 1]
      BY <1>6, <2>1
    <3>3. Calls' <= Calls + 1 /\ Calls' \in Nat /\ Calls \in Nat
      BY <1>1, <1>2, <3>2, CallsOne, CallsFinite
    <3>4. CallsInv'
      BY <3>1, <3>3, Limits DEF CallsInv, CountInv, Limit
    <3>5. Calls <= Limit - 1
      BY <3>1, <3>3, Limits DEF CallsInv, CountInv
    <3>6. /\ h[now] + 1 \in 0 .. Limit /\ m[now] + 1 \in 0 .. Limit
          /\ m[now] \in Nat /\ h[now] \in Nat
      <4>1. h[now] <= Calls /\ m[now] <= h[now] /\ h[now] \in Nat /\ m[now] \in Nat
        BY <1>1, <1>2, <1>3, CallsMost DEF Recorded
      <4> HIDE DEF m, h
      <4>2. QED
        BY <3>3, <3>5, <4>1, Limits
    <3> DEFINE n == [m EXCEPT ![now] = @ + 1]
               g == [h EXCEPT ![now] = @ + 1]
               one == [mid EXCEPT !.count = @ + 1]
    <3>7. Sound(one, n, g) /\ Recorded(n, g)
      <4>1. m[now] + 1 \in Numbers
        <5> HIDE DEF m
        <5>1. QED
          BY <3>6, Limits
      <4> HIDE DEF k, m, h, mid
      <4>2. QED
        BY <1>2, <1>3, <1>5, <4>1, SoundCount
    <3>8. /\ mine' = [mine EXCEPT ![k] = n] /\ hits' = [hits EXCEPT ![k] = g]
          /\ new = one
      BY <2>1, <3>2
    <3>9. n \in [Times -> 0 .. Limit] /\ g \in [Times -> 0 .. Limit]
      <4>1. m \in [Times -> 0 .. Limit] /\ h \in [Times -> 0 .. Limit]
        BY <1>1, <1>2 DEF Hits
      <4> HIDE DEF m, h
      <4>2. QED
        BY <1>2, <3>6, <4>1
    <3>10. HitsInv'
      <4>1. hits' \in Hits /\ mine' \in Hits
        <5> HIDE DEF n, g, k
        <5>1. QED
          BY <1>2, <3>8, <3>9 DEF Hits
      <4>2. ASSUME NEW l \in Key PROVE Recorded(mine[l], hits[l])'
        <5>1. CASE l = k
          <6>1. mine'[l] = n /\ hits'[l] = g
            BY <1>1, <1>2, <3>8, <5>1 DEF Hits
          <6> HIDE DEF n, g
          <6>2. QED
            BY <1>6, <3>7, <6>1 DEF Recorded
        <5>2. CASE l # k
          <6>1. mine'[l] = mine[l] /\ hits'[l] = hits[l]
            BY <1>2, <3>8, <5>2 DEF Hits
          <6>2. QED
            BY <1>2, <1>6, <6>1 DEF Recorded
        <5>3. QED
          BY <5>1, <5>2
      <4>3. QED
        BY <1>2, <1>6, <4>1, <4>2 DEF HitsInv, Hits, Limit
    <3>11. ASSUME NEW t \in Times PROVE h[t] <= g[t]
      <4>1. h[t] \in Nat /\ h \in [Times -> Nat]
        BY <1>3 DEF Recorded
      <4> HIDE DEF h
      <4>2. QED
        BY <1>2, <4>1
    <3>12. Sound(new, n, g)
      <4> HIDE DEF n, g, one, new
      <4>1. QED
        BY <3>7, <3>8
    <3> HIDE DEF n, g, one, new, m, h, k
    <3>13. QED
      BY <3>4, <3>7, <3>8, <3>10, <3>11, <3>12
  <2>2. CASE task[w].op = "get"
    <3>1. UNCHANGED <<hits, mine>>
      BY <1>6, <2>2
    <3>2. Counting' \subseteq Counting
      BY <1>1, <1>6, <1>7, <2>2 DEF Counting
    <3>3. mine' = [mine EXCEPT ![k] = m] /\ hits' = [hits EXCEPT ![k] = h]
      BY <1>1, <1>2, <3>1 DEF Hits
    <3>4. new = mid
      <4>1. mid \in Counter
        BY <1>5 DEF Sound
      <4> HIDE DEF mid
      <4>2. QED
        BY <2>2, <4>1 DEF Counter
    <3>5. HitsInv'
      BY <1>6, <3>1 DEF CountInv, HitsInv, Hits, Recorded, Limit
    <3>6. CallsInv'
      BY <3>1, <3>2, CallsKept
    <3>7. \A t \in Times : h[t] <= h[t]
      BY <1>3 DEF Recorded
    <3> HIDE DEF new, mid, m, h, k
    <3>8. QED
      BY <1>3, <1>5, <3>3, <3>4, <3>5, <3>6, <3>7
  <2>3. QED
    BY <1>1, <2>1, <2>2
<1>9. PICK n, g : /\ mine' = [mine EXCEPT ![k] = n] /\ hits' = [hits EXCEPT ![k] = g]
                  /\ Sound(new, n, g) /\ Recorded(n, g)
                  /\ \A t \in Times : h[t] <= g[t]
  BY <1>8
<1>10. CounterInv'
  <2>1. new # NoCounter
    <3>1. new.previous # 0
      BY <1>2, <1>9 DEF Sound
    <3> HIDE DEF new
    <3>2. QED
      BY <3>1 DEF NoCounter
  <2> SUFFICES ASSUME NEW l \in Key
               PROVE  IF counters'[l] = NoCounter THEN \A t \in Times : mine'[l][t] = 0
                      ELSE Sound(counters[l], mine[l], hits[l])'
    BY DEF CounterInv
  <2>2. CASE l = k
    <3>1. counters'[l] = new /\ mine'[l] = n /\ hits'[l] = g
      BY <1>2, <1>6, <1>7, <1>9, <2>2 DEF Hits
    <3> HIDE DEF new
    <3>2. QED
      BY <1>6, <1>9, <2>1, <3>1 DEF Sound
  <2>3. CASE l # k
    <3>1. counters'[l] = counters[l] /\ mine'[l] = mine[l] /\ hits'[l] = hits[l]
      BY <1>2, <1>6, <1>7, <1>9, <2>3 DEF Hits
    <3>2. QED
      BY <1>6, <3>1 DEF CountInv, CounterInv, Sound
  <2>4. QED
    BY <2>2, <2>3
<1>11. ASSUME NEW l \in Key, NEW v \in Nat, Seen(hits[l], v) PROVE Seen(hits'[l], v)
  <2>1. CASE l = k
    <3>1. hits'[l] = g /\ hits[l] = h
      BY <1>2, <1>9, <2>1 DEF Hits
    <3>2. h \in [Times -> Nat] /\ g \in [Times -> Nat]
      BY <1>3, <1>9 DEF Recorded
    <3> HIDE DEF h
    <3>3. QED
      BY <1>9, <1>11, <3>1, <3>2, SeenMore
  <2>2. CASE l # k
    BY <1>2, <1>9, <1>11, <2>2 DEF Hits
  <2>3. QED
    BY <2>1, <2>2
<1>12. SeenInv'
  <2>1. ASSUME NEW l \in Key PROVE Seen(hits'[l], stored[l]) /\ Seen(hits'[l], flushed.data[l])
    BY <1>7, <1>11 DEF CountInv, SeenInv
  <2>2. ASSUME NEW v \in Writer, task'[v].at # "idle"
        PROVE  Seen(hits'[task'[v].key], task'[v].value)
    <3>1. CASE v = w
      <4>1. Seen(g, BarelyGet(new))
        <5> HIDE DEF new
        <5>1. QED
          BY <1>2, <1>9, SoundSeen
      <4>2. task'[v].key = k /\ task'[v].value = BarelyGet(new)
        <5> DEFINE then == [task[w] EXCEPT !.at = IF Due(old) THEN "save" ELSE "done",
                                           !.value = BarelyGet(new)]
        <5> HIDE DEF new, old
        <5>1. task' = [task EXCEPT ![w] = then]
          BY <1>6
        <5>2. then.key = task[w].key /\ then.value = BarelyGet(new)
          BY <1>7
        <5> HIDE DEF then
        <5>3. QED
          BY <1>7, <3>1, <5>1, <5>2
      <4>3. hits'[k] = g
        BY <1>1, <1>2, <1>9 DEF Hits
      <4> HIDE DEF new, k
      <4>4. QED
        BY <4>1, <4>2, <4>3
    <3>2. CASE v # w
      <4>1. task'[v] = task[v]
        <5> HIDE DEF new, old
        <5>1. QED
          BY <1>6, <1>7, <3>2
      <4>2. task[v].key \in Key /\ task[v].value \in Nat /\ Seen(hits[task[v].key], task[v].value)
        BY <1>7, <2>2, <4>1 DEF CountInv, TypeOK, SeenInv
      <4>3. QED
        BY <1>11, <4>1, <4>2
    <3>3. QED
      BY <3>1, <3>2
  <2>3. QED
    BY <1>6, <2>1, <2>2 DEF SeenInv
<1>13. QED
  BY <1>8, <1>10, <1>12

\* Every step keeps the invariant about the counts.
LEMMA CountStep == CountInv /\ MInv /\ [Next]_measureVars => CountInv'
<1> SUFFICES ASSUME CountInv, MInv, [Next]_measureVars PROVE CountInv'
  OBVIOUS
<1>1. TypeOK' /\ RowTypeOK'
  BY MeasureTypeStep, MeasureRows
<1>2. HitsInv' /\ CallsInv' /\ CounterInv' /\ SeenInv'
  <2>1. ASSUME NEW w \in Writer, NEW k \in Key,
               (Calls < MaxCalls /\ Loads(w, k, "incr")) \/ Loads(w, k, "get")
        PROVE  HitsInv' /\ CallsInv' /\ CounterInv' /\ SeenInv'
    BY <2>1, CountLoads
  <2>2. ASSUME NEW w \in Writer, Counted(w) \/ Saves(w) \/ SaveFails(w) \/ Returns(w)
        PROVE  HitsInv' /\ CallsInv' /\ CounterInv' /\ SeenInv'
    BY <2>2, CountCounted, CountSaves, CountEnds
  <2>3. CASE Flush \/ Tick \/ Restart
    BY <2>3, CountFlush, CountTick, CountRestart
  <2>4. CASE UNCHANGED measureVars
    <3>1. UNCHANGED <<now, stored, flushed, counters, task, hits, mine>>
      BY <2>4 DEF measureVars, rowVars
    <3>2. Counting' \subseteq Counting
      BY <3>1 DEF Counting
    <3>3. SeenInv'
      BY <3>1 DEF CountInv, SeenInv
    <3>4. QED
      BY <3>1, <3>2, <3>3, CallsKept, Quiet
  <2>5. QED
    BY <2>1, <2>2, <2>3, <2>4 DEF Next
<1>3. QED
  BY <1>1, <1>2 DEF CountInv

\* Every counter of the process is sound, and no number in a counter, a row, on
\* sled's disk or in a task's hands is more than some period saw
\* (ensure_counter, PeriodicCounter, save_counter).
THEOREM CountInvariant == Spec => []CountInv
<1>1. CountInv /\ MInv /\ [Next]_measureVars => CountInv'
  BY CountStep
<1>2. QED
  BY CountInit, MeasureInvariant, <1>1, PTL DEF Spec

\* No call of incr is lost or counted twice, however many tasks create, look up
\* and refresh one counter between each other's steps (PeriodicMeasure::incr).
THEOREM CountsEveryCallAlways == Spec => []CountsEveryCall
<1>1. CountInv => CountsEveryCall
  BY DEF CountInv, CounterInv, CountsEveryCall, Sound
<1>2. QED
  BY <1>1, CountInvariant, PTL

\* What get_count answers and save_counter stores was seen in some period, over
\* any number of restarts and flushes (PeriodicCounter::get, ensure_counter).
THEOREM NeverOverstatesAlways == Spec => []NeverOverstates
<1>1. CountInv => NeverOverstates
  BY DEF CountInv, SeenInv, NeverOverstates, Seen
<1>2. QED
  BY <1>1, CountInvariant, PTL
=============================================================================
