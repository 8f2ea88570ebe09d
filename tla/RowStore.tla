------------------------------ MODULE RowStore ------------------------------
(***************************************************************************)
(* The browser's persistent storage (storage/persistence/idb.rs): a table  *)
(* of rows under keys, each with the time of its last visit, that makes    *)
(* room before it puts a row.  Every transaction of IndexedDB is one step; *)
(* a put is two of them, so the puts of several tasks interleave.          *)
(***************************************************************************)
EXTENDS Naturals, FiniteSets

CONSTANTS Key,     \* the keys of rows
          Writer,  \* the tasks that use the storage
          Cap,     \* rows of data limit
          NoKey    \* not a key

ASSUME RowAssumption ==
    /\ IsFiniteSet(Key) /\ IsFiniteSet(Writer)
    /\ Cap \in Nat \ {0} /\ NoKey \notin Key

VARIABLES rows,     \* the keys that have a row
          visited,  \* last_visit_time of the rows
          putting,  \* the row each task has pruned for and not put yet
          now

rowVars == <<rows, visited, putting, now>>

RowTypeOK ==
    /\ rows \subseteq Key
    /\ visited \in [Key -> Nat]
    /\ putting \in [Writer -> Key \cup {NoKey}]
    /\ now \in Nat

RowInit ==
    /\ rows = {} /\ visited = [k \in Key |-> 0]
    /\ putting = [w \in Writer |-> NoKey]
    /\ now = 0

Oldest == {k \in rows : \A l \in rows : visited[k] <= visited[l]}

\* Mutant: the table may hold one row too many.
PruneLate(w, k) ==
    /\ putting[w] = NoKey
    /\ putting' = [putting EXCEPT ![w] = k]
    /\ \/ Cardinality(rows) <= Cap /\ rows' = rows
       \/ Cardinality(rows) > Cap /\ \E old \in Oldest : rows' = rows \ {old}
    /\ UNCHANGED <<visited, now>>

\* The first half of put.  A full table loses the row visited longest ago,
\* one row however many are too many, and also when k has a row already.
Prune(w, k) ==
    /\ putting[w] = NoKey
    /\ putting' = [putting EXCEPT ![w] = k]
    /\ \/ Cardinality(rows) < Cap /\ rows' = rows
       \/ Cardinality(rows) >= Cap /\ \E old \in Oldest : rows' = rows \ {old}
    /\ UNCHANGED <<visited, now>>

\* The second half: DataStruct::new starts a new life of the row.
Put(w) ==
    /\ putting[w] \in Key
    /\ rows' = rows \cup {putting[w]}
    /\ visited' = [visited EXCEPT ![putting[w]] = now]
    /\ putting' = [putting EXCEPT ![w] = NoKey]
    /\ UNCHANGED now

\* Reading a row is a visit.
Get(k) ==
    /\ visited' = IF k \in rows THEN [visited EXCEPT ![k] = now] ELSE visited
    /\ UNCHANGED <<rows, putting, now>>

Remove(k) ==
    /\ rows' = rows \ {k}
    /\ UNCHANGED <<visited, putting, now>>

Clear ==
    /\ rows' = {}
    /\ UNCHANGED <<visited, putting, now>>

RowTick ==
    /\ now' = now + 1
    /\ UNCHANGED <<rows, visited, putting>>

RowNext ==
    \/ \E w \in Writer : Put(w) \/ \E k \in Key : Prune(w, k)
    \/ \E k \in Key : Get(k) \/ Remove(k)
    \/ Clear \/ RowTick

RowSpec == RowInit /\ [][RowNext]_rowVars

-----------------------------------------------------------------------------
Putting == {w \in Writer : putting[w] # NoKey}

\* What tasks between the halves of a put may add is part of the bound: this
\* is the invariant that every step keeps.
RowsAndPuts == Cardinality(rows) + Cardinality(Putting) <= Cap - 1 + Cardinality(Writer)

\* "rows of data limit" holds for one task; every further task that puts at
\* the same time may add one row more, and no later put takes it away again.
RowBound == Cardinality(rows) <= Cap - 1 + Cardinality(Writer)
=============================================================================
