------------------------------ MODULE Measure ------------------------------
(***************************************************************************)
(* PeriodicMeasure (src/src/measure.rs): counters of what peers do, in     *)
(* memory by the period and in the persistent storage for the next start.  *)
(* A task looks the storage up, counts under the counter's lock and saves  *)
(* after the unlock, with other tasks' steps between.  The storage is      *)
(* sled (kv.rs), which has no limit, or IndexedDB (idb.rs), a RowStore.    *)
(***************************************************************************)
EXTENDS RowStore

CONSTANTS Period, MaxNow, MaxCalls  \* MaxNow, MaxCalls: bounds of a behaviour

ASSUME MeasureAssumption == {Period, MaxNow, MaxCalls} \subseteq Nat \ {0}

VARIABLES engine,    \* "kv" or "idb"
          stored,    \* the data of the rows
          flushed,   \* what sled has on disk: rows and their data
          counters,  \* PeriodicCounters of this process; none when previous = 0
          task,      \* what every task is doing
          \* kept for the properties only:
          hits,      \* how often incr counted for a key at each time
          mine       \* of those, the ones of this process

measureVars == <<rowVars, engine, stored, flushed, counters, task, hits, mine>>

Counter == [count : Nat, previous : Nat, previousCount : Nat]
NoCounter == [count |-> 0, previous |-> 0, previousCount |-> 0]
Idle == [at |-> "idle", op |-> "get", key |-> NoKey, value |-> 0]

Times == 1 .. MaxNow

Init ==
    /\ rows = {} /\ visited = [k \in Key |-> 0] /\ now = 1
    /\ putting = [w \in Writer |-> NoKey]
    /\ engine \in {"kv", "idb"}
    /\ stored = [k \in Key |-> 0]
    /\ flushed = [rows |-> {}, data |-> [k \in Key |-> 0]]
    /\ counters = [k \in Key |-> NoCounter]
    /\ task = [w \in Writer |-> Idle]
    /\ hits = [k \in Key |-> [t \in Times |-> 0]]
    /\ mine = hits

\* Calls at the limit may still be under way in every task.
Numbers == 1 .. (MaxCalls + Cardinality(Writer))
HitsAt(h, times) == Cardinality({c \in times \X Numbers : c[2] <= h[c[1]]})
Calls == Cardinality({c \in Key \X Times \X Numbers : c[3] <= hits[c[1]][c[2]]})

-----------------------------------------------------------------------------
Refreshed(c) == [count |-> 0, previous |-> now, previousCount |-> c.count]

Due(c) == now - c.previous >= Period

Refresh(c) == IF Due(c) THEN Refreshed(c) ELSE c

\* Mutant: both periods count.
BarelyGetBoth(c) == c.previousCount + c.count

BarelyGet(c) == IF c.previousCount = 0 THEN c.count ELSE c.previousCount

NewCounter(value) == [count |-> 0, previous |-> now, previousCount |-> value]

\* Mutant: insert where the code says or_insert_with.
InsertCounter(k, value) == NewCounter(value)

EntryOrInsert(k, value) ==
    IF counters[k] = NoCounter THEN NewCounter(value) ELSE counters[k]

\* The storage lookup of ensure_counter; one that fails counts as 0.
Loads(w, k, op) ==
    /\ task[w] = Idle
    /\ \/ engine = "idb" /\ Get(k)
       \/ engine = "kv" /\ UNCHANGED rowVars
    /\ \E value \in {0, IF k \in rows THEN stored[k] ELSE 0} :
          task' = [task EXCEPT ![w] = [at |-> "loaded", op |-> op, key |-> k, value |-> value]]
    /\ UNCHANGED <<engine, stored, flushed, counters, hits, mine>>

\* The rest of incr and get_count up to the unlock.
Counted(w) ==
    /\ task[w].at = "loaded"
    /\ LET k == task[w].key
           old == EntryOrInsert(k, task[w].value)
           new == [Refresh(old) EXCEPT !.count = @ + IF task[w].op = "incr" THEN 1 ELSE 0]
       IN  /\ counters' = [counters EXCEPT ![k] = new]
           /\ \/ /\ task[w].op = "incr"
                 /\ hits' = [hits EXCEPT ![k][now] = @ + 1]
                 /\ mine' = [mine EXCEPT ![k][now] = @ + 1]
              \/ task[w].op = "get" /\ UNCHANGED <<hits, mine>>
           /\ task' = [task EXCEPT ![w] =
                          [@ EXCEPT !.at = IF Due(old) THEN "save" ELSE "done",
                                    !.value = BarelyGet(new)]]
    /\ UNCHANGED <<rowVars, engine, stored, flushed>>

\* save_counter: the insert of sled, the two transactions of IndexedDB.
Saves(w) ==
    /\ task[w].at = "save"
    /\ \/ /\ engine = "kv"
          /\ rows' = rows \cup {task[w].key}
          /\ stored' = [stored EXCEPT ![task[w].key] = task[w].value]
          /\ task' = [task EXCEPT ![w].at = "done"]
          /\ UNCHANGED <<visited, putting, now>>
       \/ engine = "idb" /\ Prune(w, task[w].key) /\ UNCHANGED <<stored, task>>
       \/ /\ engine = "idb" /\ Put(w)
          /\ stored' = [stored EXCEPT ![task[w].key] = task[w].value]
          /\ task' = [task EXCEPT ![w].at = "done"]
    /\ UNCHANGED <<engine, flushed, counters, hits, mine>>

\* A save that fails is logged.
SaveFails(w) ==
    /\ task[w].at = "save"
    /\ putting' = [putting EXCEPT ![w] = NoKey]
    /\ task' = [task EXCEPT ![w].at = "done"]
    /\ UNCHANGED <<rows, visited, now, engine, stored, flushed, counters, hits, mine>>

\* The caller has its answer.
Returns(w) ==
    /\ task[w].at = "done"
    /\ task' = [task EXCEPT ![w] = Idle]
    /\ UNCHANGED <<rowVars, engine, stored, flushed, counters, hits, mine>>

\* sled writes to the disk when it likes.
Flush ==
    /\ engine = "kv"
    /\ flushed' = [rows |-> rows, data |-> stored]
    /\ UNCHANGED <<rowVars, engine, stored, counters, task, hits, mine>>

Tick ==
    /\ now < MaxNow /\ RowTick
    /\ UNCHANGED <<engine, stored, flushed, counters, task, hits, mine>>

\* The process ends with the counters and every task, and starts again with
\* what the storage kept.
Restart ==
    /\ counters' = [k \in Key |-> NoCounter]
    /\ mine' = [k \in Key |-> [t \in Times |-> 0]]
    /\ task' = [w \in Writer |-> Idle]
    /\ putting' = [w \in Writer |-> NoKey]
    /\ \/ engine = "idb" /\ UNCHANGED <<rows, stored>>
       \/ engine = "kv" /\ rows' = flushed.rows /\ stored' = flushed.data
    /\ UNCHANGED <<visited, now, engine, flushed, hits>>

Next ==
    \/ \E w \in Writer :
        \/ \E k \in Key : \/ Calls < MaxCalls /\ Loads(w, k, "incr")
                          \/ Loads(w, k, "get")
        \/ Counted(w) \/ Saves(w) \/ SaveFails(w) \/ Returns(w)
    \/ Flush \/ Tick \/ Restart

Spec == Init /\ [][Next]_measureVars

-----------------------------------------------------------------------------
TypeOK ==
    /\ engine \in {"kv", "idb"}
    /\ stored \in [Key -> Nat]
    /\ flushed \in [rows : SUBSET Key, data : [Key -> Nat]]
    /\ counters \in [Key -> Counter]
    /\ task \in [Writer -> [at : {"idle", "loaded", "save", "done"}, op : {"incr", "get"},
                            key : Key \cup {NoKey}, value : Nat]]
    /\ \A w \in Writer : task[w].at # "idle" => task[w].key \in Key

Stretch(t) == {s \in Times : t <= s /\ s < t + Period}

\* No call of incr of this process gets lost or counts twice, whoever created,
\* looked up or refreshed the counter between its steps: the count is the
\* number of calls since the period began.
CountsEveryCall == \A k \in Key :
    counters[k] # NoCounter =>
        counters[k].count = HitsAt(mine[k], counters[k].previous .. now)

\* get_count may answer for an old period or for a part of one, but it never
\* answers more than some period really saw, over restarts too.
NeverOverstates == \A w \in Writer :
    task[w].at \in {"save", "done"} =>
        \E t \in Times : task[w].value <= HitsAt(hits[task[w].key], Stretch(t))

\* IndexedDB keeps its limit of rows and one more for every further task.
RowsKept == engine = "idb" => RowBound
=============================================================================
