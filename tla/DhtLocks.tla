------------------------------ MODULE DhtLocks ------------------------------
(***************************************************************************)
(* The mutexes of PeerRing (dht/chord.rs).  The operations PeerRing does   *)
(* as one action are here the sequences of locks they take.  The listener  *)
(* and the stabilizer share one task (bin/rings.rs joins processor.listen  *)
(* with the service); the JSON-RPC handlers of that service run on other   *)
(* worker threads of the runtime and send messages, which looks up the     *)
(* next hop (send_message, find_successor).                                *)
(***************************************************************************)
EXTENDS Integers, Sequences

CONSTANTS Listener,  \* the task that listens and stabilizes
          Services,  \* threads that serve requests
          Nobody     \* holder of a free mutex

Thread == {Listener} \cup Services

Mutex == {"finger", "successor", "predecessor"}

\* The locks each operation takes, in order; a group is held until its last
\* lock is taken and used, then all its guards are dropped.
LocksOf(op) ==
    CASE op = "join"           -> <<<<"finger", "successor">>>>
      [] op = "remove"         -> <<<<"finger", "successor", "predecessor">>>>
      [] op = "find_successor" -> <<<<"successor", "finger">>>>
      [] op = "notify"         -> <<<<"predecessor">>>>
      [] op = "update"         -> <<<<"successor">>>>
      [] op = "fix_fingers"    -> <<<<"finger">>, <<"successor", "finger">>, <<"finger">>>>

\* What the two kinds of threads call.
OpsOf(t) ==
    IF t = Listener
    THEN {"join", "remove", "find_successor", "notify", "update", "fix_fingers"}
    ELSE {"find_successor"}

VARIABLES holder,  \* who holds each mutex
          todo     \* the groups of locks each thread has yet to take

vars == <<holder, todo>>

Init ==
    /\ holder = [m \in Mutex |-> Nobody]
    /\ todo = [t \in Thread |-> <<>>]

Held(t) == {m \in Mutex : holder[m] = t}

\* The next lock t asks for, of the group it is at: the groups hold their
\* locks in order, so it is the first one t does not hold.
Wanted(t) ==
    LET group == Head(todo[t])
        i == CHOOSE k \in 1..Len(group) :
                group[k] \notin Held(t) /\ \A j \in 1..(k - 1) : group[j] \in Held(t)
    IN  group[i]

HasAll(t) == \A k \in 1..Len(Head(todo[t])) : Head(todo[t])[k] \in Held(t)

Waiting(t) == todo[t] # <<>> /\ ~HasAll(t)

Call(t) ==
    /\ todo[t] = <<>>
    /\ \E op \in OpsOf(t) : todo' = [todo EXCEPT ![t] = LocksOf(op)]
    /\ UNCHANGED holder

\* Mutex::lock blocks the thread until the mutex is free.
Acquire(t) ==
    /\ Waiting(t) /\ holder[Wanted(t)] = Nobody
    /\ holder' = [holder EXCEPT ![Wanted(t)] = t]
    /\ UNCHANGED todo

\* The guards go out of scope together.
Release(t) ==
    /\ todo[t] # <<>> /\ HasAll(t)
    /\ holder' = [m \in Mutex |-> IF m \in Held(t) THEN Nobody ELSE holder[m]]
    /\ todo' = [todo EXCEPT ![t] = Tail(@)]

Next == \E t \in Thread : Call(t) \/ Acquire(t) \/ Release(t)

\* The threads run, and a mutex that is free again and again is obtained.
Spec ==
    /\ Init /\ [][Next]_vars
    /\ \A t \in Thread : SF_vars(Acquire(t)) /\ WF_vars(Release(t))

-----------------------------------------------------------------------------
\* "Lock and return MutexGuard of successor sequence" (dht/chord.rs:160, on
\* lock_successor): the call returns.
LockReturns == \A t \in Thread : Waiting(t) ~> ~Waiting(t)
=============================================================================
