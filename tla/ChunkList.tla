----------------------------- MODULE ChunkList ------------------------------
(***************************************************************************)
(* Reassembly of the messages a transport receives in pieces (chunk.rs):   *)
(* send_message cuts a message into chunks of TRANSPORT_MTU bytes, the     *)
(* on_message callback gives each arriving chunk to ChunkList::handle,     *)
(* which returns a message when its last chunk is in.                      *)
(*                                                                         *)
(* The chunks of several messages arrive interleaved, in any order, some   *)
(* twice and some never, while the clock runs.                             *)
(***************************************************************************)
EXTENDS Integers, Sequences, FiniteSets

CONSTANTS Id,         \* uuids of the messages
          Total,      \* Total[id]: number of chunks of the message
          Created,    \* Created[id]: ts_ms of its ChunkMeta
          Ttl,        \* Ttl[id]: ttl_ms of its ChunkMeta
          Copies,     \* bound: how many copies of each chunk of id may arrive
          MaxTtl,     \* MAX_TTL_MS
          Tolerance,  \* TS_OFFSET_TOLERANCE_MS
          LastTick    \* bound on the clock

ASSUME ChunkAssumption ==
    /\ Total \in [Id -> Nat \ {0}]
    /\ Created \in [Id -> Nat]
    /\ Ttl \in [Id -> Nat]
    /\ Copies \in [Id -> Nat]
    /\ MaxTtl \in Nat /\ Tolerance \in Nat /\ LastTick \in Nat

VARIABLES list,      \* ChunkList
          now,       \* get_epoch_ms
          arrived,   \* arrived[id][i]: copies of chunk i that have arrived
          delivered  \* delivered[id]: what handle returned of id, in order

vars == <<list, now, arrived, delivered>>

Chunk(id, i) == [id |-> id, index |-> i, total |-> Total[id]]

Init ==
    /\ list = <<>>
    /\ now = 0
    /\ arrived = [id \in Id |-> [i \in 0..(Total[id] - 1) |-> 0]]
    /\ delivered = [id \in Id |-> <<>>]

-----------------------------------------------------------------------------
(* The operations of ChunkList *)

\* The chunks at some places of s, by key; as they came where keys are equal
\* (sort_by_key is stable).
Arranged(s, at, key) ==
    LET Upto(k) == {j \in at : key[j] < key[k] \/ (key[j] = key[k] /\ j <= k)}
        Nth(r) == CHOOSE k \in at : Cardinality(Upto(k)) = r
    IN  [r \in 1..Cardinality(at) |-> s[Nth(r)]]

\* retain and filter keep the order.
Retained(s, at) == Arranged(s, at, [k \in DOMAIN s |-> 0])

\* The places dedup_by_key keeps: of neighbours with one index the first.
Dedup(s) == {k \in DOMAIN s : k > 1 => s[k].index # s[k - 1].index}

\* Mutants, each used to show that a property notices it.
FormalizeUnsorted(s) == Retained(s, Dedup(s))

Forever(c) == TRUE

Formalize(s) == Arranged(s, Dedup(s), [k \in DOMAIN s |-> s[k].index])

\* Mutant: the chunks of every message.
SearchAll(s, id) == Formalize(s)

Search(s, id) == Formalize(Retained(s, {k \in DOMAIN s : s[k].id = id}))

IsCompleted(s) ==
    LET f == Formalize(s) IN f # <<>> /\ Len(f) = f[1].total

\* get: the data of the message, here the chunks it is put together from;
\* <<>> stands for None.
Get(s, id) ==
    LET found == Search(s, id)
    IN  IF IsCompleted(found) THEN Formalize(found) ELSE <<>>

RemoveTx(s, id) == Retained(s, {k \in DOMAIN s : s[k].id # id})

Fresh(c) == Created[c.id] + Ttl[c.id] > now

RemoveExpired(s) == Retained(s, {k \in DOMAIN s : Fresh(s[k])})

\* handle refuses chunks that live too long or come from the future.
Acceptable(id) == Ttl[id] <= MaxTtl /\ Created[id] - Tolerance <= now

-----------------------------------------------------------------------------
Handle(id, i) ==
    LET pushed == RemoveExpired(Append(list, Chunk(id, i)))
        data == Get(pushed, id)
    IN  /\ arrived[id][i] < Copies[id]
        /\ arrived' = [arrived EXCEPT ![id][i] = @ + 1]
        /\ IF ~Acceptable(id)
           THEN UNCHANGED <<list, delivered>>
           ELSE IF data = <<>>
           THEN list' = pushed /\ UNCHANGED delivered
           ELSE /\ list' = RemoveTx(pushed, id)
                /\ delivered' = [delivered EXCEPT ![id] = Append(@, data)]
        /\ UNCHANGED now

Tick ==
    /\ now < LastTick
    /\ now' = now + 1
    /\ UNCHANGED <<list, arrived, delivered>>

Next ==
    \/ \E id \in Id : \E i \in 0..(Total[id] - 1) : Handle(id, i)
    \/ Tick

Spec == Init /\ [][Next]_vars
-----------------------------------------------------------------------------
(* Properties *)

\* What handle returns is the whole message: every chunk of it once, in
\* order, and no chunk of another message, however they arrived.
WithdrawnWhole ==
    \A id \in Id : \A k \in 1..Len(delivered[id]) :
        delivered[id][k] = [i \in 1..Total[id] |-> Chunk(id, i - 1)]

\* A message whose chunks are all in, and which has not expired, has been
\* returned: duplicates and foreign chunks between them never hide it.
\* (Clocks within the tolerance, a ttl within the limit.)
DeliveredInTime ==
    \A id \in Id :
        /\ Created[id] <= Tolerance /\ Ttl[id] <= MaxTtl
        /\ Created[id] + Ttl[id] > now
        /\ \A i \in 0..(Total[id] - 1) : arrived[id][i] > 0
        => delivered[id] # <<>>

\* Nothing is returned of a message that has expired, lives too long or
\* comes from the future.
DeliveredFresh ==
    [][\A id \in Id : delivered'[id] # delivered[id] =>
            /\ Created[id] + Ttl[id] > now
            /\ Created[id] <= now + Tolerance
            /\ Ttl[id] <= MaxTtl]_vars
=============================================================================
