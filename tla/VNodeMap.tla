------------------------------ MODULE VNodeMap ------------------------------
(***************************************************************************)
(* What the storage of the ring promises: one value for every key, and     *)
(* every operation somebody asked for reads it once and writes it once     *)
(* (ChordStorage in dht/types.rs, ChordStorageInterface).  Nothing keeps   *)
(* two operations apart that are open at the same time: the later write    *)
(* takes no notice of the earlier one.                                     *)
(***************************************************************************)
EXTENDS VNode

CONSTANTS Key,  \* the dids of virtual nodes
          Op    \* the operations to come

VARIABLES value,   \* the virtual node of each key
          todo,    \* operations nobody has asked for yet
          waiting, \* operations asked for that have read nothing
          open     \* operations that have read a value and not written

mapVars == <<value, todo, waiting, open>>

MapInit ==
    /\ value = [k \in Key |-> NoVNode]
    /\ todo = Op
    /\ waiting = {} /\ open = {}

Ask(op) ==
    /\ op \in todo
    /\ todo' = todo \ {op}
    /\ waiting' = waiting \cup {op}
    /\ UNCHANGED <<value, open>>

\* Where the value is at hand an operation reads it as it is asked for.
Read(op) ==
    /\ op \in todo \cup waiting
    /\ todo' = todo \ {op} /\ waiting' = waiting \ {op}
    /\ open' = open \cup {[op |-> op, read |-> value[op.did]]}
    /\ UNCHANGED value

\* An operation that is an error writes nothing.
Write(o) ==
    /\ open' = open \ {o}
    /\ value' = [value EXCEPT ![o.op.did] = Written(@, o.read, o.op)]
    /\ UNCHANGED <<todo, waiting>>

MapNext ==
    \/ \E op \in Op : Ask(op) \/ Read(op)
    \/ \E o \in open : Write(o)

\* What was asked for is done in the end.
Done == <>[](waiting = {} /\ open = {})

MapSpec == MapInit /\ [][MapNext]_mapVars /\ Done
=============================================================================
