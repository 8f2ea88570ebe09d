----------------------------- MODULE MCChordNet -----------------------------
(* Three nodes on a ring of 2^3 points.  The ring forms from two links; or   *)
(* it starts formed, every node linked with every other, and is disturbed.   *)
EXTENDS ChordNet

MCPow == [k \in 0..Bits |-> 2^k]
MCNode == {0, 1, 4}
MCSeed == {{0, 4}, {4, 1}}

Others(n) == Node \ {n}

\* What Dial of every link, the joins and one round of notifications leave.
FormedInit ==
    /\ finger = [n \in Node |-> FoldSet(LAMBDA d, F : FingerJoin(n, F, d), NoFingers, Others(n))]
    /\ fixIndex = [n \in Node |-> 0]
    /\ successors = [n \in Node |-> Others(n)]
    /\ predecessor = [n \in Node |-> SuccessorMax(n, Others(n))]
    /\ transport = [n \in Node |-> Others(n)]
    /\ up = {l \in SUBSET Node : Cardinality(l) = 2}
    /\ chan = [m \in Node |-> [n \in Node |-> <<>>]]
    /\ toDial = {}
    /\ alive = Node
    /\ faults = 0

\* The ring forms without faults, or is disturbed once it is formed.
MCInit == \/ Apart /\ faults = MaxFaults /\ rounds = 0
          \/ FormedInit /\ rounds = 1

MCSpec == MCInit /\ [][Next]_vars /\ Fairness
=============================================================================
