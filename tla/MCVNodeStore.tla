---------------------------- MODULE MCVNodeStore ----------------------------
(* Three nodes on a ring of 2^3 points; key 2 belongs to node 1.  Node 4      *)
(* reaches node 1 through node 0, which runs in a page.                       *)
EXTENDS VNodeStore

MCPow == [k \in 0..Bits |-> 2^k]
MCNode == {0, 1, 4}
MCKey == {2}

Datum(k, x) == VirtualNode(k, "Data", <<Encoded(x)>>)

\* The operations on the topic, key 2: two come over the network, and two are
\* calls of the services of node 1, where it is stored.  Three of them bring one
\* element more than MaxLen.
MCOp == {Extend(4, Datum(2, "a")), Touch(0, Datum(2, "b")),
         Overwrite(1, Datum(2, "c")), JoinSubring(1, 2)}

ASSUME RingAtStart == Member = Node => OneHome /\ OneElement

\* Node 1 comes into the ring of 0 and 4.
MCFirst == {0, 4}
MCGrowOp == {Extend(0, Datum(2, "a"))}
=============================================================================
