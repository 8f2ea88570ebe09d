----------------------------- MODULE MCPeerRing -----------------------------
(* Values for the constants of PeerRing: a ring of 2^4 points, whose node  *)
(* sits past the middle so that its peers wrap around zero.                *)
EXTENDS PeerRing

MCPow == [k \in 0..Bits |-> 2^k]
MCPeers == {6, 8, 12, 1, 2}
=============================================================================
