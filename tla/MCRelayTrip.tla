---------------------------- MODULE MCRelayTrip -----------------------------
(* Four nodes: circles of length 2, 3 and 4, with and without a tail, and   *)
(* one change of one table at any moment.                                  *)
EXTENDS RelayTrip

CONSTANTS a, b, c, d

MCNode == {a, b, c, d}
=============================================================================
