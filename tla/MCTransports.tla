---------------------------- MODULE MCTransports ----------------------------
(* A daemon or a browser, and two transports.                                *)
EXTENDS Transports, TLC

CONSTANTS t1, t2

MCTransport == {t1, t2}

Symmetry == Permutations(MCTransport)
=============================================================================
