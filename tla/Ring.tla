-------------------------------- MODULE Ring --------------------------------
(***************************************************************************)
(* The identifier ring of rings-core (dht/did.rs): a Did is a point of the *)
(* finite ring of 2^160 points, and nodes compare dids by their "bias",    *)
(* the clockwise distance from a reference did.                            *)
(*                                                                         *)
(* The module is parameterised by the number of bits.  Pow is the table of *)
(* the powers of two 2^0 .. 2^Bits; it is a constant, constrained by       *)
(* RingAssumption, so that nothing below needs exponentiation.             *)
(***************************************************************************)
EXTENDS Integers

CONSTANTS Bits,  \* number of bits of a did, and of slots of a finger table
          Pow    \* Pow[k] = 2^k for k in 0..Bits

ASSUME RingAssumption ==
    /\ Bits \in Nat \ {0}
    /\ Pow \in [0..Bits -> Nat \ {0}]
    /\ Pow[0] = 1
    /\ \A k \in 0..(Bits - 1) : Pow[k + 1] = 2 * Pow[k]

RingSize == Pow[Bits]

Did == 0..(RingSize - 1)

\* Did - Did is addition of the opposite, modulo the ring size.
Minus(a, b) == IF b <= a THEN a - b ELSE (a + RingSize) - b

\* Did + 2^k, modulo the ring size.
Plus(a, b) == IF a + b < RingSize THEN a + b ELSE (a + b) - RingSize

\* The clockwise distance from n to d.  BiasId orders dids by it.
Bias(n, d) == Minus(d, n)
=============================================================================
