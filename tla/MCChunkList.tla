---------------------------- MODULE MCChunkList -----------------------------
(* A message of three chunks and one of two that expires sooner, each chunk  *)
(* arriving up to twice, beside one from the future and one that lives too   *)
(* long.                                                                     *)
EXTENDS ChunkList, TLC

CONSTANTS long, short, early, stale

MCId == {long, short, early, stale}
MCTotal == (long :> 3 @@ short :> 2 @@ early :> 1 @@ stale :> 1)
MCCreated == (long :> 0 @@ short :> 0 @@ early :> 2 @@ stale :> 0)
MCTtl == (long :> 2 @@ short :> 1 @@ early :> 1 @@ stale :> 4)
MCCopies == (long :> 2 @@ short :> 2 @@ early :> 1 @@ stale :> 1)
=============================================================================
