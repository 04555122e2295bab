--------------------------- MODULE MCChirpRegistry ---------------------------
(* Two stratum threads that record shares of one miner.                      *)
EXTENDS ChirpRegistry, TLC

CONSTANTS t1, t2, a1

Symm == Permutations({t1, t2})
=============================================================================
