----------------------------- MODULE MCPoolShares -----------------------------
(* Two numbers and four places: the third job takes the number of the first,  *)
(* and the fifth its number and its place.                                    *)
EXTENDS PoolShares

(* Old and new header versions; templates with and without transactions. *)
SmallKinds ==
  {[blake2b |-> TRUE, txns |-> 1], [blake2b |-> FALSE, txns |-> 0]}
=============================================================================
