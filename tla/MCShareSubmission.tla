------------------------- MODULE MCShareSubmission -------------------------
(* Two places for two jobs: SHA256d work, of the pool or not, and BLAKE2b  *)
(* work of the gateway alone, in which every miner has a coinbase of its own. *)
EXTENDS ShareSubmission

MixedKinds == [blake2b : {FALSE}, datum : BOOLEAN]
              \cup [blake2b : {TRUE}, datum : {FALSE}]

(* The coinbaser changes the coinbases that all miners share, and leaves the
   subsidy-only one and those of the miners.                                *)
SharedChanges == {{"plain"}, {"shared"}}

(* Bounds: the coinbaser makes the coinbases of one job again, and is late: work
   of the job has been sent before.  (When it is early, all work of the job is
   made from the new ones.)  The pool raises its minimum only.              *)
OneLateCoinbaser ==
  /\ Cardinality({j \in 1..Len(jobs') : jobs'[j].remade}) <= 1
  /\ \A j \in 1..Len(jobs) : jobs'[j].remade => \E w \in works : w.job = j

MCSpec == ClientInit
          /\ [][ClientNext /\ OneLateCoinbaser /\ poolMin' >= poolMin]_clientVars
=============================================================================
