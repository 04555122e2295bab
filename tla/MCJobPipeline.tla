---------------------------- MODULE MCJobPipeline ----------------------------
(* Small instances of the job pipeline: a stratum thread with a client and a *)
(* second one that is created at any moment, the first thread alone, or two  *)
(* threads without clients.                                                  *)
EXTENDS JobPipeline

CONSTANTS w1, w2

First == {w1}
Nobody == {}
OnlyFirst == {<<w1, 1>>}
=============================================================================
