---------------------------- MODULE MCPoolSession ----------------------------
(* Two threads, so that a session starts while the last one is cleared up.    *)
EXTENDS PoolSession
=============================================================================
