---------------------------- MODULE MCSubmitBlock ----------------------------
(* Three threads that find a block each, so that two of them wait for the   *)
(* slot at the same time, or one that finds two, the second while the first *)
(* may still be in the slot; and one extra node.                            *)
EXTENDS SubmitBlock

CONSTANTS w1, w2, w3

(* The submit thread sleeps when all blocks are served. *)
Rest == /\ \A w \in Workers : state[w] = "idle"
        /\ Cardinality(Found) = MaxFound
        /\ "submitter" \in waiting /\ ~ submit_block_triggered
        /\ UNCHANGED vars

MCSpec == Init /\ [][Next \/ Rest]_vars /\ Fairness
=============================================================================
