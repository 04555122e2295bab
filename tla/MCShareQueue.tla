----------------------------- MODULE MCShareQueue -----------------------------
(* Two stratum threads and one consumer; a buffer holds two items, so that  *)
(* it overflows, and the race loop gives up after two lost races.           *)
EXTENDS ShareQueue

CONSTANTS p1, p2

(* All items are in and handled: the only place where the queue may rest. *)
Rest == /\ \A p \in Producers : pc[p] = "idle" /\ calls[p] = MaxItems
        /\ pc["consumer"] = "idle"
        /\ UNCHANGED vars

MCSpec == Init /\ [][Next \/ Rest]_vars /\ Fairness
=============================================================================
