------------------------------- MODULE FifoQueue -------------------------------
(***************************************************************************)
(* What a work queue of the gateway promises its callers: items that were  *)
(* accepted are delivered once each, in the order of acceptance, and at    *)
(* most Capacity of them are waiting.  Refusing an item changes nothing.   *)
(***************************************************************************)
EXTENDS Naturals, Sequences

CONSTANTS Item, Capacity

VARIABLES
  pending,     \* accepted and not yet delivered
  delivered    \* delivered, in order

fifoVars == <<pending, delivered>>

Init == pending = << >> /\ delivered = << >>

Accept(item) ==
  /\ Len(pending) < Capacity
  /\ pending' = Append(pending, item)
  /\ UNCHANGED delivered

Deliver ==
  /\ pending # << >>
  /\ delivered' = Append(delivered, Head(pending))
  /\ pending' = Tail(pending)

Next == (\E item \in Item : Accept(item)) \/ Deliver

Spec == Init /\ [][Next]_fifoVars

(* The consumer never stops while something is waiting. *)
FairSpec == Spec /\ WF_fifoVars(Deliver)
=============================================================================
