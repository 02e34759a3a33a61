----------------------------- MODULE Fulfilment -----------------------------
(***************************************************************************)
(* What the paid path owes its customer, without workers, queue or panel:  *)
(* a payment starts open, the shop comes to owe its term, and then either  *)
(* delivers it, once and for good, or records a failure a retry may turn   *)
(* into a debt again.                                                      *)
(***************************************************************************)

CONSTANT Payments
VARIABLE phase

Init == phase = [p \in Payments |-> "open"]

Owe(p)     == phase[p] \in {"open", "failed"} /\ phase' = [phase EXCEPT ![p] = "owed"]
Deliver(p) == phase[p] = "owed" /\ phase' = [phase EXCEPT ![p] = "delivered"]
Fail(p)    == phase[p] = "owed" /\ phase' = [phase EXCEPT ![p] = "failed"]

Next == \E p \in Payments : Owe(p) \/ Deliver(p) \/ Fail(p)

Spec == Init /\ [][Next]_phase
=============================================================================
