----------------------------- MODULE MCPayments -----------------------------
(* Instances of Payments for TLC: see the cfg file for the sizes.           *)
EXTENDS Payments

Purchase(type, trial, priced, test) ==
    [type |-> type, trial |-> trial, priced |-> priced, test |-> test]

\* A paid trial plan, a paid renewal, a change onto a plan with no price.
FewOffers == {Purchase("NEW", TRUE, TRUE, FALSE), Purchase("RENEW", FALSE, TRUE, FALSE),
              Purchase("CHANGE", FALSE, FALSE, FALSE)}

\* A running regular plan.
FewHeld   == {[live |-> TRUE, expire |-> 2, trial |-> FALSE]}
=============================================================================
