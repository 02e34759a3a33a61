----------------------------- MODULE MCCheckout -----------------------------
(* Instances of Checkout for TLC: see the cfg files for the sizes.          *)
EXTENDS Checkout, TLC

\* One plan has a single term, the others have all.
OneAndBoth ==
    [p \in Plans |-> IF p = CHOOSE q \in Plans : TRUE THEN {CHOOSE m \in Terms : TRUE} ELSE Terms]

Symmetric == Permutations(Taps) \cup Permutations(Methods)
=============================================================================
