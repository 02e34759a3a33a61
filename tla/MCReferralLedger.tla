-------------------------- MODULE MCReferralLedger --------------------------
(* Instances of ReferralLedger for TLC: see the cfg files for the sizes.    *)
EXTENDS ReferralLedger, TLC

\* The requests are all of one user: requests of two users share nothing.
Own == LET u == CHOOSE u \in Users : TRUE IN [s \in Sessions |-> u]

OneCommission == {5}

\* Past the first of two requests or two operators that overtook the other, little
\* is claimed of the one user there is here, and the run looks no further.
Undisputed == raced = {} /\ overruled = {}

Symmetric == Permutations(Payments) \cup Permutations(Payouts) \cup Permutations(Operators)
               \cup Permutations(Wallets) \cup Permutations(Sessions)
=============================================================================
