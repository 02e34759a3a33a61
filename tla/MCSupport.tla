----------------------------- MODULE MCSupport -----------------------------
(* Instances of Support for TLC: see the cfg files for the sizes.           *)
EXTENDS Support, TLC

Symmetric == Permutations(Requests)

\* Of a closing, a fault and a second stream, a behaviour has two at most.
Pairwise ==
    begun.closes + Cardinality(faults) + (IF begun.connects > 1 THEN 1 ELSE 0) <= 2
=============================================================================
