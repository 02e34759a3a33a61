------------------------------ MODULE MCTrials ------------------------------
(* Instances of Trials for TLC: see the cfg files for the sizes.            *)
EXTENDS Trials, TLC

Symmetric == Permutations(Requests) \cup Permutations(Broadcasts)
=============================================================================
