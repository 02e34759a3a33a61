---------------------------- MODULE MCBroadcast ----------------------------
(* Instances of Broadcast for TLC: see the cfg files for the sizes.         *)
EXTENDS Broadcast, TLC

Symmetric == Permutations(Users) \cup Permutations(Workers)
=============================================================================
