---------------------------- MODULE MCPromocodes ----------------------------
(* Instances of Promocodes for TLC: see the cfg files for the sizes.        *)
EXTENDS Promocodes, TLC

Symmetric == Permutations(Users) \cup Permutations(Requests)
=============================================================================
