------------------------------ MODULE MCNudges ------------------------------
(* Instances of Nudges for TLC: see the cfg files for the sizes.            *)
EXTENDS Nudges

MCSteps    == {"nudge_1", "nudge_2", "c_3h", "e_3d"}
MCChain    == [t \in MCSteps |-> CASE t = "c_3h" -> "C" [] t = "e_3d" -> "E" [] OTHER -> "A"]
MCDelay    == [t \in MCSteps |-> IF t = "nudge_2" THEN 2 ELSE 1]
MCDailyCap == [t \in Tables |-> IF t = "nudges" THEN 4 ELSE 1]
=============================================================================
