--------------------------- MODULE MCTrafficPools ---------------------------
(* Instances of TrafficPools for TLC: see the cfg files for the sizes.      *)
EXTENDS TrafficPools

\* A plan without the pool, one that grants it unmetered, two quotas for the term,
\* and a snapshot of the time when quotas were monthly.
AllPlans == {"none", "free", "small", "big", "monthly"}
NewPlans == {"none", "free", "big"}
Pooled   == AllPlans \ {"none"}
Quotas   == [p \in AllPlans |-> CASE p = "big" -> 2
                                  [] p \in {"small", "monthly"} -> 1
                                  [] OTHER -> 0]
Resets   == [p \in AllPlans |-> IF p = "monthly" THEN "MONTH" ELSE "NO_RESET"]

\* Past the write of a pass during an operation, or the reverse, nothing but types is claimed.
Uncrossed == "crossed" \notin marks
=============================================================================
