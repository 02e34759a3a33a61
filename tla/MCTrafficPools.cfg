SPECIFICATION FairSpec
CONSTANTS
    Plans <- AllPlans
    Held = {"none", "small", "monthly"}
    Sold <- NewPlans
    Quota <- Quotas
    Strategy <- Resets
    Grants <- Pooled
    MaxRows = 2
    None = None
    Faults = {"update", "query", "drop", "crash"}
    MaxFaults = 1
    MaxOps = 2
    MaxMonth = 2
    MaxUse = 2
CHECK_DEADLOCK FALSE
CONSTRAINT
    Uncrossed
INVARIANTS
    SquadFollowsVerdict
PROPERTIES
    CountersAreFair
    CleanPassSettles
    QuotaDecides
