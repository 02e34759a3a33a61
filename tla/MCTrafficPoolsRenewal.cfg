SPECIFICATION Spec
CONSTANTS
    Plans <- AllPlans
    Held = {"small"}
    Sold = {"small"}
    Quota <- Quotas
    Strategy <- Resets
    Grants <- Pooled
    MaxRows = 2
    None = None
    Faults = {}
    MaxFaults = 0
    MaxOps = 1
    MaxMonth = 2
    MaxUse = 1
CHECK_DEADLOCK FALSE
PROPERTIES
    RenewalStartsOver
