SPECIFICATION Spec
CONSTANTS
    Users = {u1, u2}
    Requests = {r1, r2}
    RewardTypes = {"DURATION", "SUBSCRIPTION", "PURCHASE_DISCOUNT"}
    Reward = 2
    Term = 3
    Limits = {0, 1}
    MaxInvoices = 2
    MaxBegun = 3
    MaxEdits = 2
    Faults = {"refused", "unanswered", "crash"}
    MaxFaults = 1
    None = None
SYMMETRY Symmetric
CHECK_DEADLOCK FALSE
INVARIANTS
    ActivationsAllowed
    EarnedIsKept
    DiscountSpentOnce
