SPECIFICATION FairSpec
CONSTANTS
    Users = {u1}
    Payments = {p1, p2}
    Workers = {w1, w2}
    None = None
    Offers <- FewOffers
    Held <- FewHeld
    MaxCrashes = 1
CHECK_DEADLOCK FALSE
INVARIANTS
    ProvisionedAtMostOnce
    DeliveredStaysCompleted
    CurrentRowIsLive
    PanelAgreesWhenQuiet
    CommissionOnlyIfProvisioned
PROPERTIES
    Fulfils
    CompletedIsResolved
    TermStacks
