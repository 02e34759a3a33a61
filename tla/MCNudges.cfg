SPECIFICATION FairSpec
CONSTANTS
    Audience = {u1, u2}
    Veterans = {u2}
    Unreachable = {u2}
    Sweeps = {s1, s2}
    Steps <- MCSteps
    Chain <- MCChain
    Delay <- MCDelay
    DailyCap <- MCDailyCap
    Gap = 1
    Day = 2
    Limit = 2
    MaxSweepTicks = 1
    MaxEvents = 2
    Faults = {"crash", "overlap", "race", "error", "unanswered"}
    MaxFaults = 1
CHECK_DEADLOCK FALSE
INVARIANTS
    SentAsPlanned
PROPERTIES
    SilentAfterConnect
    ArmedIsDelivered
