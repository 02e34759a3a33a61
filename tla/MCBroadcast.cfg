SPECIFICATION FairSpec
CONSTANTS
    Users = {u1, u2}
    Workers = {w1, w2}
    BatchSize = 1
    MaxDeliveries = 2
    MaxDeletes = 1
    Faults = {"send", "refuse", "crash", "late", "undispatched"}
    MaxFaults = 1
CHECK_DEADLOCK FALSE
INVARIANTS
    RowsAgree
PROPERTIES
    TasksEnd
