SPECIFICATION Spec
CONSTANTS
    Accounts = {1, 2, 3}
    MaxRow = 5
    Payments = {p1}
    Ops = {o1, o2}
    Kinds = {"merge", "buy", "request", "commission", "attach"}
    Starts <- Few
    MaxBegun = 3
    Faults = {"refused", "crash"}
    MaxFaults = 1
    None = None
CHECK_DEADLOCK FALSE
INVARIANTS
    AccountsStand
    RowsFollow
PROPERTIES
    KeptThroughMerge
