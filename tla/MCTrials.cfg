SPECIFICATION Spec
CONSTANTS
    Requests = {r1, r2}
    Broadcasts = {b1, b2}
    Granted = 1
    Bonus = 1
    Term = 2
    MaxTime = 3
    MaxBegun = 6
    Faults = {"refused", "unanswered", "crash", "lost", "late", "again"}
    MaxFaults = 1
    None = None
SYMMETRY Symmetric
CHECK_DEADLOCK FALSE
INVARIANTS
    GrantedOnce
    SettledWhenQuiet
PROPERTIES
    RestartsOnce
