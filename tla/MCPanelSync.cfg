SPECIFICATION SyncSpec
CONSTANTS
    Workers = {w1, w2}
    Kinds <- AllKinds
    MaxPanel = 3
    MaxRows = 3
    MaxTerm = 2
    MaxBegun = 2
    MaxHand = 1
    Mishaps = {"refused", "unanswered", "crash", "lost", "late", "again"}
    MaxMishaps = 1
CHECK_DEADLOCK FALSE
INVARIANTS
    InStepWhenQuiet
PROPERTIES
    SyncKeeps
    ErasureFreesTheName
