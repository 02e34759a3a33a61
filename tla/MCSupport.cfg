SPECIFICATION Spec
CONSTANTS
    Requests = {r1, r2}
    MaxMessages = 3
    MaxCloses = 1
    MaxConnects = 2
    Page = 1
    Faults = {"create", "delete", "relay", "publish", "crash"}
    MaxFaults = 1
CONSTRAINT Pairwise
SYMMETRY Symmetric
CHECK_DEADLOCK FALSE
INVARIANTS
    OperatorsSeeAll
    SiteFollows
PROPERTIES
    HeardWhileOpen
