SPECIFICATION Spec
CONSTANTS
    None = None
    Price = 2
    PayoutMin = 2
    StarsMin = 2
    StarsRate = 2
    Users = {u1}
    Payments = {k1}
    Payouts = {p1, p2}
    Wallets = {x1, x2}
    Sessions = {s1, s2}
    Owner <- Own
    Operators = {o1, o2}
    Commissions <- OneCommission
CONSTRAINT Undisputed
SYMMETRY Symmetric
CHECK_DEADLOCK FALSE
INVARIANTS
    SingleOpenPayout
    NoOverdraftUnlessTorn
    PanelNeverBehind
    PaidToTheWalletShown
PROPERTIES
    PaidIsFinal
    SpendsExtend
