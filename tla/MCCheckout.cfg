SPECIFICATION Spec
CONSTANTS
    Plans = {p1, p2}
    Trial = trial
    Terms = {t1, t2}
    TermsOf <- OneAndBoth
    Drafts = {{t1, t2}}
    Held = {p2}
    Methods = {m1, m2}
    Taps = {a1}
    MaxChanges = 1
    MaxVisits = 1
    MaxInvoices = 2
    MaxRefusals = 1
    None = None
SYMMETRY Symmetric
CHECK_DEADLOCK FALSE
INVARIANTS
    PaysForTheChoice
    InvoicesAreSound
