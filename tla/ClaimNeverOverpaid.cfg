CONSTANTS
    i1 = i1
    w1 = w1
    w2 = w2
    a1 = a1
    a2 = a2
    a3 = a3
    r1 = r1
    Treasury = Treasury
    None = None
    Invoices = {i1}
    Payees = {w1, w2}
    Attempts = {a1, a2, a3}
    Signatures = {a1, a2, a3}
    Reviewers = {r1}
    Amount <- MCAmount
    Funds = 2
    MaxU64 = 2
SPECIFICATION Spec
SYMMETRY AttemptSymmetry
INVARIANTS
    NeverOverpaid
CHECK_DEADLOCK FALSE
