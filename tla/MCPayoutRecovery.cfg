CONSTANTS
    i1 = i1
    w1 = w1
    a1 = a1
    a2 = a2
    s1 = s1
    k1 = k1
    f1 = f1
    c1 = c1
    c2 = c2
    Treasury = Treasury
    None = None
    Invoices = {i1}
    Payees = {w1}
    Attempts = {a1, a2}
    Signatures = {a1, a2, f1}
    Reviewers = {}
    Sweeps = {s1}
    Workers = {k1}
    Rescues = {f1}
    MaxAttempts = 2
    Amount <- MCAmount
    Funds = 2
    MaxU64 = 2
    Bills = {i1}
    Clicks = {c1, c2}
    NoInvoice = NoInvoice
    Filters = {i1, w1}
    All = i1
    MaxPages = 2
    MaxFetches = 3
    Servers = {i1, w1}
    Getters = {c1, c2}
    CacheLife = 1
    MaxWait = 1
    MaxDay = 2
SPECIFICATION PartSpec
INVARIANTS
    RecoveryBooks
    ConfirmedIsNotRetried
    DashboardIsTrue
    PortalIsTrue
PROPERTIES
    RatesAreSound
CHECK_DEADLOCK FALSE
