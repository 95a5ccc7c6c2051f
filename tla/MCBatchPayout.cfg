CONSTANTS
    i1 = i1
    i2 = i2
    w1 = w1
    a1 = a1
    r1 = r1
    b1 = b1
    b2 = b2
    Treasury = Treasury
    None = None
    Invoices = {i1, i2}
    Payees = {w1}
    Attempts = {a1}
    Signatures = {a1, b1, b2}
    Reviewers = {r1}
    Batches = {b1, b2}
    BatchOf <- MCBatchOf
    WalletOf <- MCWalletOf
    Amount <- MCAmount
    Funds = 3
    MaxU64 = 3
SPECIFICATION FairBatchSpec
INVARIANTS
    BatchBooks
    ChannelsExclude
PROPERTIES
    BatchRowIsResolved
CHECK_DEADLOCK FALSE
