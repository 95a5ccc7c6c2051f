CONSTANTS
    e1 = e1
    e2 = e2
    w1 = w1
    w2 = w2
    w3 = w3
    Escrows = {e1, e2}
    Wallets = {w1, w2, w3}
    Authority <- MCAuthority
    Amounts = {1, 2}
    Supply = 5
    MaxU64 = 5
SPECIFICATION EscrowSpec
INVARIANTS
    VaultBacked
    EscrowLedger
    AffordableDepositFits
PROPERTIES
    ReleaseIsFinal
    VaultPaysOnlyItsRelease
CHECK_DEADLOCK FALSE
