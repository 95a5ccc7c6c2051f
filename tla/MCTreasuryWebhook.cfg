CONSTANTS
    c1 = c1
    c2 = c2
    wa = wa
    wb = wb
    s1 = s1
    s2 = s2
    Outside = Outside
    Companies = {c1, c2}
    Wallets = {wa, wb}
    WalletOf <- MCWalletOf
    Sigs = {s1, s2}
    TransfersOf <- MCTransfersOf
    PayerOf <- MCPayerOf
    Named = {s1}
    h1 = h1
    v1 = v1
    Handlers = {h1}
    Viewers = {v1}
    MaxDeliveries <- MCMaxDeliveries
    MaxReplays = 2
    MaxBalance = 2
SPECIFICATION FairTreasurySpec
INVARIANTS
    LedgerIsTrue
    UnguessedBalanceWasReal
PROPERTIES
    ConfirmedByItsTransfer
    BalanceCatchesUp
CHECK_DEADLOCK FALSE
