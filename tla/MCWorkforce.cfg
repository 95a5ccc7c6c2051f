CONSTANTS
    co1 = co1
    co2 = co2
    e1 = e1
    e1typed = e1typed
    w1 = w1
    malformed = malformed
    j1 = j1
    j2 = j2
    wr1 = wr1
    wr2 = wr2
    Nowhere = Nowhere
    NoWallet = NoWallet
    Sessions <- MCSessions
    Companies = {co1, co2}
    Emails = {e1, e1typed}
    Normal <- MCNormal
    WalletInputs = {w1, malformed, NoWallet}
    WellFormed = {w1}
    KycVerdicts = {"VERIFIED"}
    Forms <- MCForms
    MaxContractors = 2
    MaxInvoices = 2
    Jobs = {j1, j2}
    MaxJobs = 4
    Payers = {co1, co2}
    Organized = {co1}
    Amounts = {1, 2, 4, 5}
    LargePayout = 2
    Suspicious = 5
    SingleLimit = 4
    MaxPayouts = 2
    PolicyTypes = {e1}
    Writers = {wr1, wr2}
    MaxPolicies = 2
    Quantities = {0, 1}
    Prices = {25}
    NoPrice = NoPrice
    Days = {1, 2}
    MaxLines = 2
    MaxSubmissions = 2
SYMMETRY WorkforceSymmetry
SPECIFICATION PartSpec
INVARIANTS
    RowsAreSound
    ListingsAreSound
    ComplianceIsSound
    FormIsSound
CHECK_DEADLOCK FALSE
