CONSTANTS
    s1 = s1
    s2 = s2
    k1 = k1
    k2 = k2
    Instances = {s1, s2}
    Calls = {k1, k2}
    Limit = 2
    Window = 2
    KeyLife = 2
    NoServer = NoServer
    starter = starter
    scale = scale
    Plans = {starter, scale}
    Growth = starter
    NoPlan = NoPlan
    Addresses <- MCAddresses
    MaxPayments = 2
SPECIFICATION BrowserSpec
INVARIANTS
    GateIsSound
    WizardIsSound
PROPERTIES
    BrowserUnlocks
CHECK_DEADLOCK FALSE
