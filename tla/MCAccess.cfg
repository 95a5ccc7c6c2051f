CONSTANTS
    u1 = u1
    u2 = u2
    t1 = t1
    t2 = t2
    r1 = r1
    r2 = r2
    m1 = m1
    m2 = m2
    c1 = c1
    p1 = p1
    p2 = p2
    treasury = treasury
    con = con
    fee = fee
    NotAWallet = NotAWallet
    Malformed = Malformed
    Holders = {treasury, con, fee}
    Decimals = 2
    MaxRecipients = 3
    Payers = {p1, p2}
    Orders <- MCOrders
    Opening <- MCOpening
    env = env
    Nowhere = Nowhere
    Users = {u1, u2}
    ClaimsOf <- MCClaimsOf
    TokenOf <- MCTokenOf
    Tenants = {t1, t2}
    MemberRoles <- MCMemberRoles
    Wallets = {env}
    EnvWallet = env
    MaxPartners = 2
    Requests = {r1, r2}
    Owners = {t1, t2}
    Scopes <- MCScopes
    DefaultScopes <- MCDefaultScopes
    Asked <- MCAsked
    MaxKeys = 3
    Managers = {m1, m2}
    Callers = {c1}
SYMMETRY AccessSymmetry
SPECIFICATION AccessSpec
INVARIANTS
    TenantsAreApart
    LineagesAreSound
    TransfersAreTrue
CHECK_DEADLOCK FALSE
