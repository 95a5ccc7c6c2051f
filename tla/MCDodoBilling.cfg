CONSTANTS
    h1 = h1
    h2 = h2
    r1 = r1
    c1 = c1
    p1 = p1
    LastEvent = 2
    StatusOf <- MCStatusOf
    PaymentOf <- MCPaymentOf
    Payments = {p1}
    Subscribing = {1}
    Naming = {1}
    Plain = {1}
    Handlers = {h1, h2}
    Reconcilers = {}
    Checkouts = {}
    MaxReplays = 2
SYMMETRY HandlerSymmetry
SPECIFICATION BillingSpec
INVARIANTS
    AnsweredIsApplied
    ReplayedIsApplied
    AppliedOnceUnlessRaced
