CONSTANTS
    h1 = h1
    h2 = h2
    r1 = r1
    c1 = c1
    p1 = p1
    LastEvent = 2
    StatusOf <- MCStatusOf
    PaymentOf <- MCPaymentOf
    Payments = {p1}
    Subscribing = {1, 2}
    Naming = {1, 2}
    Plain = {1}
    Handlers = {h1}
    Reconcilers = {r1}
    Checkouts = {c1}
    MaxReplays = 1
SPECIFICATION FairBillingSpec
PROPERTIES
    ReconciliationRepairs
