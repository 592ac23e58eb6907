SPECIFICATION Spec
CONSTANTS
    k1 = k1
    k2 = k2
    k3 = k3
    k4 = k4
    k5 = k5
    k6 = k6
    p1 = p1
    p2 = p2
    Requests = {r1, r2}
    Hooks = {h1}
    Keys = {k1, k2, k3, k4, k5, k6}
    Payments = {p1, p2}
    PaymentOf <- TwoPayments
    TrimmedKey <- SpaceBefore
    AdapterOf <- AllAdapters
    Durable = FALSE
    MaxFaults = 1
SYMMETRY Symmetry
INVARIANTS StoreViewsAgree OneOperationPerRequest
PROPERTIES SettledForGood
CHECK_DEADLOCK FALSE
