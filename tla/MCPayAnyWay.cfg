SPECIFICATION Spec
CONSTANTS
    k1 = k1
    k2 = k2
    kp = kp
    p1 = p1
    Requests = {r1, r2}
    Hooks = {h1, h2}
    Keys = {k1, k2, kp}
    Payments = {p1}
    PaymentOf <- OnePayment
    TrimmedKey <- AsSent
    AdapterOf <- TwoRoutes
    TransactionKey <- PaymentID
    Durable = TRUE
    MaxFaults = 2
SYMMETRY Symmetry
INVARIANTS TypeOK CapturedIsPaid PaidIsShown NoStrayRecord
CHECK_DEADLOCK FALSE
