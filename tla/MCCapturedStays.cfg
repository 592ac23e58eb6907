SPECIFICATION Spec
CONSTANTS
    k1 = k1
    k2 = k2
    k3 = k3
    k4 = k4
    k5 = k5
    k6 = k6
    p1 = p1
    p2 = p2
    Requests = {r1, r2}
    Hooks = {h1}
    Keys = {k1}
    Payments = {p1}
    PaymentOf <- OnePayment
    TrimmedKey <- AsSent
    AdapterOf <- OneYooKassa
    Durable = TRUE
    MaxFaults = 0
SYMMETRY Symmetry
PROPERTIES CapturedStays
CHECK_DEADLOCK FALSE
