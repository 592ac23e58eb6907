SPECIFICATION Spec
CONSTANTS
    k1 = k1
    k2 = k2
    p1 = p1
    Requests = {r1, r2}
    Scans = {s1, s2}
    Wallets <- DemoWallets
    Keys = {k1, k2}
    Payments = {p1}
    PaymentOf <- TwoCodes
    TrimmedKey <- AsSent
    AdapterOf <- CodesOnly
    Purchase <- Purchases
    Durable = TRUE
    MaxFaults = 1
SYMMETRY Symmetry
INVARIANTS TypeOK CapturedWasHonoured OutcomeIsExplained
CHECK_DEADLOCK FALSE
