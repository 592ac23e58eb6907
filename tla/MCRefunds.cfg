SPECIFICATION Spec
CONSTANTS
    p1 = p1
    p2 = p2
    p3 = p3
    Requests = {r1, r2}
    Keys = {k1, k2}
    Payments = {p1, p2, p3}
    AdapterOf <- AllRefunds
    Durable = TRUE
    MaxFaults = 2
SYMMETRY Symmetry
INVARIANTS TypeOK SuccessIsBacked RefundedWasCaptured OneStory
PROPERTIES RecordedForGood ContractIsKept
