SPECIFICATION Spec
CONSTANTS
    a = a
    b = b
    c = c
    d = d
    e5 = e5
    again = again
    Requests = {a, b, c, d, e5, again}
    Data <- Burst
    OtherRules <- Findings
    OPAFails = {a}
    W5m = 0
    W30m = 1
    W1h = 1
    W24h = 3
    MaxTime = 4
    MaxWait = 1
SYMMETRY Symmetry
INVARIANTS TypeOK CountedOnce FourPassAtMost
PROPERTIES CountsAreExact
