SPECIFICATION Spec
CONSTANTS
    k1 = k1
    k2 = k2
    k3 = k3
    p1 = p1
    p2 = p2
    p3 = p3
    Callers = {c1, c2, c3}
    Keys = {k1, k2, k3}
    Payments = {p1, p2, p3}
    SystemOf <- Systems
    Saved = {"CAPTURE_REQUESTED", "CAPTURED"}
    MaxTime = 2
    Filters <- AFew
    DefaultLimit = 2
    MaxLimit = 2
SYMMETRY Symmetry
INVARIANTS TypeOK SameByKey LatestAgrees RecordsAgree ReportIsNewest
PROPERTIES OrderIsKept
CHECK_DEADLOCK FALSE
