SPECIFICATION Spec
CONSTANTS
    None = None
    r1 = r1
    r2 = r2
    u1 = u1
    u2 = u2
    Requests = {r1, r2}
    MaxPayments = 2
    Pushes = {u1, u2}
    MaxRefundRequests = 1
INVARIANT TypeOK
INVARIANT EscrowIsFunded
INVARIANT PaidOncePerRelease
PROPERTY KeepsPromise
CHECK_DEADLOCK FALSE
SYMMETRY Symmetry
