SPECIFICATION Spec
CONSTANTS
    None = None
    r1 = r1
    r2 = r2
    u1 = u1
    u2 = u2
    Requests = {r1}
    MaxPayments = 2
    Pushes = {u1, u2}
    MaxRefundRequests = 0
INVARIANT CollectedOnce
CHECK_DEADLOCK FALSE

