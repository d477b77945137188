SPECIFICATION Spec
CONSTANTS
    Customer = customer
    Admin = admin
    None = None
    Fundis <- MCFundis
    Members <- MCMembers
    f1 = f1
    m1 = m1
    customer = customer
    admin = admin
    r1 = r1
    r2 = r2
    b1 = b1
    q1 = q1
    q2 = q2
    Requests = {r1}
    Reapers = {}
    Quotes = {}
    Amounts = {1, 2}
    Estimates = {None, 1, 2}
    Callers <- MCProviders
    PatchTargets <- MCAnyStatus
    MayFail = FALSE
INVARIANT WorkAtApprovedPrice
CHECK_DEADLOCK FALSE
