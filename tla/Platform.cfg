SPECIFICATION Spec
CONSTANTS
    None = None
    MaxCompanies = 2
    Staff = {"s1", "s2"}
    Types = {"permit"}
    Required = {"permit"}
    MaxDocuments = 2
    Members = {"m1", "m2"}
    Calls = {"r1", "r2"}
    MaxIssued = 3
    MaxFaults = 1
    Subs = {"s1", "s2"}
    Own = {"p1"}
    Others = {"q1"}
    Requests = {r1, r2, r3}
    MaxPools = 3
    Amounts = {1, 2}
    Askers = {"a1", "a2"}
    MaxSettlements = 3
    MaxPayouts = 3
    Clerks = {"s1", "s2"}
    MaxEarned = 3
    MaxRequests = 2
    MaxDebts = 2
    Admins = {"s1"}
INVARIANT SettledInFull
INVARIANT CompanyNeverOverdrawn
INVARIANT FundiNeverOverdrawn
INVARIANT WithheldIsBooked
INVARIANT Reconnects
INVARIANT OneCompany
INVARIANT SuspendedIsClosed
INVARIANT VerifiedAfterReview
INVARIANT PageAgrees
INVARIANT PaidIsEntitled
INVARIANT RoleFollowsApproval
INVARIANT SuspendedIsOffline
INVARIANT SessionEndsForCause
INVARIANT SessionsAgree
INVARIANT ReadsAreServed
INVARIANT RunsOnce
INVARIANT CookiesStayGood
PROPERTY NoPayoutWhileFrozen
PROPERTY WaitingEnds
PROPERTY ShowsAllInTheEnd
PROPERTY MaintenanceEnds
CHECK_DEADLOCK FALSE
