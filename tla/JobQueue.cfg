SPECIFICATION Spec
CONSTANTS
    None = None
    j1 = j1
    j2 = j2
    w1 = w1
    w2 = w2
    Rows = {j1, j2}
    Handled = {j1}
    Workers = {w1, w2}
    TickJobs = 2
    MAX_RETRIES = 3
    MaxAdmin = 1
    MaxFaults = 2
INVARIANT TypeOK
INVARIANT NoDoubleProcessing
INVARIANT AttemptsBounded
INVARIANT OnlyFaultsAbandon
PROPERTY EveryRowSettles
PROPERTY SettledIsFinal
CHECK_DEADLOCK FALSE
