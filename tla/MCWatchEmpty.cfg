SPECIFICATION MCSpec
CONSTANTS
    Keys = {k1, k2}
    Queries = {q1}
    Attempts = 2
    Gone = Gone
    None = None
    NoCred = NoCred
    MaxFailures = 1
    MaxResolutions = 2
    MaxVersion = 2
    MaxTrouble = 0
    MaxRequests = 1
INVARIANTS
    SyncedIsUpToDate
CHECK_DEADLOCK FALSE
