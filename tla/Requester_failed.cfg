CONSTANTS
    c1 = c1
    c2 = c2
    c3 = c3
    Callers <- TwoCallers
    INST_ID_MAX = 3
    NumRetries = 1
    Lifetime = 3
    ForeignSets <- SharedDatabase
    QuietRemoval = TRUE
    MaxRequests = 3
    MaxFaults = 0
SPECIFICATION Spec
CHECK_DEADLOCK FALSE
INVARIANT FailedRequestStaysFailed
