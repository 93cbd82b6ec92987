CONSTANTS
    c1 = c1
    c2 = c2
    c3 = c3
    Callers <- TwoCallers
    INST_ID_MAX = 3
    NumRetries = 1
    Lifetime = 3
    ForeignSets <- SharedDatabase
    QuietRemoval = FALSE
    MaxRequests = 3
    MaxFaults = 2
SPECIFICATION Spec
CHECK_DEADLOCK FALSE
INVARIANTS IdsMatchHead OnlyHeadHasTimers AwaitedIsQueued
PROPERTY ImplementsSerialService
