CONSTANTS
    c1 = c1
    c2 = c2
    c3 = c3
    Callers <- ThreeCallers
    INST_ID_MAX = 4
    NumRetries = 2
    Lifetime = 4
    ForeignSets <- NobodyElse
    QuietRemoval = TRUE
    MaxRequests = 9
    MaxFaults = 0
SPECIFICATION FairSpec
CHECK_DEADLOCK FALSE
INVARIANTS TypeOK ResendsUnderOwnId QueueIsServed NoCrossTalk NeverBroken TimeoutLogIsRight
PROPERTY EveryRequestEnds
