CONSTANTS
    p1 = p1
    p2 = p2
    Procs <- TwoProcs
    INST_ID_MAX = 3
SPECIFICATION FairSpec
INVARIANTS TypeOK NoSharedId FailedScanReservesAll
PROPERTIES ImplementsPool CallsReturn
