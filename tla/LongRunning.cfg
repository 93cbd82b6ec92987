CONSTANTS
    poll = poll
    set = set
    raw = raw
    ecc = ecc
    setEcc = setEcc
    rawEcc = rawEcc
    getEccMode = getEccMode
    setEccMode = setEccMode
    NoOne = NoOne
    Updaters <- ThreeUpdaters
    Handlers <- ThreeHandlers
    Uses <- UsesOf
    Raw <- RawHandlers
    Command <- CommandOf
    INST_ID_MAX = 3
    PromptDevice = FALSE
    Lifetime = 3
    MaxCalls = 4
    MaxFaults = 0
SPECIFICATION FairSpec
CHECK_DEADLOCK FALSE
INVARIANTS NobodyForgotten
PROPERTIES AwaitedResultIsOwn
    ImplementsFifoLock
    EveryUpdateEnds
