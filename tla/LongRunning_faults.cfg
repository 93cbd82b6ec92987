CONSTANTS
    poll = poll
    set = set
    raw = raw
    ecc = ecc
    setEcc = setEcc
    rawEcc = rawEcc
    getEccMode = getEccMode
    setEccMode = setEccMode
    NoOne = NoOne
    Updaters <- ThreeUpdaters
    Handlers <- ThreeHandlers
    Uses <- UsesOf
    Raw <- RawHandlers
    Command <- CommandOf
    INST_ID_MAX = 2
    PromptDevice = TRUE
    Lifetime = 4
    MaxCalls = 4
    MaxFaults = 1
SPECIFICATION Spec
CHECK_DEADLOCK FALSE
INVARIANTS TypeOK HandlerIsTheBusyOne OkMeansResult TimeoutMeansNoResult
