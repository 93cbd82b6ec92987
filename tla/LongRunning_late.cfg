CONSTANTS
    poll = poll
    set = set
    raw = raw
    ecc = ecc
    setEcc = setEcc
    rawEcc = rawEcc
    getEccMode = getEccMode
    setEccMode = setEccMode
    NoOne = NoOne
    Updaters <- ThreeUpdaters
    Handlers <- ThreeHandlers
    Uses <- UsesOf
    Raw <- RawHandlers
    Command <- CommandOf
    INST_ID_MAX = 4
    PromptDevice = FALSE
    Lifetime = 4
    MaxCalls = 3
    MaxFaults = 0
SPECIFICATION Spec
CHECK_DEADLOCK FALSE
INVARIANT OkMeansResult
