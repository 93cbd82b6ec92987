CONSTANTS
    p1 = p1
    p2 = p2
    Procs <- TwoProcs
    INST_ID_MAX = 3
SPECIFICATION Spec
INVARIANT AgainOnlyWhenSomeInUse
