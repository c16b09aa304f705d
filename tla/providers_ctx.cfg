CONSTANTS
    Watchers = {w1}
    Solvers <- MCSolvers
    MaxFetches = 1
SPECIFICATION Spec
PROPERTY
    CtxRespected
CHECK_DEADLOCK FALSE
