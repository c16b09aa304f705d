CONSTANTS
    Watchers = {w1}
    Solvers <- MCSolvers
    MaxFetches = 2
SPECIFICATION Spec

    
PROPERTIES
    FetchMovesOn
    
CHECK_DEADLOCK FALSE
