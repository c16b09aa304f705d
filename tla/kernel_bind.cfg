CONSTANTS
    Conns = {c1, c2}
    Depth = 1
    MaxGens = 2
SPECIFICATION Spec
INVARIANTS
    LateReadOnce
PROPERTIES
    OneOwnerAtATime
    SessionsEnd
    KernelStops
CHECK_DEADLOCK FALSE
