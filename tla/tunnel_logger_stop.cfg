CONSTANTS
    Callers = {c1, c2}
    MaxHubs = 2
    LoggerCalls = {c2}
    Nobody = Nobody
SPECIFICATION FairSpec
PROPERTY StopReturns
CHECK_DEADLOCK FALSE
