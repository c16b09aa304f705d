CONSTANTS
    Callers = {c1, c2, c3}
    MaxHubs = 3
    LoggerCalls = {}
    Nobody = Nobody
SPECIFICATION FairSpec
INVARIANTS
    ActiveIsCurrent
    OneHubAtATime

    
CHECK_DEADLOCK FALSE
