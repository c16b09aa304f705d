CONSTANTS
    N = 2
    StreamsPerCred = 2
    Hints <- MCHints
    Lifetimes = {0, 2}
    DefaultLifetime = 4
    SafetyMargin = 2
    MaxCacheErrors = 3
    ErrorWindow = 1
    ReplyDelay = 1
    MaxTime = 3
    MaxInvalidations = 1
    Nobody = Nobody
    NoCred = NoCred
SPECIFICATION Spec
INVARIANTS
    ServedWhileValid
    InvalidatedForGood
    LocksInUse
PROPERTIES
    StoredIsUsable
    NoWastedFetch
    
