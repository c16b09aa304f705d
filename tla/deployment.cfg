CONSTANTS
    Admins = {a1, a2}
    Names = {alice, bob}
    Confs <- MCConfs
    Size = 8
    ServerAddr = 1
    MaxKeys = 2
    Nobody = Nobody
SPECIFICATION Spec
INVARIANTS
    
    UrlsWork
    LiveFollowsConf
    
PROPERTIES
    OthersUntouched
    
CHECK_DEADLOCK FALSE
