CONSTANTS
    PeerTypes <- DtlsPeerTypes
    MaxPumps = 1
SPECIFICATION FairSpec
PROPERTIES
    StopReturns
CHECK_DEADLOCK FALSE
