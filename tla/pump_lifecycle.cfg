CONSTANTS
    PeerTypes <- AllPeerTypes
    MaxPumps = 2
SPECIFICATION FairSpec
INVARIANTS
    OnePumpAtATime
PROPERTIES
    ImplementsLife
    CarriersEnd
    EstablishedEnds
    
CHECK_DEADLOCK FALSE
