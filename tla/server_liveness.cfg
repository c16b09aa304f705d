CONSTANTS
    Conns = {c1, c2}
    Sids = {i1}
    StreamIds = {k1}
    Sess = {s1, s2}
    Backends = {"udp"}
    NoConn = NoConn
    NoSess = NoSess
    NoSid = NoSid
    NoStream = NoStream
SPECIFICATION FairSpec
PROPERTIES
    StopReturns
    ClosedConnsEnd
    TerminateFinishes
    OneBackendPerClient
CHECK_DEADLOCK FALSE
