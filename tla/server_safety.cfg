CONSTANTS
    Conns = {c1, c2, c3}
    Sids = {i1}
    StreamIds = {k1}
    Sess = {s1, s2}
    Backends = {"udp", "kernel"}
    NoConn = NoConn
    NoSess = NoSess
    NoSid = NoSid
    NoStream = NoStream
SPECIFICATION Spec
SYMMETRY Symmetry
INVARIANTS
    RegistryExact
    ReaderRegistered
    LiveSessionOwned
    StopLeavesNothing
    StopCoversSessions
CHECK_DEADLOCK FALSE
