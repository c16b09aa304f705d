CONSTANTS
    N = 3
    Cap = 1
    Bufs = {b1, b2, b3}
    Addrs = {a1}
    NoBuf = NoBuf
    NoAddr = NoAddr
SPECIFICATION PassedSpec
SYMMETRY Symmetry
INVARIANTS
    BuffersOwned
    AnswersHaveAddress
    NoStarvation
    SchedulerNeverWaits
CHECK_DEADLOCK FALSE
