SPECIFICATION PoolSpec
CONSTANTS
    Client = {c1, c2}
    Slot = {s1, s2}
    Conn = {k1, k2, k3, k4}
    None = None
    ClientLimit = 2
    MaxConcurrentCreates = 1
    LifespanEnabled = TRUE
    GetTimeout = 3
    MaxRound = 1
SYMMETRY Symmetry
INVARIANTS
    PoolTypeOK
    NothingOutlivesGet
PROPERTIES
    SharesLast
