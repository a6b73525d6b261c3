SPECIFICATION PoolSpec
CONSTANTS
    Client = {c1, c2}
    Slot = {s1}
    Conn = {k1, k2, k3}
    None = None
    ClientLimit = 1
    MaxConcurrentCreates = 1
    LifespanEnabled = TRUE
    GetTimeout = 4
    MaxRound = 1
SYMMETRY Symmetry
PROPERTIES
    TimeoutHonoured
