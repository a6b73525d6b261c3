SPECIFICATION Spec
CONSTANTS
    Client = {c1, c2, c3}
    Slot = {s1}
    Conn = {k1, k2, k3, k4}
    None = None
    ClientLimit = 3
    MaxConcurrentCreates = 2
    LifespanEnabled = TRUE
SYMMETRY Symmetry
INVARIANTS
    NoReadyWithoutConn
