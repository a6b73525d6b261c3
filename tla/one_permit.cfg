SPECIFICATION Spec
CONSTANTS
    Client = {c1, c2, c3, c4}
    Slot = {s1}
    Conn = {k1, k2, k3, k4, k5}
    None = None
    ClientLimit = 3
    MaxConcurrentCreates = 1
    LifespanEnabled = TRUE
SYMMETRY Symmetry
INVARIANTS
    ExpiresItsOwn
    ReadyHasConnection
    NoLeak
    LimitsAreKept
PROPERTIES
    OrphansWaitForClosed
    UsersLoseItToExpiryOnly
    HandedIsProbed
    KeepsPromise
