SPECIFICATION Spec
CONSTANTS
    Client = {c1, c2}
    Slot = {s1}
    Conn = {k1, k2, k3}
    None = None
    ClientLimit = 2
    MaxConcurrentCreates = 2
    LifespanEnabled = TRUE
SYMMETRY Symmetry
INVARIANTS
    OnlyOneCreates
