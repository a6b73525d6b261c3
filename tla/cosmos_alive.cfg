SPECIFICATION CosmosSpec
CONSTANTS
    Task = {t1, t2, t3}
    Closer = {}
    Name = {k1, k2, k3, k4, k5}
    None = None
SYMMETRY Symmetry
PROPERTIES
    HandedIsAlive
