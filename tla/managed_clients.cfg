SPECIFICATION FairManagedSpec
CONSTANTS
    Client = {c1, c2}
    Slot = {s1}
    Conn = {k1, k2}
    None = None
    MaxSendAttempts = 3
INVARIANTS
    ManagedTypeOK
PROPERTIES
    EveryCallEnds
