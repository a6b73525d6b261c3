SPECIFICATION BusSpec
CONSTANTS
    Task = {t1, t2}
    Closer = {t1}
    Name = {k1, k2, k3}
    None = None
PROPERTIES
    ReceiverIsKept
