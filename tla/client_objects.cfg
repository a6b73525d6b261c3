SPECIFICATION ObjectSpec
CONSTANTS
    Task = {t1, t2, t3}
    Closer = {t1}
    Name = {k1, k2, k3}
    Producer = {p1, p2, p3, p4}
    Downloader = {d1, d2}
    Folder = {f1, f2}
    Base = {b1}
    MaxChunks = 2
    NameLimit = 4
    None = None
SYMMETRY Symmetry
INVARIANTS
    ObjectTypeOK
    ClientIsOpen
    NoClientLeak
    CredentialOutlivesClient
    NothingLeaks
    CosmosCredentialOutlives
    KeptIsOpen
    NothingStranded
    CredentialsOutlive
    SecretOutlivesTransport
    DroppedIsClosed
    ProbesAreBounded
    LoneFileIsPrefix
    SavedIsWhole
    SafeNameIsProper
PROPERTIES
    HandedClientIsOpen
