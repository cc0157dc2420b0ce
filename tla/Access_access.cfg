SPECIFICATION Spec
CONSTANTS
    Slots = {s1, s2}
    Clients = {c1, c2}
    Cards = {k1, k2}
    None = None
    Songs = {a, b}
    Pools = {p, q}
    Capacity = 2
    c1 = c1
    c2 = c2
    k1 = k1
    k2 = k2
    MaxIds = 2
    MaxNonces = 2
    MaxRooms = 3
    Scenes <- MCScenes
INVARIANTS
    TypeOK
    BannedIsOut
    RegisteredIsBound
    OneLobbyPerHost
PROPERTIES
    TokenIsEarned
    OnlyUnbanLiftsBan
SYMMETRY Symmetric
CHECK_DEADLOCK FALSE
