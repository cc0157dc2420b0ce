SPECIFICATION Spec
CONSTANTS
    Slots = {s1, s2}
    None = None
    Keys = {k1, k2}
    Queries = {all, name}
    NoQuery = all
    Pages = 4
    Limit = 1
    MaxKeys = 1
    SweepEvery = 3
    Window = 1
    TTL = 2
    MaxLive = 1
    MaxSids = 4
    Scenes <- MCScenes
INVARIANTS TypeOK SessionIsCurrent ListIsItsPage
PROPERTIES RefusalIsDeserved
SYMMETRY Alike
CHECK_DEADLOCK FALSE
