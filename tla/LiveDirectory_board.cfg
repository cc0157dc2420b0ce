SPECIFICATION Spec
CONSTANTS
    p1 = p1
    p2 = p2
    Pools = {p1, p2}
    Default = p1
    Null = Null
    Deployments = {"objects", "redis", "memory"}
    Pages = 3
    MaxChanges = 2
    MaxMoves = 2
    MaxFaults = 1
INVARIANT TypeOK
INVARIANT ScreenShowsItsPage
INVARIANT QuietBoardIsCurrent
PROPERTY BoardCatchesUp
CHECK_DEADLOCK FALSE
