\* A host and two guests, one play, one failure.
CONSTANTS
    Identities = {a, b, c}
    Nobody = Nobody
    NoSeat = NoSeat
    NoRow = NoRow
    Tickets = {t1, t2, t3}
    MaxPeers = 3
    MaxCopies = 1
    MaxPlays = 1
    MaxFaults = 1
SPECIFICATION Spec
SYMMETRY Symmetry
INVARIANTS
    TypeOK
    SeatsAreHeld
    HostSeated
    OpenRoomIsWatched
    DurableMirrorsLive
PROPERTIES
    HostSeatStable
\* A closed room whose sockets are gone has nothing left to do.
CHECK_DEADLOCK FALSE
