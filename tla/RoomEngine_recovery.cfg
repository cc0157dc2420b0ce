\* Liveness, so no symmetry; two failures, so that a retry can fail as well.
CONSTANTS
    Identities = {a, b}
    Nobody = Nobody
    NoSeat = NoSeat
    NoRow = NoRow
    Tickets = {t1, t2}
    MaxPeers = 2
    MaxCopies = 1
    MaxPlays = 1
    MaxFaults = 2
SPECIFICATION FairSpec
PROPERTIES
    HostlessRoomCloses
    ReservationEnds
    CountRecovers
\* A closed room whose sockets are gone has nothing left to do.
CHECK_DEADLOCK FALSE
