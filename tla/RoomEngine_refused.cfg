\* Two handshakes with one ticket, no failure.
CONSTANTS
    Identities = {a, b}
    Nobody = Nobody
    NoSeat = NoSeat
    NoRow = NoRow
    Tickets = {t1, t2, t3}
    MaxPeers = 2
    MaxCopies = 2
    MaxPlays = 1
    MaxFaults = 0
SPECIFICATION Spec
SYMMETRY Symmetry
PROPERTIES
    RefusedCloseIsHarmless
\* A closed room whose sockets are gone has nothing left to do.
CHECK_DEADLOCK FALSE
