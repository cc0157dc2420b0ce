\* One failed write is enough.
CONSTANTS
    Identities = {a, b}
    Nobody = Nobody
    NoSeat = NoSeat
    NoRow = NoRow
    Tickets = {t1, t2, t3}
    MaxPeers = 2
    MaxCopies = 1
    MaxPlays = 1
    MaxFaults = 1
SPECIFICATION Spec
SYMMETRY Symmetry
INVARIANTS
    NoDurableGhost
\* A closed room whose sockets are gone has nothing left to do.
CHECK_DEADLOCK FALSE
