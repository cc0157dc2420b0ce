\* A host, a seat that two players take in turn, two plays, one failure.
CONSTANTS
    Identities = {a, b, c}
    Nobody = Nobody
    NoSeat = NoSeat
    NoRow = NoRow
    Tickets = {t1, t2, t3}
    MaxPeers = 2
    MaxCopies = 1
    MaxPlays = 2
    MaxFaults = 1
SPECIFICATION Spec
SYMMETRY Symmetry
INVARIANTS
    DurableAgrees
    CastIsFrozen
    HistoryIsOwn
PROPERTIES
    SettledIsFinal
    ImplementsLifecycle
\* A closed room whose sockets are gone has nothing left to do.
CHECK_DEADLOCK FALSE
