SPECIFICATION Spec
CONSTANTS
  s1 = s1
  s2 = s2
  g1 = g1
  g2 = g2
  Slots = {s1, s2}
  Guests = {g1}
  Host = host
  Reporters = {g1}
  Idle = idle
  MaxPlays = 2
  MaxFaults = 1
  InOrder = FALSE
CHECK_DEADLOCK FALSE
SYMMETRY Symmetries
INVARIANTS TypeOK ClosingIsPending HistoryIsOwn
PROPERTIES OpenRoomIsWatched LiveCloseIsFinal
