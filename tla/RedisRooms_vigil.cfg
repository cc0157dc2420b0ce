SPECIFICATION FairSpec
CONSTANTS
  i1 = i1
  i2 = i2
  t1 = t1
  t2 = t2
  g1 = g1
  Instances = {i1}
  Tasks = {t1, t2}
  Guests = {g1}
  Host = host
  Free = free
  NoSeat = noSeat
  Idle = idle
  Failures = {"fault", "crash"}
  MaxFailures = 1
CHECK_DEADLOCK FALSE
PROPERTIES HostlessRoomCloses WaitersAreServed
