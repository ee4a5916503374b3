CONSTANTS
  MaxFibers = 4
  MaxWaits = 2
  Sizes = {0, 1}
  MaxWrites = 4
  Notifiers = {"read", "write"}
  Values = {v1, v2}
  Null = Null
  Stale = Stale
SPECIFICATION Spec
INVARIANTS
  TypeOK
  FifoDelivery
  NoMissedRendezvous
  CloseReleases
  WakeupsExact
CHECK_DEADLOCK FALSE
