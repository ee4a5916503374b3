CONSTANTS
  MaxFibers = 3
  MaxWaits = 2
  Notifiers = {n1, n2}
  Values = {v1}
  Null = Null
  Stale = Stale
SPECIFICATION FairSpec
INVARIANTS
  WakeupsExact
PROPERTIES
  FirstComeFirstServed
  WaitEnds
CHECK_DEADLOCK FALSE
