CONSTANTS
  MaxTime = 2
  MaxTimers = 2
  MaxThreads = 3
  MaxQueue = 1
  Delays <- MCDelays
  Periods <- MCPeriods
  Args = {arg}
  Stale = stale
SPECIFICATION Spec
INVARIANTS
  TypeOK
  TimerOnce
  NeverEarly
  TimersInOrder
  TickerOnce
  FiberConservation
  NoCorruptedStack
  ExitIsFinal
CHECK_DEADLOCK FALSE
