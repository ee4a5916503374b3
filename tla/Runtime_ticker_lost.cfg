CONSTANTS
  MaxTime = 3
  MaxTimers = 2
  MaxThreads = 2
  MaxQueue = 2
  Delays <- MCNone
  Periods <- MCPeriods
  Args = {arg}
  Stale = stale
SPECIFICATION Spec
PROPERTY
  NoTickerLost
CHECK_DEADLOCK FALSE
