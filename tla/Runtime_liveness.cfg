CONSTANTS
  MaxTime = 2
  MaxTimers = 1
  MaxThreads = 3
  MaxQueue = 1
  Delays <- MCDelays
  Periods <- MCPeriods
  Args = {arg}
  Stale = stale
SPECIFICATION FairSpec
PROPERTIES
  TimerFires
  StaleResumed
  IsTaskLoop
CHECK_DEADLOCK FALSE
