CONSTANTS
  Size = 3
  MaxEntries = 4
  Values = {v1, v2}
  Null = Null
SPECIFICATION BothSpec
INVARIANTS
  TypeOK
  OnlyWindowHeld
  ListWellFormed
PROPERTIES
  IsFifo
  ListIsFifo
CHECK_DEADLOCK FALSE
