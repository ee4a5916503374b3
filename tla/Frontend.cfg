SPECIFICATION Spec
CONSTANTS
  MaxOut = 0
  IntBits = 4
  Sources <- MCSources
INVARIANTS
  LexesRight
  ParsesBack
  KeywordsInPlace
PROPERTY
  Finishes
CHECK_DEADLOCK FALSE
