SPECIFICATION Spec
CONSTANTS
  MaxOut = 4
  Programs <- MCPrograms
  Inputs <- MCInputs
INVARIANTS
  MemorySafe
  NeverPanics
  StackBalanced
  HandlerFrameLive
  Faithful
CHECK_DEADLOCK FALSE
PROPERTY
  Ends
