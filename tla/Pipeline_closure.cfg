SPECIFICATION Spec
CONSTANTS
  MaxOut = 4
  Programs <- MCClosure
  Inputs <- MCInputs
INVARIANT
  Faithful
CHECK_DEADLOCK FALSE
