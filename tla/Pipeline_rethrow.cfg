SPECIFICATION Spec
CONSTANTS
  MaxOut = 4
  Programs <- MCRethrow
  Inputs <- MCInputs
INVARIANT
  Faithful
CHECK_DEADLOCK FALSE
