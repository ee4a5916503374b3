CONSTANTS
  InitialSizes = {1, 3}
  MaxCells = 3
  MaxRefs = 3
SPECIFICATION FairSpec
INVARIANTS
  TypeOK
  FreelistExact
  NextAllocationServed
  NoDangling
  NoGarbageKept
PROPERTY
  AllocationEnds
CHECK_DEADLOCK FALSE
