SPECIFICATION FifoSpec
CONSTANTS
  N = 3
  Highest = 1
  NULL = NULL
  Scenarios <- Everything
  Drivers <- DriversDef
  Size = 3
  MaxBytes = 5
  Lengths = {1, 2}
INVARIANTS
  FifoConservation
  
  NoDanglingTransfer
  WriteCount
PROPERTIES
  FifoOrder
CHECK_DEADLOCK FALSE
