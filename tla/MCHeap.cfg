SPECIFICATION HeapSpec
CONSTANTS
  Threads = {1, 2}
  Main = 1
  ChunkSize = 2
  HeaderSize = 1
  JumpSize = 4
  Limit = 16
  Sizes = {1, 4, 14}
  MaxHeld = 3
  Scenarios <- Everything
INVARIANTS
  HeapIsWhole
PROPERTIES
  Allocates
  OperationsEnd
CHECK_DEADLOCK FALSE
