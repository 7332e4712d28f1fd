SPECIFICATION Spec
CONSTANTS
  N = 2
  Highest = 1
  Pids = {0}
  RRMax = 1
  Ops <- ExitOps
PROPERTIES
  NoSwitchBeforeCleanup
CHECK_DEADLOCK FALSE
