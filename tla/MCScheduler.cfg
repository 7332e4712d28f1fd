SPECIFICATION Spec
CONSTANTS
  N = 3
  Highest = 1
  Pids = {0}
  RRMax = 1
  Ops <- ThreadOps
INVARIANTS
  HighestPriorityRuns
  IdleOnlyWhenNothingRunnable
