SPECIFICATION Spec
CONSTANTS
  N = 3
  Highest = 1
  Pids = {0,1,2}
  RRMax = 1
  Ops <- JobOps
INVARIANTS
  HighestPriorityRuns
