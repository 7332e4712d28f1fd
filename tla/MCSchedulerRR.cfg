SPECIFICATION FairSpec
CONSTANTS
  N = 3
  Highest = 1
  Pids = {0}
  RRMax = 2
  Ops <- RoundRobinOps
PROPERTIES
  RoundRobin
