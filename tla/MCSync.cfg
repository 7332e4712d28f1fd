SPECIFICATION FairSyncSpec
CONSTANTS
  N = 3
  Highest = 1
  NULL = NULL
  m1 = m1
  m2 = m2
  m3 = m3
  c1 = c1
  s1 = s1
  a1 = a1
  a2 = a2
  a3 = a3
  Scenarios <- Disciplined
  Mutexes = {m1, m2, m3}
  Recursive = {m2}
  Ceiling <- CeilingDef
  MaxLocks = 2
  Conds = {c1}
  Sems = {s1}
  MaxValue = 2
  Requests = {a1, a2, a3}
INVARIANTS
  MutualExclusion
  OwnerKnows
  FreeMutexNotWaitedFor
  CeilingHeld
  SignalTargetWaits
  CondWakeIsSignalled
  SemCount
  PostWakesWaiter
  AioSuspended
PROPERTIES
  ImplementsLock
  LockServed
CHECK_DEADLOCK FALSE
