SPECIFICATION MqSpec
CONSTANTS
  N = 3
  Highest = 1
  NULL = NULL
  q1 = q1
  c1 = c1
  c2 = c2
  Scenarios <- Disciplined
  Statuses <- AnyStatus
  Mutexes = {q1}
  Recursive = {}
  Ceiling <- CeilingDef
  MaxLocks = 1
  Conds = {c1, c2}
  QMutex = q1
  SendCond = c1
  RecvCond = c2
  MaxMsgs = 2
  MsgPrios = {0, 1}
  MaxAge = 3
INVARIANTS
  MqConservation
  MqNotForgotten
PROPERTIES
  MqOrder
CHECK_DEADLOCK FALSE
