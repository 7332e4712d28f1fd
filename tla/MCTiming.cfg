SPECIFICATION TimingSpec
CONSTANTS
  t1 = t1
  t2 = t2
  Threads <- TwoThreads
  Offsets = {0}
  Second = 3
  Seconds = 2
  Nanos = 2
  MinInterval = 2
  SpinBelow = 2
  Fudge = 1
  Never = 100
  MaxPeriods = 1
  Naps = {1, 3}
  Sleeps = {2, 4}
  Limits <- SomeLimits
  Delays <- SomeDelays
  Intervals <- SomeIntervals
  Events = {"user"}
  Alarms <- OneAlarm
  Programs <- SomePrograms
  Ops = {}
INVARIANTS
  
  NothingLate
  TimerNotSilenced
  RemainingTime
CHECK_DEADLOCK FALSE
