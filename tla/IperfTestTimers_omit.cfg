SPECIFICATION Spec
CONSTANTS
  Cells = {t1, t2, t3, t4, t5}
  Procs  <- OneSenderProcs
  NoTimer = NoTimer
  Roles = {"c", "s"}
  Interval = 4
  Durations = {0, 4}
  Omits = {0, 4}
  SendTimers  <- OneSender
  SendTick = 2
  Drift = 1
  MaxLate = 1
  MaxTests = 2
  Horizon = 10
INVARIANT IntervalCountsItsTime
CHECK_DEADLOCK FALSE
