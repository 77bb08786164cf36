SPECIFICATION Spec
CONSTANTS
  IntMax = 3
  Counters64 = TRUE
  MaxPackets = 6
  MaxLate = 0
  Faults = {}
INVARIANT LongTestCounted
CHECK_DEADLOCK FALSE
