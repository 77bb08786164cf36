SPECIFICATION Spec
CONSTANTS
  IntMax = 15
  Counters64 = FALSE
  MaxPackets = 4
  MaxLate = 0
  Faults = {"lose"}
INVARIANT SenderLossInRange
CHECK_DEADLOCK FALSE
