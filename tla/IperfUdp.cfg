SPECIFICATION Spec
CONSTANTS
  IntMax = 3
  Counters64 = FALSE
  MaxPackets = 4
  MaxLate = 1
  Faults = {"lose", "dup", "reorder"}
INVARIANT TypeOK
INVARIANT Balanced
INVARIANT AccountedFor
INVARIANT IntervalAccountedFor
INVARIANT LossInRange
INVARIANT LossCovers
INVARIANT ReportsAgree
CHECK_DEADLOCK FALSE
