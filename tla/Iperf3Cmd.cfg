SPECIFICATION FairSpec
CONSTANTS
  e1 = e1
  e2 = e2
  Execs        = {e1, e2}
  Tests        <- MCTests
  MaxIntervals = 1
  PipeCap      = 1
  UsageLines   = 1
INVARIANT TypeOK
INVARIANT ClassifiedRight
INVARIANT OneResult
INVARIANT SameEitherWay
INVARIANT FailureReported
PROPERTY ExecEnds
