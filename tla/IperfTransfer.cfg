SPECIFICATION FairSpec
CONSTANTS
  HasTcpinfoRetransmits = TRUE
  Requests    <- MCRequests
  MaxSessions = 2
  Multisend   = 3
  BlockUnits  = 2
  Room        = 3
  MaxCount    = 8
INVARIANT TypeOK
INVARIANT ServerRunsClientsTest
INVARIANT OneEndSends
INVARIANT LimitKept
PROPERTY TestEnds
