SPECIFICATION FairSpec
CONSTANTS
  Clients    = {c1, c2}
  NumStreams = 2
  Faults     = {"loss", "dup", "slow", "listen", "stream", "crash"}
  MaxFaults  = 4
  NoSock     = NoSock
  NoClient   = NoClient
INVARIANT TypeOK
INVARIANT RunningMatched
INVARIANT FailsForAReason
INVARIANT LeakPerAbort
PROPERTY ServerComesBack
