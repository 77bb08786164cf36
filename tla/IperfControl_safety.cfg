SPECIFICATION Spec
CONSTANTS
  Clients    = {c1, c2}
  Reversed   = {c2}
  Jni        = {c2}
  NumStreams = 2
  Relisten   = TRUE
  Faults     = {"listen", "sigpipe", "reset", "signal", "crash", "serverSignal", "serverCrash"}
  DataCap    = 2
  NoConn     = NoConn
INVARIANT TypeOK
INVARIANT OwnStreams
INVARIANT StartedIsComplete
INVARIANT OneTest
INVARIANT ClientFollows
PROPERTY ImplementsSession
