SPECIFICATION Spec
CONSTANTS
  Clients    = {c1, c2}
  Reversed   = {}
  Jni        = {}
  NumStreams = 2
  Relisten   = FALSE
  Faults     = {"crash"}
  DataCap    = 2
  NoConn     = NoConn
INVARIANT NoStreamLeft
