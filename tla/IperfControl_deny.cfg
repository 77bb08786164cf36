SPECIFICATION Spec
CONSTANTS
  Clients    = {c1, c2}
  Reversed   = {}
  Jni        = {}
  NumStreams = 2
  Relisten   = FALSE
  Faults     = {"crash", "reset"}
  DataCap    = 2
  NoConn     = NoConn
PROPERTY OnlyOwnClientEndsSession
