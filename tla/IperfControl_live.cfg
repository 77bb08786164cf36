SPECIFICATION FairSpec
CONSTANTS
  Clients    = {c1, c2}
  Reversed   = {c2}
  Jni        = {c2}
  NumStreams = 2
  Relisten   = FALSE
  Faults     = {"signal", "crash"}
  DataCap    = 2
  NoConn     = NoConn
PROPERTY OnlyOwnClientEndsSession
PROPERTY TestsEnd
PROPERTY AdmittedSucceeds
PROPERTY ServerComesBack
