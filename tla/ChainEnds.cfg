SPECIFICATION FairSpec
CONSTANTS
  Reqs = {r1, r2}
  MaxConcurrentConnections = 2
  ShortBodies = {r2}
  ParallelConn = 2
  NoStream = NoStream
  Workers = {w1}
  BufSize = 1
  ServerFaults <- MCSignal
CHECK_DEADLOCK FALSE
INVARIANTS
  EndToEnd
PROPERTIES
  TestEnds
