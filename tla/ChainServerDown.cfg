SPECIFICATION FairSpec
CONSTANTS
  Reqs = {r1, r2}
  MaxConcurrentConnections = 2
  ShortBodies = {}
  ParallelConn = 1
  NoStream = NoStream
  Workers = {w1}
  BufSize = 1
  ServerFaults <- MCSignal
CHECK_DEADLOCK FALSE
PROPERTIES
  TestEnds
