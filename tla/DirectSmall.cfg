SPECIFICATION FairSpec
CONSTANTS
  Reqs = {r1, r2}
  MaxConcurrentConnections = 2
  ShortBodies = {}
  ClientFaults <- MCNoFaults
  NoStream = NoStream
  Workers = {w1}
  BufSize = 1
  Rounds <- MCOneRound
  ServerFaults <- MCNoFaults
CHECK_DEADLOCK FALSE
PROPERTIES
  TestEnds
