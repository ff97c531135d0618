SPECIFICATION FairSpec
CONSTANTS
  Reqs = {r1, r2, r3}
  MaxConcurrentConnections = 2
  ShortBodies = {r3}
  ClientFaults <- MCNoFaults
  NoStream = NoStream
  Workers = {w1}
  BufSize = 2
  Rounds <- MCOneRound
  ServerFaults <- MCSignal
CHECK_DEADLOCK FALSE
INVARIANTS
  NeverRefused
  NoAbandonedWork
  SlotsAccounted
  NothingMissedAtStop
PROPERTIES
  TestEnds
