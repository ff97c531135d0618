SPECIFICATION FairSpec
CONSTANTS
  Reqs = {r1, r2}
  NDest = 2
  MaxConcurrentConnections = 1
  ShortBodies = {r1}
  Timer = TRUE
  Faults <- MCAllFaults
  MaxReplies = 2
CHECK_DEADLOCK FALSE
INVARIANTS
  TypeOK
  SlotsAccounted
  NothingMissedAtStop
  ResultsExplained
PROPERTIES
  DoneIsFinal
  ClientStops
