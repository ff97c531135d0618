SPECIFICATION Spec
CONSTANTS
  c1 = c1
  c2 = c2
  s1 = s1
  s2 = s2
  s3 = s3
  Conns = {c1, c2}
  Streams = {s1, s2, s3}
  ConnOf <- MCConnOf
  Servers = {d1}
  NoServer = NoServer
  ParallelConn = 2
  Faults <- MCFaults
  MaxReplies = 1
SYMMETRY MCSymmetry
CHECK_DEADLOCK FALSE
INVARIANTS
  TypeOK
  TokensAccounted
  GivingBackNeverBlocks
  PhasesBounded
  ToldTheTruth
  NothingStuck
PROPERTIES
  FinalIsFinal
