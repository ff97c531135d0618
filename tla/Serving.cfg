SPECIFICATION FairSpec
CONSTANTS
  Streams = {s1, s2, s3}
  NoStream = NoStream
  Workers = {w1, w2}
  BufSize = 1
  Rounds <- MCOneOrTwoRounds
  Suppresses = TRUE
  Decision = "partial"
  HasBlock = FALSE
  Faults <- MCAllFaults
  MaxStops = 1
CHECK_DEADLOCK FALSE
INVARIANTS
  TypeOK
  OneOwner
  Backpressure
  ReplyMatchesFate
  LossesExplained
PROPERTIES
  FinalIsFinal
  ImplementsRequestReply
  EveryRequestSettled
