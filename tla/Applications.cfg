SPECIFICATION Spec
CONSTANTS
  g1 = g1
  g2 = g2
  Goroutines <- MCGoroutines
  Configs <- MCConfigs
  TimeWindow = 2
CHECK_DEADLOCK FALSE
INVARIANTS
  TypeOK
  ExactUnlessOverlapped
  NeverOvercounts
  FragmentsStamped
