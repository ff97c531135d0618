SPECIFICATION Spec
CONSTANTS
  c1 = c1
  c2 = c2
  Nobody = Nobody
  Callers <- MCCallers
  Weights <- MCWeights
  Scale = 4
  TimeWindow = 2
  Bodies = {1}
  MaxLoad = 2
  MaxDelayed = 1
  MaxTotal = 4
INVARIANTS
  TypeOK
  WindowsAreSliding
  TotalsAgree
  NeverUnderreports
PROPERTIES
  ImplementsWeightedUplink
  DelaysAreSerial
  EveryCallReturns
