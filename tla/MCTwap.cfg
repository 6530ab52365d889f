SPECIFICATION FairSpec
CONSTANTS
  a = a
  b = b
  None = None
  Ids = {a, b}
  Quantums = 4
  TotalLegs = 4
  Interval = 3
  GoodTilOffset = 1
  CatchupMultiple = 3
  StepBaseQuantums = 1
  EquityTierLimit = 2
  Uint64 = 16
  MaxGap = 4
  MaxPlacements = 1
INVARIANTS
  SuborderCovered
  NeverOvertraded
PROPERTIES
  EventuallyClosed
