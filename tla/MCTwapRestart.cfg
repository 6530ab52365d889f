SPECIFICATION Spec
CONSTANTS
  a = a
  b = b
  None = None
  Ids = {a, b}
  Quantums = 4
  TotalLegs = 2
  Interval = 3
  GoodTilOffset = 1
  CatchupMultiple = 3
  StepBaseQuantums = 1
  EquityTierLimit = 2
  Uint64 = 16
  MaxGap = 2
  MaxPlacements = 1
INVARIANT CountAccurate
