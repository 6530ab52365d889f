SPECIFICATION Spec
CONSTANTS
  longTerm = longTerm
  fall = fall
  rise = rise
  alice = alice
  None = None
  LongTermIds = {longTerm}
  ConditionalIds = {fall, rise}
  Subaccounts = {alice}
  Owner <- MCOwner
  Quantums = 2
  EquityTierLimit = 3
  StatefulOrderTimeWindow = 2
  TriggerBelow = {fall}
  TriggerSubticks <- MCTriggerSubticks
  PriceGrain = 4
  OraclePrices <- MCOraclePrices
  BandDivisor = 2
  TradeSubticks = {1, 3}
  MaxTime = 2
  MaxHeight = 3
INVARIANTS
  ExpirationsExact
  CountAgrees
  ExpiredGone
  BookAgrees
PROPERTIES
  TriggersExactly
  LiveOrdersStay
CHECK_DEADLOCK FALSE
