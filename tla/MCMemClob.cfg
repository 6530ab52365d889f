SPECIFICATION Spec
CONSTANTS
  Signed <- MCOrders
  LiquidationOrders <- MCLiquidations
  ShortBlockWindow = 2
  None = None
  MaxHeight = 4
INVARIANTS
  NoPanic
  CancelledGone
  Proposable
  NotCrossed
  StatefulAccounted
PROPERTIES
  PriceTimePriority
