SPECIFICATION PartsSpec
CONSTANTS
  Owners = {a1, a2}
  Vaults = {v1, v2}
  Deposits = {1}
  Equities <- MCEquities
  Slippages <- MCSlippages
  Listing <- MCListing
  MaxShares = 3
  MaxFunds = 1
  MaxHeight = 3
  MaxLayers = 1
  Prices = {a1, a2}
  Expirations = {1, 2}
  Statuses = {"quoting", "closeonly", "deactivated"}
  MaxElapsed = 1
  TimeWindow = 2
  LimiterLists <- MCLimiterLists
  Amounts = {1, 3}
  InitSupply = 6
  BlockTimes = {1000000, 3500000}
  MaxPackets = 2
  MaxReceipts = 1
  MaxBlocks = 2
  MaxUpdates = 2
  Keys = {a1, a2}
  Configs <- MCConfigs
  Weights = {1, 2}
  MaxPerBlock = 2
  MaxCommitted = 3
SYMMETRY Symmetry
CHECK_DEADLOCK FALSE
INVARIANTS
  SharesCovered
  UnlockScheduled
  Tracked
  NoStaleQuotes
  PendingExact
  OutflowBounded
  WindowExact
PROPERTY SharePriceKept
