SPECIFICATION PartsSpec
CONSTANTS
  Cutoff = 4
  ArrSize = 3
  Past = 2
  Future = 2
  MaxSequence = 2
  Start = 6
  End = 10
  StatefulIds = {c1, c2}
  Times = {0, 1, 2}
  Limit = 2
  MaxMempool = 3
  MaxBlockTxs = 2
  o1 = o1
  o2 = o2
  o3 = o3
  s1 = s1
  s2 = s2
  OrderIds = {o1, o2, o3}
  ShortTermIds = {o1}
  Owner <- MCOwner
  SubticksPerTick = 3
  Prices = {1, 3, 6, 12, 15}
  Width = 4
  Blocks = {1, 2}
  x = x
  y = y
  None = None
  SignedOrders <- MCSignedOrders
  SignedIds = {x, y}
  Subaccounts = {s1, s2}
  Subaccount <- MCSubaccount
  ShortBlockWindow = 2
  MaxHeight = 9
SYMMETRY Symmetry
CHECK_DEADLOCK FALSE
INVARIANTS
  NoReplay
  UncommittedExact
  DeliverableInOrder
  IndexesAgree
  NextBestExact
  NoOverfill
PROPERTIES
  ForgottenLate
