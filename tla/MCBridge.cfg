SPECIFICATION FairSpec
CONSTANTS
  Honest = {v1, v2, v3}
  Faulty = {f}
  EthAmount <- MCAmounts
  EthBlock <- MCBlocks
  Forged = 3
  MaxBridgesPerBlock = 1
  Delays = {0, 1}
  Balance = 2
  MaxHeight = 12
  MaxRestarts = 1
  MaxUpdates = 1
INVARIANTS
  AcknowledgedAsEmitted
  Accounted
  HonestProposalsAgree
PROPERTY EventuallyAcknowledged
