SPECIFICATION FairSpec
CONSTANTS
  Accounts = {1, 2}
  Threads = {t1, t2}
  Kinds = {"short", "stateful", "other"}
  MaxSequence = 1
CHECK_DEADLOCK FALSE
PROPERTY AlwaysEnds
INVARIANT Serial
