SPECIFICATION FairSpec
CONSTANTS
  Msgs = {m1, m2}
  Routable = {m1}
  MaxUint32 = 3
  MaxMessages = 3
INVARIANTS
  IndexAgrees
  NothingStranded
PROPERTIES
  EventuallyDispatched
  ImplementsQueue
CHECK_DEADLOCK FALSE
