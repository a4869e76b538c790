SPECIFICATION Spec
CONSTANTS
  w1 = w1
  w2 = w2
  b1 = b1
  Owner <- OwnedByOne
  Workers = {w1, w2}
  Bots = {b1}
  MaxRequests = 3
  MaxPending = 2
  MaxTasks = 2
  ErrorThreshold = 1
  HighCapacity = 1
  LowCapacity = 1
  Scenes <- MCChained
INVARIANT NothingDangling
CHECK_DEADLOCK FALSE
