SPECIFICATION FairSpec
CONSTANTS
  w1 = w1
  w2 = w2
  b1 = b1
  Owner <- OwnedByOne
  Workers = {w1, w2}
  Bots = {b1}
  MaxRequests = 2
  MaxPending = 1
  MaxTasks = 1
  ErrorThreshold = 1
  HighCapacity = 1
  LowCapacity = 1
  Scenes <- MCScenes
INVARIANTS
  CallbackFiresOnce
  OutcomeIsTrue
  NoResultIsLost
  CleanExit
PROPERTIES
  CallbackResolved
  ShutdownCompletes
CHECK_DEADLOCK FALSE
