SPECIFICATION FairSpec
CONSTANTS
  click = click
  walk = walk
  Calls = {click, walk}
  Clicks = {click}
  Retry = {"Transient", "ServerRejected"}
  UnlimitedRetries = FALSE
  MaxRetries = 2
  Capacity = 1
  MaxGeneration = 3
CHECK_DEADLOCK FALSE
INVARIANTS
  AcceptedAnsweredOnce
  RetryBudget
PROPERTIES
  ImplementsContract
  StopTakesEffect
  EveryCallAnswered
