SPECIFICATION FairSpec
CONSTANTS
  w0 = w0
  w1 = w1
  w2 = w2
  bot = bot
  Workers = {w0, w1, w2}
  Coordinator = w0
  Bots = {bot}
  MaxCalls = 1
  MaxActions = 1
  Deadlines = {"startup", "cleanup", "shutdown"}
INVARIANTS
  FailedStartLeavesNothing
  BotsWaitForWorkers
PROPERTIES
  BlamesTheCulprit
  StartupReturns
  WorkersEnd
  ShutdownReturns
CHECK_DEADLOCK FALSE
