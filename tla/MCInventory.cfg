SPECIFICATION FairSpec
CONSTANTS
  MaxClicks = 2
  WindowCycle = 2
  MaxStateId = 1
  MaxPending = 2
  MaxCompleted = 1
  Timeout = 2
  Buttons = {"Left"}
  Scenes <- MCScenes
INVARIANTS
  EndsOnce
  ClickHitsTheWindowSeen
  PendingHasItsWindow
  AnswerIsTheVerdict
PROPERTY
  EveryClickEnds
CHECK_DEADLOCK FALSE
