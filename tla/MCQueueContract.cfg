SPECIFICATION QueueSpec
CONSTANTS
  HighCapacity = 2
  LowCapacity = 1
  Bots = {b1, b2}
  Items = {"hud_respawned", "hud_vitals", "hud_hotbar", "hud_time", "chat"}
  MaxPushes = 5
SYMMETRY Symmetry
CHECK_DEADLOCK FALSE
INVARIANTS
  CriticalNeverLost
  LatestStateWins
  DeliveredInOrder
