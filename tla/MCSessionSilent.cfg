CONSTANTS
  Configs <- MCConfigs
  ServerKinds <- MCServerKinds
  MaxLoginPackets = 3
  MaxConfigurationPackets = 2
  ReadTimeout = 2
  MaxInFlight = 2
  MaxPlayPackets = 2
  MaxPlaySends = 1
  MaxFaults = 1
  MaxPosition = 2
  PositionEpsilon = 1
  ReminderInterval = 2
  Objectives = {side, list, tab}
  Slots = {one, two}
  Owners = {ann, bob}
  Teams = {red, blue}
  Members = {ann, bob}
  MaxObjectives = 2
  MaxDisplaySlots = 1
  MaxScores = 2
  MaxTeams = 2
  MaxTeamMembers = 1
  None = None
  Names = {k1, k2, k3}
  Values = {v1, v2}
  MaxEntries = 2
  MaxPlayers = 2
  MaxChat = 2
  Absent = Absent
  Bots = {me, other}
  Scopes = {sA, sB}
  Chunks <- MCChunks
  Contents = {cA, cB, cC}
  Fingerprint <- MCFingerprint
  MaxKeys = 2
  MaxCollisions = 1
  NoScope = NoScope
  Traffics <- MCSilence
  PlayerCommands <- MCPlayerCommands
  Teleports <- MCTeleports
  MaxMessages = 4
  Me = me
  tab = tab
  side = side
  list = list
  red = red
  blue = blue
  one = one
  two = two
  ann = ann
  bob = bob
  k1 = k1
  k2 = k2
  k3 = k3
  v1 = v1
  v2 = v2
  me = me
  other = other
  sA = sA
  sB = sB
  cA = cA
  cB = cB
  cC = cC
SPECIFICATION Spec
INVARIANT
  SilenceIsNoticed
CHECK_DEADLOCK FALSE
