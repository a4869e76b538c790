SPECIFICATION RegistrySpec
CONSTANTS
  lobby = lobby
  tor = tor
  rogue = rogue
  none = none
  ann = ann
  bob = bob
  cyd = cyd
  red = red
  blue = blue
  Servers = {lobby}
  Proxies = {tor, rogue}
  ProxyProfileIds = {tor}
  NoProxy = none
  Usernames = {ann, bob, cyd}
  Groups = {red, blue}
  MaxId = 2
  MaxBots = 2
  MaxGroups = 1
  MaxBotsPerGroup = 2
INVARIANTS
  IndexMatches
  NothingDangles
  AllOrNothing
