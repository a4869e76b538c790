------------------------------ MODULE MCSession ------------------------------
(* Instances of Session for TLC.                                           *)
EXTENDS Session

CONSTANTS
  side, list, tab, \* scoreboard
  red, blue,
  one, two, ann, bob,
  k1, k2, k3,     \* keys of the trackers
  v1, v2,
  me, other, sA, sB, cA, cB, cC

With(proxy, premium, accept, valid) ==
  [proxy |-> proxy, premium |-> premium, accept |-> accept, valid |-> valid]

\* Every way to reach a server; a premium session that accepts packs, one
\* that is neither, and a user name that is refused.
MCConfigs ==
  {With("none", TRUE, TRUE, TRUE), With("credentials", FALSE, FALSE, TRUE),
   With("long_credentials", TRUE, TRUE, TRUE), With("long_target", TRUE, TRUE, TRUE),
   With("open", FALSE, FALSE, FALSE)}

\* keep_alive stands for ping and select_known_packs too.
MCServerKinds ==
  {"plugin_request", "encryption_begin", "authenticate", "compress", "success",
   "keep_alive", "data", "bad", "add_resource_pack",
   "finish_configuration", "start_configuration", "disconnect"}

MCTraffics ==
  {"wire", "silence", "player", "keys", "board", "teams", "bars", "cooldowns",
   "effects", "border", "chat", "hotbar", "players", "entities", "chunks"}

MCSilence == {"silence"}

\* Turning, and a walk to a place.
MCPlayerCommands ==
  {[kind |-> "Look", facing |-> "east"], [kind |-> "WalkTo", x |-> 2]}

\* To either end, hence to either chunk.
MCTeleports == {[x |-> 0, facing |-> "south"], [x |-> 2, facing |-> "south"]}

MCChunks == {0, 1}

\* cA and cB have the same hash.
MCFingerprint == [c \in {cA, cB, cC} |-> IF c = cC THEN 1 ELSE 0]
=============================================================================
