------------------------------- MODULE Session -------------------------------
(***************************************************************************)
(* A client from connect to the end of run: the connection (Connect) with  *)
(* the PlayState its play loop keeps (Player, Scoreboard, Trackers), the   *)
(* world it shares with the other bots of the process (SharedWorld), what  *)
(* the server has been told of the player, and what a subscriber of the    *)
(* events can tell of the state.                                           *)
(*                                                                         *)
(* The handlers of the play loop are one to a packet, a command or a tick, *)
(* and keep apart parts of the state: `traffic`, chosen once, says which   *)
(* family of packets the server sends. With "wire" it is the packets of    *)
(* Connect, from connect on and with every fault; with another one the     *)
(* client is connected, plainly and to a server that will not fail it, and *)
(* with "silence" time is kept.                                            *)
(***************************************************************************)
EXTENDS Connect, Player, Scoreboard, Trackers, SharedWorld

CONSTANTS
  Traffics,        \* families of packets
  PlayerCommands,  \* the commands given while the player is watched
  Teleports,       \* the positions the server sends, with a facing
  MaxMessages,     \* bound: chat messages of a session
  Me               \* the bot of this session

ASSUME SessionAssumption ==
  /\ Me \in Bots
  /\ Scopes # {} /\ Chunks # {} /\ Contents # {}
  /\ PlayerCommands \subseteq Commands
  /\ Teleports \subseteq [x : Positions, facing : Facings]

VARIABLES
  traffic,
  play,    \* PlayState
  heard,   \* external: what the server knows of the player
  mirror   \* a subscriber: what the events have said since the last login

stateVars == <<play, heard, mirror>>
vars == <<connectVars, worldVars, stateVars, traffic>>

HotbarSlots == {0, 1}

NewPlayState ==
  [player |-> NewPlayer, wasAlive |-> TRUE, controller |-> NewController,
   own |-> FALSE,
   received |-> FALSE, pending |-> FALSE, lastInput |-> NoInput,
   board |-> EmptyBoard, shown |-> EmptyTrackers,
   hotbar |-> [s \in HotbarSlots |-> Absent], selected |-> 0, held |-> Absent,
   players |-> Empty, entities |-> Empty]

\* A freshly joined player; `placed` and `turned` are history: the server has
\* given a position in this world; the player has turned between that and
\* player_loaded.
Unheard ==
  [x |-> 0, facing |-> "south", flags |-> FALSE, input |-> NoInput,
   placed |-> FALSE, turned |-> FALSE]

EmptyMirror ==
  [objectives |-> {}, slots |-> [s \in Slots |-> None], scores |-> {},
   bars |-> Empty, cooldowns |-> Empty, effects |-> Empty, border |-> Absent,
   chat |-> <<>>, held |-> Absent, joined |-> {}, entities |-> {}, dead |-> FALSE]

Init ==
  /\ traffic \in Traffics
  /\ IF traffic = "wire" THEN ConnectInit ELSE ConnectedInit
  /\ IdleInit
  /\ WorldInit
  /\ play = NewPlayState /\ heard = Unheard /\ mirror = EmptyMirror

-----------------------------------------------------------------------------
(* The life of a PlayState: one to a play session, dropped with it.        *)

Rebuild ==
  /\ IF task'.stage = "Over" \/ (task'.stage = "Play" /\ task.stage # "Play")
       THEN play' = NewPlayState /\ heard' = Unheard /\ LeaveWorld(Me)
       ELSE UNCHANGED <<play, heard, worldVars>>
  /\ UNCHANGED <<mirror, traffic>>

\* A play packet with something to say, in a session that has begun.
Says(family, t) ==
  /\ traffic \in family /\ play.own
  /\ Receive({"Play"}, "data") /\ Handle(t)
  /\ UNCHANGED traffic

\* ... that the play loop folds into the PlayState.
Folded(p, m) == play' = p /\ mirror' = m /\ UNCHANGED <<heard, worldVars>>

-----------------------------------------------------------------------------
(* The player.                                                             *)

\* The first packet of a play session.
Login(scope) ==
  /\ ~play.own
  /\ Receive({"Play"}, "data") /\ Handle(task)
  /\ play' = [play EXCEPT !.own = TRUE, !.player = on_login(@)]
  /\ heard' = [heard EXCEPT !.placed = FALSE]
  /\ mirror' = EmptyMirror
  /\ EnterWorld(Me, scope)
  /\ UNCHANGED traffic

Respawn_KeepsThePosition(scope) ==
  /\ Says({"player", "chunks"}, task)
  /\ play' = [play EXCEPT !.pending = FALSE, !.player = on_respawn(@)]
  /\ heard' = [heard EXCEPT !.placed = FALSE]
  /\ EnterWorld(Me, scope)
  /\ UNCHANGED mirror

Respawn(scope) ==
  /\ Says({"player", "chunks"}, task)
  /\ play' = [play EXCEPT !.pending = FALSE, !.received = FALSE,
                          !.player = on_respawn(@)]
  /\ heard' = [heard EXCEPT !.placed = FALSE]
  /\ EnterWorld(Me, scope)
  /\ UNCHANGED mirror

\* teleport_confirm and teleport_ack_movement.
Position(x, facing) ==
  LET p == on_position(play.player, x, facing)
  IN  /\ Says({"player"}, Send(task, <<"play", "play">>, "read"))
      /\ play' = [play EXCEPT !.received = TRUE,
                              !.player = sync_movement_baseline(p)]
      /\ heard' = [heard EXCEPT !.x = p.x, !.facing = p.facing,
                                !.flags = p.flags, !.placed = TRUE,
                                !.turned = FALSE]
      /\ UNCHANGED <<mirror, worldVars>>

\* The Health event, and on the way from alive to dead the Death event.
Health(alive) ==
  /\ Says({"player"}, task)
  /\ Folded([play EXCEPT !.player = on_health(@, alive), !.wasAlive = alive],
            [mirror EXCEPT !.dead = (@ \/ play.wasAlive) /\ ~alive])

\* Commands that move the player; Look acts on the player at once.
Control ==
  /\ traffic \in {"player", "keys"}
  /\ \E command \in IF traffic = "keys" THEN Commands ELSE PlayerCommands :
       play' = [play EXCEPT
                  !.controller = ApplyCommand(@, command),
                  !.player.facing = IF command.kind = "Look" THEN command.facing
                                                             ELSE @]
  /\ Interrupt(task, FALSE)
  /\ UNCHANGED <<sends, heard, mirror, worldVars, traffic>>

-----------------------------------------------------------------------------
(* handle_tick. With "silence" the moment of a tick matters.               *)

Ticks(t) ==
  /\ traffic = "silence" => clock.due
  /\ traffic \in {"wire", "silence", "player"}
  /\ Interrupt(t, TRUE)
  /\ UNCHANGED <<sends, mirror, worldVars, traffic>>

TickDead ==
  /\ ~play.player.alive
  /\ IF play.pending THEN Ticks(task) /\ UNCHANGED play
     ELSE /\ Ticks(Send(task, <<"play">>, "read"))
          /\ play' = [play EXCEPT !.pending = TRUE]
  /\ UNCHANGED heard

ReadyToLoad ==
  /\ ~play.player.loaded /\ play.received
  /\ HasChunk(Me, ChunkOf(play.player.x))

TickLoads ==
  /\ play.player.alive /\ ReadyToLoad
  /\ Ticks(Send(task, <<"play">>, "read"))
  /\ play' = [play EXCEPT !.player = mark_loaded(@)]
  /\ heard' = [heard EXCEPT !.turned = heard.facing # play.player.facing]

\* drive; where the terrain is not there, physics skips the tick.
Terrain(p, dx) ==
  p.loaded /\ HasChunk(Me, ChunkOf(p.x)) /\ HasChunk(Me, ChunkOf(p.x + dx))

Moves(p) ==
  {[dx |-> 0, flags |-> p.flags]} \cup
    {v \in [dx : {-1, 0, 1}, flags : BOOLEAN] :
       p.x + v.dx \in Positions /\ Terrain(p, v.dx)}

\* The frames of a tick: player_input on a change, the movement packet, and
\* tick_end.
TickFrames(p) ==
  IF ~p.loaded THEN <<>>
  ELSE (IF p.input # play.lastInput THEN <<"play">> ELSE <<>>)
         \o (IF Moved(p) THEN <<"play">> ELSE <<>>) \o <<"play">>

TickMoves(look, v) ==
  LET driven == worlds[Me].scope # NoScope
      p == IF driven
             THEN tick_physics(Driven(play.controller, play.player, look),
                               v.dx, v.flags)
             ELSE play.player
      frames == TickFrames(p)
  IN  /\ play.player.alive /\ ~ReadyToLoad
      /\ Ticks(IF frames = <<>> THEN task ELSE Send(task, frames, "read"))
      /\ play' = [play EXCEPT
                    !.controller = IF driven THEN DrivenController(@, play.player)
                                             ELSE @,
                    !.player = IF p.loaded THEN movement_packet(p) ELSE p,
                    !.lastInput = IF p.loaded THEN p.input ELSE @]
      /\ heard' = IF p.loaded
                    THEN [Reported(p, heard) EXCEPT
                            !.input = p.input,
                            !.turned = @ /\ ~RotationChanged(p)]
                    ELSE heard

Tick ==
  \/ TickDead
  \/ TickLoads
  \/ \E look \in Looks(play.controller), v \in Moves(play.player) :
       TickMoves(look, v)

-----------------------------------------------------------------------------
(* The scoreboard, and what its events say.                                *)

LearnBoard(m, e) ==
  IF ~e.applied THEN m
  ELSE CASE e.kind = "objective" ->
              IF e.current THEN [m EXCEPT !.objectives = @ \cup {e.name}]
              ELSE [m EXCEPT
                      !.objectives = @ \ {e.name},
                      !.slots = [s \in Slots |-> IF @[s] = e.name THEN None
                                                                 ELSE @[s]],
                      !.scores = {k \in @ : k[2] # e.name}]
         [] e.kind = "slot" -> [m EXCEPT !.slots[e.name] = e.current]
         [] e.kind = "score" ->
              IF e.current THEN [m EXCEPT !.scores = @ \cup {e.name}]
              ELSE [m EXCEPT !.scores =
                      {k \in @ : k[1] # e.name[1] \/ e.name[2] \notin {k[2], None}}]
         [] e.kind = "team" -> m

\* apply_scoreboard. Teams have nothing to do with the rest of the board.
Board(family, outcome) ==
  /\ Says({family}, task)
  /\ Folded([play EXCEPT !.board = outcome.board],
            LearnBoard(mirror, outcome.event))

\* team_update: a team packet, by its mode.
TeamPackets ==
  LET b == play.board
  IN  \E t \in Teams :
        \/ Board("teams", TeamRemove(b, t))
        \/ Board("teams", TeamUpdate(b, t))
        \/ Board("teams", TeamUnknown(b, t))
        \/ \E ms \in MemberLists :
             \/ Board("teams", TeamCreate(b, t, ms))
             \/ Board("teams", TeamAdd(b, t, ms))
             \/ Board("teams", TeamDrop(b, t, ms))

\* decode_update: the objective, display slot, score and team packets.
Scoreboards ==
  LET b == play.board
  IN  \/ \E o \in Objectives :
           \/ Board("board", ObjectiveCreate(b, o))
           \/ Board("board", ObjectiveUpdate(b, o))
           \/ Board("board", ObjectiveUnknown(b, o))
           \/ Board("board", ObjectiveRemove(b, o))
      \/ \E s \in Slots, o \in Objectives \cup {None} :
           Board("board", DisplaySlot(b, s, o))
      \/ \E owner \in Owners :
           \/ \E o \in Objectives : Board("board", SetScore(b, owner, o))
           \/ \E o \in Objectives \cup {None} :
                Board("board", ResetScore(b, owner, o))
      \/ TeamPackets

-----------------------------------------------------------------------------
(* The other trackers. An event carries what is there now; a subscriber    *)
(* leaves aside one whose update was not applied.                          *)

\* apply_boss_bar.
BossBar(n, action, value) ==
  LET applied == BarApplied(play.shown.bars, n, action)
      bars == Changed(play.shown.bars, n, action, value, applied)
  IN  /\ Says({"bars"}, task)
      /\ Folded([play EXCEPT !.shown.bars = bars],
                [mirror EXCEPT !.bars[n] = IF applied THEN bars[n] ELSE @])

\* HudUpdate::Cooldown.
Cooldown(n, action, value) ==
  LET applied == EntryApplied(play.shown.cooldowns, n, action)
      cooldowns == Changed(play.shown.cooldowns, n, action, value, applied)
  IN  /\ Says({"cooldowns"}, task)
      /\ Folded([play EXCEPT !.shown.cooldowns = cooldowns],
                [mirror EXCEPT !.cooldowns[n] = IF applied THEN cooldowns[n]
                                                           ELSE @])

\* HudUpdate::SetEffect and RemoveEffect: those of another entity are not
\* ours, and say nothing.
Effect_OfAnyone(n, action, value, mine) ==
  LET applied == EntryApplied(play.shown.effects, n, action)
      effects == Changed(play.shown.effects, n, action, value, applied)
  IN  /\ Says({"effects"}, task)
      /\ Folded([play EXCEPT !.shown.effects = effects],
                [mirror EXCEPT !.effects[n] = IF applied /\ mine THEN effects[n]
                                                                ELSE @])

Effect(n, action, value, mine) ==
  LET applied == mine /\ EntryApplied(play.shown.effects, n, action)
      effects == Changed(play.shown.effects, n, action, value, applied)
  IN  /\ Says({"effects"}, task)
      /\ Folded([play EXCEPT !.shown.effects = effects],
                [mirror EXCEPT !.effects[n] = IF applied THEN effects[n] ELSE @])

\* The five updates of the world border.
Border(action, value) ==
  LET applied == BorderApplied(play.shown.border, action)
  IN  /\ Says({"border"}, task)
      /\ Folded([play EXCEPT !.shown.border = IF applied THEN value ELSE @],
                [mirror EXCEPT !.border = IF applied THEN value ELSE @])

\* ignore_malformed_optional_packet: a presentation, scoreboard or HUD packet
\* that cannot be decoded is dropped, and the session goes on.
MalformedOptional ==
  /\ Says({"bars", "chat", "board", "teams", "cooldowns", "effects", "border"}, task)
  /\ Folded(play, mirror)

Chat ==
  LET shown == ChatRing(play.shown)
  IN  /\ play.shown.nextChat < MaxMessages
      /\ Says({"chat"}, task)
      /\ Folded([play EXCEPT !.shown = shown],
                [mirror EXCEPT !.chat = Append(@, play.shown.nextChat)])

\* on_selected_hotbar and on_player_inventory; a slot outside the hotbar
\* changes nothing.
SelectHotbar(s) ==
  LET held == IF s \in HotbarSlots THEN play.hotbar[s] ELSE play.held
  IN  /\ Says({"hotbar"}, task)
      /\ Folded([play EXCEPT !.selected = IF s \in HotbarSlots THEN s ELSE @,
                             !.held = held],
                [mirror EXCEPT !.held = held])

HotbarItem(s, value) ==
  LET held == IF s = play.selected THEN value ELSE play.held
  IN  /\ Says({"hotbar"}, task)
      /\ Folded([play EXCEPT !.hotbar[s] = value, !.held = held],
                [mirror EXCEPT !.held = held])

\* player_info and player_remove, with their PlayerJoined and PlayerLeft.
PlayerInfo(n, named) ==
  /\ Says({"players"}, task)
  /\ Folded([play EXCEPT !.players = Informed(@, n, named)],
            [mirror EXCEPT !.joined =
               IF Joins(play.players, n, named) THEN @ \cup {n} ELSE @])

PlayerRemove(n) ==
  /\ Says({"players"}, task)
  /\ Folded([play EXCEPT !.players[n] = Absent],
            [mirror EXCEPT !.joined =
               IF play.players[n] # Absent THEN @ \ {n} ELSE @])

\* EntitySpawned and EntityRemoved; moves are not reported.
SpawnEntity(n, value) ==
  /\ Says({"entities"}, task)
  /\ Folded([play EXCEPT !.entities = Spawned(@, n, value)],
            [mirror EXCEPT !.entities = @ \cup {n}])

DestroyEntity(n) ==
  /\ Says({"entities"}, task)
  /\ Folded([play EXCEPT !.entities = Destroyed(@, n)],
            [mirror EXCEPT !.entities = @ \ {n}])

MoveEntity(n, value) ==
  /\ Says({"entities"}, task)
  /\ Folded([play EXCEPT !.entities = EntityUpdated(@, n, value)], mirror)

-----------------------------------------------------------------------------
(* The world: map_chunk, unload_chunk, and the updates of a chunk.         *)

\* Which world and which content it is matters where bots share them, which
\* position where one bot moves.
OneOf(set) == {CHOOSE e \in set : TRUE}
Variety(set) == IF traffic = "chunks" THEN set ELSE OneOf(set)
Places == IF traffic = "chunks" THEN OneOf(Chunks) ELSE Chunks

MapChunk(p, content) ==
  /\ Says({"player", "chunks"}, task)
  /\ ChunkArrives(Me, p, content)
  /\ UNCHANGED stateVars

UnloadChunk(p) ==
  /\ Says({"player", "chunks"}, task)
  /\ ChunkUnloads(Me, p)
  /\ UNCHANGED stateVars

ChunkUpdate(p, content) ==
  /\ HasChunk(Me, p)
  /\ Says({"chunks"}, task)
  /\ ChunkChanges(Me, p, content)
  /\ UNCHANGED stateVars

\* A chunk before the login, or an update of a chunk that is not there, ends
\* the session.
ChunkRefused ==
  /\ traffic = "chunks"
  /\ ~play.own \/ \E p \in Places : ~HasChunk(Me, p)
  /\ Receive({"Play"}, "data") /\ Handle(Err(task, "ProtocolIncompatible"))
  /\ Rebuild

\* The other bots of the process.
OtherBots ==
  /\ traffic = "chunks"
  /\ \E b \in Bots \ {Me}, p \in Places : WorldStep(b, p)
  /\ UNCHANGED <<connectVars, stateVars, traffic>>

-----------------------------------------------------------------------------
PlayerPackets ==
  \/ \E scope \in Variety(Scopes) : Login(scope) \/ Respawn(scope)
  \/ \E to \in Teleports : Position(to.x, to.facing)
  \/ \E alive \in BOOLEAN : Health(alive)

WorldPackets ==
  \/ \E p \in Places, content \in Variety(Contents) :
       MapChunk(p, content) \/ ChunkUpdate(p, content)
  \/ \E p \in Places : UnloadChunk(p)
  \/ ChunkRefused

\* boss_bar_update, by its action: an update whose field is missing is Unknown.
BossBarPackets ==
  \E n \in Names, value \in Values :
    \E action \in {"Add", "Update", "Remove", "Unknown"} : BossBar(n, action, value)

\* The packet that sets up the world border, and those that change a part of it.
BorderPackets ==
  \E action \in {"Initialize", "Update"}, value \in Values : Border(action, value)

TrackerPackets ==
  \/ BossBarPackets \/ BorderPackets \/ MalformedOptional
  \/ \E n \in Names, value \in Values :
       \/ \E action \in {"Set", "Remove"} : Cooldown(n, action, value)
       \/ \E action \in {"Set", "Remove", "Negative"}, mine \in BOOLEAN :
            Effect(n, action, value, mine)
       \/ SpawnEntity(n, value) \/ MoveEntity(n, value)
  \/ Chat
  \/ \E s \in HotbarSlots \cup {9} : SelectHotbar(s)
  \/ \E s \in HotbarSlots, value \in Values : HotbarItem(s, value)
  \/ \E n \in Names :
       \/ PlayerRemove(n) \/ DestroyEntity(n)
       \/ \E named \in BOOLEAN : PlayerInfo(n, named)

\* External: outside "wire", one packet after the other, and configurations
\* where there is little else.
ServerMoves ==
  \/ traffic = "wire" /\ ServerCloses
  \/ \E kind \in ServerKinds :
       /\ IF traffic = "wire" THEN kind = "data" => server.phase # "play"
          ELSE /\ toClient = <<>>
               /\ \/ kind = "data"
                  \/ /\ kind \in {"start_configuration", "finish_configuration"}
                     /\ traffic \notin {"player", "keys", "chunks"}
       /\ ServerSends(kind)

Next ==
  \/ Connection /\ Rebuild
  \/ ServerMoves /\ Rebuild
  \/ traffic = "wire" /\ (RunAgain \/ PlaySend) /\ Rebuild
  \/ traffic = "silence" /\ Clock /\ Rebuild
  \/ Tick \/ Control
  \/ PlayerPackets \/ WorldPackets
  \/ /\ traffic \notin {"wire", "silence", "player", "keys", "chunks"}
     /\ Scoreboards \/ TrackerPackets
  \/ OtherBots

Spec == Init /\ [][Next]_vars

\* A task that can move does, the connect deadline passes, and a download
\* ends, because it has a timeout. Nothing is assumed of the server, the
\* proxy or the session server, nor of the families other than "wire", in which
\* the server neither kicks the client nor goes away.
FairSpec ==
  /\ Spec
  /\ WF_vars(traffic = "wire" /\ Client /\ Rebuild)
  /\ WF_vars(traffic = "wire" /\ DeadlinePasses /\ Rebuild)
  /\ WF_vars(traffic = "wire" /\ Download /\ Rebuild)

-----------------------------------------------------------------------------
(* Properties.                                                             *)

\* Whenever the play loop awaits its next packet, the server knows the
\* player: its position to within the distance that is not worth a packet,
\* its flags, the keys it holds, and, unless it has turned while it was
\* waiting for terrain, its facing; so no movement is lost between ticks,
\* teleports, deaths and respawns (movement_packet, teleport_ack_movement,
\* mark_loaded, send_player_input_if_changed).
ServerKnowsUs ==
  LET p == play.player
  IN  p.loaded /\ task.stage = "Play" /\ task.wait = "read" =>
        /\ heard.x = p.xLast /\ Abs(p.x - heard.x) <= PositionEpsilon
        /\ heard.flags = p.flagsLast
        /\ heard.input = play.lastInput
        /\ heard.facing = p.facingLast \/ heard.turned

\* player_loaded is sent, and the player moves, only in a world in which the
\* server has given it a position: one from before a respawn does not count
\* (received_position, handle_tick).
LoadedInThisWorld == play.player.loaded => heard.placed

\* The movement keys and the input they stand for agree after any sequence of
\* commands, so that releasing one key never leaves another one's movement
\* wrong (Controller::apply, recompute_forward, recompute_strafe).
KeysMatchInput == KeysMatch(play.controller)

\* What is shown or scored has its objective, a member is in the one team that
\* member_teams names, and no collection outgrows its limit, whatever is
\* created, moved and removed (ScoreboardState::apply).
ScoreboardConsistent == Consistent(play.board) /\ WithinLimits(play.board)

\* A subscriber that takes from every event what is there now, and leaves
\* aside the events of updates that were not applied, knows the state: the
\* objectives, slots and scores, boss bars, cooldowns, effects, the border,
\* the latest chat messages, the item held, the entities, and whether the
\* player is dead; and a player whose joining was announced is listed with a
\* name until its leaving is (apply_presentation, apply_scoreboard, apply_hud,
\* apply_state_packet).
SubscriberSeesTheState ==
  play.own =>
    /\ mirror.objectives = play.board.objectives
    /\ mirror.slots = play.board.slots
    /\ mirror.scores = play.board.scores
    /\ mirror.bars = play.shown.bars
    /\ mirror.cooldowns = play.shown.cooldowns
    /\ mirror.effects = play.shown.effects
    /\ mirror.border = play.shown.border
    /\ \A i \in 1..Len(play.shown.chat) :
         play.shown.chat[i] =
           mirror.chat[Len(mirror.chat) - Len(play.shown.chat) + i]
    /\ mirror.held = play.hotbar[play.selected]
    /\ \A n \in mirror.joined : play.players[n] = "named"
    /\ mirror.entities = Present(play.entities)
    /\ mirror.dead = ~play.player.alive
=============================================================================
