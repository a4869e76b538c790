---------------------------- MODULE SessionProofs ----------------------------
(***************************************************************************)
(* Six properties of Session for any server, any limits, any bots and any  *)
(* commands.  The inductive invariant has three parts:                     *)
(*   PlayInv  - what the PlayState and the server know of each other;      *)
(*   WorldInv - every chunk a world holds has the content it was told;     *)
(*   SeenInv  - the scoreboard is sound and within its limits, and what a  *)
(*              subscriber was told adds up to what the trackers hold.     *)
(* PlayInv and WorldInv stand by themselves; SeenInv needs the type of the *)
(* player from PlayInv.  The facts about the operators of each component   *)
(* come first.  The link is the subject of LinkProofs.                     *)
(***************************************************************************)
EXTENDS Session, FiniteSetTheorems, TLAPS

-----------------------------------------------------------------------------
(* The player: what the controller's commands and a tick keep, and what    *)
(* movement_packet leaves between the player and what was reported of it.  *)

Controller ==
  [manual : MovementInput, keys : [Keys -> BOOLEAN],
   goal : Positions \cup {NoGoal}, random : BOOLEAN]

-----------------------------------------------------------------------------
\* A new controller holds no key and has the neutral input.
LEMMA NewControllerMatches ==
  NewController \in Controller /\ KeysMatch(NewController)
BY DEF NewController, Controller, KeysMatch, Axis, MovementInput, NoInput, NoGoal,
       Impulses, Keys

\* set_input sets the keys with the input.
LEMMA SetInputMatches ==
  ASSUME NEW c \in Controller, NEW input \in MovementInput
  PROVE  SetInput(c, input) \in Controller /\ KeysMatch(SetInput(c, input))
<1> DEFINE d == SetInput(c, input)
<1>1. input.forward \in {-1, 0, 1} /\ input.strafe \in {-1, 0, 1}
  BY DEF MovementInput, Impulses
<1>2. KeysOf(input) \in [Keys -> BOOLEAN]
  BY <1>1 DEF KeysOf
<1>3. d \in Controller /\ d.manual = input /\ d.keys = KeysOf(input)
  BY Zenon, <1>2 DEF SetInput, Controller
<1>4. /\ input.forward = Axis(KeysOf(input)["forward"], KeysOf(input)["backward"])
      /\ input.strafe = Axis(KeysOf(input)["left"], KeysOf(input)["right"])
  BY <1>1 DEF KeysOf, Keys, Axis
<1> QED BY <1>3, <1>4 DEF KeysMatch

\* Pressing or releasing one key recomputes the input from the keys.
LEMMA SetKeyMatches ==
  ASSUME NEW c \in Controller, KeysMatch(c), NEW key \in Keys, NEW on \in BOOLEAN
  PROVE  SetKey(c, key, on) \in Controller /\ KeysMatch(SetKey(c, key, on))
BY Zenon DEF SetKey, recompute_forward, recompute_strafe, Controller, KeysMatch, Axis,
       MovementInput, Impulses, Keys

\* Holding or releasing everything keeps keys and input together.
LEMMA HoldMatches ==
  ASSUME NEW c \in Controller, KeysMatch(c), NEW on \in BOOLEAN
  PROVE  Hold(c, on) \in Controller /\ KeysMatch(Hold(c, on))
BY DEF Hold, Controller, KeysMatch, Axis, MovementInput, Impulses, Keys

\* Whatever command Controller::apply is given, the keys and the input they
\* stand for agree after it if they did before.
THEOREM CommandsKeepTheKeys ==
  ASSUME NEW c \in Controller, KeysMatch(c), NEW command \in Commands
  PROVE  ApplyCommand(c, command) \in Controller /\ KeysMatch(ApplyCommand(c, command))
<1>1. CASE command.kind = "SetInput"
  <2>1. command.input \in MovementInput
    BY <1>1 DEF Commands
  <2> QED BY <1>1, <2>1, SetInputMatches DEF ApplyCommand
<1>2. CASE command.kind = "Key"
  <2>1. command.key \in Keys /\ command.on \in BOOLEAN
    BY <1>2 DEF Commands
  <2> QED BY <1>2, <2>1, SetKeyMatches DEF ApplyCommand
<1>3. CASE command.kind = "Hold"
  <2>1. command.on \in BOOLEAN
    BY <1>3 DEF Commands
  <2> QED BY <1>3, <2>1, HoldMatches DEF ApplyCommand
<1>4. CASE command.kind = "SetRandomLook"
  <2>1. command.on \in BOOLEAN
    BY <1>4 DEF Commands
  <2> QED BY <1>4, <2>1 DEF ApplyCommand, SetRandomLook, Controller, KeysMatch
<1>5. CASE command.kind = "WalkTo"
  <2>1. command.x \in Positions
    BY <1>5 DEF Commands
  <2> QED BY <1>5, <2>1 DEF ApplyCommand, WalkTo, Controller, KeysMatch
<1>6. CASE command.kind = "Stop"
  <2>1. Stop(c) \in Controller /\ KeysMatch(Stop(c))
    BY NewControllerMatches DEF Stop, Controller, KeysMatch
  <2> QED BY <1>6, <2>1 DEF ApplyCommand
<1>7. CASE command.kind = "Look"
  BY <1>7 DEF ApplyCommand
<1>8. command.kind \in {"SetInput", "Key", "Hold", "SetRandomLook", "WalkTo", "Stop",
                       "Look"}
  BY DEF Commands
<1> QED BY <1>1, <1>2, <1>3, <1>4, <1>5, <1>6, <1>7, <1>8

\* ... and so they do after a tick, which may forget the goal.
LEMMA DriveKeepsTheKeys ==
  ASSUME NEW c \in Controller, KeysMatch(c), NEW p
  PROVE  DrivenController(c, p) \in Controller /\ KeysMatch(DrivenController(c, p))
BY DEF DrivenController, Controller, KeysMatch

-----------------------------------------------------------------------------
LocalPlayer ==
  [x : Int, facing : Facings, flags : BOOLEAN, alive : BOOLEAN,
   loaded : BOOLEAN, input : MovementInput,
   xLast : Int, facingLast : Facings, flagsLast : BOOLEAN, reminder : Nat]

\* What the server knows of the player, as Session keeps it.
Heard ==
  [x : Int, facing : Facings, flags : BOOLEAN, input : MovementInput,
   placed : BOOLEAN, turned : BOOLEAN]

\* A new player is a player.
LEMMA NewPlayerType == NewPlayer \in LocalPlayer
BY DEF NewPlayer, LocalPlayer, Facings, MovementInput, NoInput, Impulses

\* The three ways of reporting the player keep its type.
LEMMA BaselineType ==
  ASSUME NEW p \in LocalPlayer
  PROVE  /\ sync_movement_baseline(p) \in LocalPlayer
         /\ mark_loaded(p) \in LocalPlayer
         /\ movement_packet(p) \in LocalPlayer
<1>1. sync_movement_baseline(p) \in LocalPlayer
  BY Zenon DEF sync_movement_baseline, LocalPlayer
<1>2. [p EXCEPT !.loaded = TRUE] \in LocalPlayer
  BY Zenon DEF LocalPlayer
<1>3. ASSUME NEW q \in LocalPlayer
      PROVE  sync_movement_baseline(q) \in LocalPlayer
  BY Zenon DEF sync_movement_baseline, LocalPlayer
<1>4. mark_loaded(p) \in LocalPlayer
  BY <1>2, <1>3 DEF mark_loaded
<1>5. movement_packet(p) \in LocalPlayer
  <2>1. CASE PositionChanged(p)
    BY Zenon, <2>1 DEF movement_packet, LocalPlayer
  <2>2. CASE ~PositionChanged(p)
    <3>1. p.reminder + 1 \in Nat
      BY DEF LocalPlayer
    <3> QED BY Zenon, <2>2, <3>1 DEF movement_packet, LocalPlayer
  <2> QED BY <2>1, <2>2
<1> QED BY <1>1, <1>4, <1>5

\* Applying the controller keeps the player's type.
LEMMA DrivenType ==
  ASSUME NEW c \in Controller, NEW p \in LocalPlayer, NEW look \in Looks(c)
  PROVE  Driven(c, p, look) \in LocalPlayer
BY Zenon DEF Driven, Looks, Controller, LocalPlayer, Facings, MovementInput, Impulses

\* movement_packet never lets the player be further than POSITION_EPSILON
\* from the position it has last reported, and what it leaves in its baseline
\* is what the server knows once it has the packet.
THEOREM BaselineIsReported ==
  ASSUME NEW p \in LocalPlayer,
         NEW known \in Heard, known.x = p.xLast, known.flags = p.flagsLast
  PROVE  LET m == movement_packet(p)
             h == Reported(p, known)
         IN  /\ Abs(m.x - m.xLast) <= PositionEpsilon
             /\ h.x = m.xLast /\ h.flags = m.flagsLast
             /\ known.facing = p.facingLast => h.facing = m.facingLast
<1> DEFINE m == movement_packet(p)
           h == Reported(p, known)
<1>1. /\ m.x = p.x
      /\ m.xLast = IF PositionChanged(p) THEN p.x ELSE p.xLast
      /\ m.facingLast = p.facing /\ m.flagsLast = p.flags
  BY DEF movement_packet, LocalPlayer
<1>2. /\ h.x = IF PositionChanged(p) THEN p.x ELSE known.x
      /\ h.facing = IF RotationChanged(p) THEN p.facing ELSE known.facing
      /\ h.flags = IF Moved(p) THEN p.flags ELSE known.flags
  BY DEF Reported, Heard
<1>3. Abs(m.x - m.xLast) <= PositionEpsilon
  <2>1. p.x \in Int /\ p.xLast \in Int
    BY DEF LocalPlayer
  <2>2. CASE PositionChanged(p)
    BY <1>1, <2>1, <2>2, MovementAssumption DEF Abs
  <2>3. CASE ~PositionChanged(p)
    BY <1>1, <2>1, <2>3, MovementAssumption DEF Abs, PositionChanged
  <2> QED BY <2>2, <2>3
<1>4. h.x = m.xLast /\ h.flags = m.flagsLast
  BY <1>1, <1>2 DEF Moved
<1>5. known.facing = p.facingLast => h.facing = m.facingLast
  BY <1>1, <1>2 DEF RotationChanged
<1> QED BY <1>3, <1>4, <1>5
-----------------------------------------------------------------------------
(* The shared world. intern returns a payload with the content asked for,  *)
(* shared or new, and a new one is taken from those no world holds, so     *)
(* nothing changes under a world that is not the one asked for.            *)

Payload ==
  [scope : Scopes \cup {NoScope}, at : Chunks \cup {0},
   content : Contents \cup {NoContent}]

WorldType ==
  /\ worlds \in [Bots -> [scope : Scopes \cup {NoScope},
                          chunks : [Chunks -> Payloads \cup {0}]]]
  /\ heap \in [Payloads -> Payload]
  /\ told \in [Bots -> [Chunks -> Contents \cup {NoContent}]]
  /\ \A n \in DOMAIN store : store[n].bucket \subseteq Payloads

WorldInv == WorldType /\ ChunkIsMine

\* A payload as intern is asked for it.
Asked == [scope : Scopes, at : Chunks, content : Contents]

\* Zero, a chunk that is not loaded, is no payload.
LEMMA ZeroIsNoPayload == 0 \notin Payloads
BY DEF Payloads

\* What intern returns has what was asked for in it, and no payload that some
\* world holds has changed.
Serves(r, payload) ==
  /\ r.payload \in Payloads
  /\ r.heap \in [Payloads -> Payload]
  /\ r.heap[r.payload] = payload
  /\ \A i \in Held(worlds) : r.heap[i] = heap[i]

\* intern serves the payload it is asked for, found or made.
LEMMA InternServes ==
  ASSUME WorldType, NEW payload \in Asked, Free # {}
  PROVE  Serves(intern(payload), payload)
<1> DEFINE fresh == CHOOSE i \in Free : TRUE
<1>1. fresh \in Payloads /\ fresh \notin Held(worlds)
  BY DEF Free
<1>2. payload \in Payload
  BY DEF Asked, Payload
<1>3. ASSUME NEW s
      PROVE  Serves(Allocated(fresh, payload, s), payload)
  <2> HIDE DEF fresh
  <2> QED BY <1>1, <1>2 DEF Allocated, Serves, WorldType, Held
<1>4. CASE EntryOf(Key(payload)) = {}
  <2>1. \E s : intern(payload) = Allocated(fresh, payload, s)
    BY Zenon, <1>4 DEF intern, Added
  <2> HIDE DEF fresh
  <2> QED BY <2>1, <1>3
<1>5. CASE EntryOf(Key(payload)) # {}
  <2> DEFINE n == CHOOSE n \in EntryOf(Key(payload)) : TRUE
             same == Candidates(store[n].bucket, payload)
  <2>1. n \in DOMAIN store
    BY <1>5 DEF EntryOf
  <2>2. intern(payload) = Found(n, payload, fresh)
    BY <1>5 DEF intern
  <2> HIDE DEF n, fresh
  <2>3. CASE same = {}
    <3>1. \E s : Found(n, payload, fresh) = Allocated(fresh, payload, s)
      BY <2>3 DEF Found
    <3> QED BY <2>2, <3>1, <1>3
  <2>4. CASE same # {}
    <3>1. PICK i \in same : Found(n, payload, fresh) = Reused(i, store)
      BY Zenon, <2>4 DEF Found
    <3>2. i \in Payloads /\ heap[i] = payload
      BY <3>1, <2>1 DEF Candidates, WorldType
    <3> QED BY <2>2, <3>1, <3>2 DEF Reused, Serves, WorldType
  <2> QED BY <2>3, <2>4
<1> QED BY <1>4, <1>5

-----------------------------------------------------------------------------
(* One step of a bot. In each the worlds become w, the heap a heap that    *)
(* agrees with what w holds, and told what is in it.                       *)

\* The invariant after Settle, from what the new worlds hold.
LEMMA Settled ==
  ASSUME NEW w \in [Bots -> [scope : Scopes \cup {NoScope},
                             chunks : [Chunks -> Payloads \cup {0}]]],
         NEW s, NEW h \in [Payloads -> Payload],
         Settle(w, s, h),
         told' \in [Bots -> [Chunks -> Contents \cup {NoContent}]],
         \A b \in Bots, p \in Chunks :
           IF w[b].chunks[p] # 0
             THEN h[w[b].chunks[p]] =
                    [scope |-> w[b].scope, at |-> p, content |-> told'[b][p]]
             ELSE told'[b][p] = NoContent
  PROVE  WorldInv'
<1>1. Nothing \in Payload
  BY DEF Nothing, Payload
<1>2. heap' \in [Payloads -> Payload] /\ \A i \in Held(w) : heap'[i] = h[i]
  BY <1>1 DEF Settle, Held
<1>3. \A n \in DOMAIN store' : store'[n].bucket \subseteq Payloads
  BY DEF Settle, Held
<1>4. WorldType'
  BY <1>2, <1>3 DEF Settle, WorldType
<1>5. ASSUME NEW b \in Bots, NEW p \in Chunks, w[b].chunks[p] # 0
      PROVE  w[b].chunks[p] \in Held(w)
  BY <1>5 DEF Held, Live
<1>6. ChunkIsMine'
  BY <1>2, <1>5 DEF Settle, ChunkIsMine, HasChunk
<1> QED BY <1>4, <1>6 DEF WorldInv

\* A bot that enters a world, or leaves it, holds nothing; the others hold
\* what they held.
LEMMA EnterKeeps ==
  ASSUME WorldInv, NEW b \in Bots, NEW scope \in Scopes \cup {NoScope},
         EnterWorld(b, scope)
  PROVE  WorldInv'
<1> DEFINE w == [worlds EXCEPT ![b] = [NoWorld EXCEPT !.scope = scope]]
<1>1. [NoWorld EXCEPT !.scope = scope] =
        [scope |-> scope, chunks |-> [p \in Chunks |-> 0]]
  BY DEF NoWorld
<1>2. w \in [Bots -> [scope : Scopes \cup {NoScope},
                      chunks : [Chunks -> Payloads \cup {0}]]]
  BY <1>1 DEF WorldInv, WorldType
<1>3. told' \in [Bots -> [Chunks -> Contents \cup {NoContent}]]
  BY DEF EnterWorld, WorldInv, WorldType
<1>4. ASSUME NEW c \in Bots, NEW p \in Chunks
      PROVE  IF w[c].chunks[p] # 0
               THEN heap[w[c].chunks[p]] =
                      [scope |-> w[c].scope, at |-> p, content |-> told'[c][p]]
               ELSE told'[c][p] = NoContent
  <2>1. CASE c = b
    BY <1>1, <2>1 DEF EnterWorld, WorldInv, WorldType
  <2>2. CASE c # b
    <3>1. w[c] = worlds[c] /\ told'[c] = told[c]
      BY <2>2 DEF EnterWorld, WorldInv, WorldType
    <3> QED BY Zenon, <3>1 DEF WorldInv, ChunkIsMine, HasChunk
  <2> QED BY <2>1, <2>2
<1>5. Settle(w, store, heap) /\ heap \in [Payloads -> Payload]
  BY DEF EnterWorld, WorldInv, WorldType
<1> HIDE DEF w
<1> QED BY Zenon, <1>2, <1>3, <1>4, <1>5, Settled

\* Unloading a chunk keeps the invariant.
LEMMA UnloadKeeps ==
  ASSUME WorldInv, NEW b \in Bots, NEW p \in Chunks, ChunkUnloads(b, p)
  PROVE  WorldInv'
<1> DEFINE w == [worlds EXCEPT ![b].chunks[p] = 0]
<1>1. w \in [Bots -> [scope : Scopes \cup {NoScope},
                      chunks : [Chunks -> Payloads \cup {0}]]]
  BY Zenon DEF WorldInv, WorldType
<1>2. told' \in [Bots -> [Chunks -> Contents \cup {NoContent}]]
  BY DEF ChunkUnloads, WorldInv, WorldType
<1>3. ASSUME NEW c \in Bots, NEW q \in Chunks
      PROVE  IF w[c].chunks[q] # 0
               THEN heap[w[c].chunks[q]] =
                      [scope |-> w[c].scope, at |-> q, content |-> told'[c][q]]
               ELSE told'[c][q] = NoContent
  <2>1. CASE c = b /\ q = p
    BY <2>1 DEF ChunkUnloads, WorldInv, WorldType
  <2>2. CASE ~(c = b /\ q = p)
    <3>1. /\ w[c].chunks[q] = worlds[c].chunks[q] /\ w[c].scope = worlds[c].scope
          /\ told'[c][q] = told[c][q]
      BY <2>2 DEF ChunkUnloads, WorldInv, WorldType
    <3> QED BY <3>1 DEF WorldInv, ChunkIsMine, HasChunk
  <2> QED BY <2>1, <2>2
<1>4. Settle(w, store, heap) /\ heap \in [Payloads -> Payload]
  BY DEF ChunkUnloads, WorldInv, WorldType
<1> HIDE DEF w
<1> QED BY Zenon, <1>1, <1>2, <1>3, <1>4, Settled

\* An arriving chunk keeps the invariant: what intern returns is what it brought.
LEMMA ArriveKeeps ==
  ASSUME WorldInv, NEW b \in Bots, NEW p \in Chunks, NEW content \in Contents,
         ChunkArrives(b, p, content)
  PROVE  WorldInv'
<1> DEFINE payload == [scope |-> worlds[b].scope, at |-> p, content |-> content]
           r == intern(payload)
           w == [worlds EXCEPT ![b].chunks[p] = r.payload]
<1>1. payload \in Asked /\ Free # {}
  BY DEF ChunkArrives, Asked, WorldInv, WorldType
<1>2. Serves(r, payload)
  <2> HIDE DEF payload
  <2> QED BY <1>1, InternServes DEF WorldInv
<1>3. Settle(w, r.store, r.heap) /\ told' = [told EXCEPT ![b][p] = content]
  BY DEF ChunkArrives
<1> HIDE DEF r
<1>4. w \in [Bots -> [scope : Scopes \cup {NoScope},
                      chunks : [Chunks -> Payloads \cup {0}]]]
  BY Zenon, <1>2 DEF WorldInv, WorldType, Serves
<1>5. told' \in [Bots -> [Chunks -> Contents \cup {NoContent}]]
  BY <1>3 DEF WorldInv, WorldType
<1>6. ASSUME NEW c \in Bots, NEW q \in Chunks
      PROVE  IF w[c].chunks[q] # 0
               THEN r.heap[w[c].chunks[q]] =
                      [scope |-> w[c].scope, at |-> q, content |-> told'[c][q]]
               ELSE told'[c][q] = NoContent
  <2>1. CASE c = b /\ q = p
    <3>1. w[c].chunks[q] = r.payload /\ w[c].scope = worlds[b].scope
      BY <2>1 DEF WorldInv, WorldType
    <3>2. told'[c][q] = content
      BY <1>3, <2>1 DEF WorldInv, WorldType
    <3> QED BY <1>2, <2>1, <3>1, <3>2, ZeroIsNoPayload DEF Serves
  <2>2. CASE ~(c = b /\ q = p)
    <3>1. /\ w[c].chunks[q] = worlds[c].chunks[q] /\ w[c].scope = worlds[c].scope
          /\ told'[c][q] = told[c][q]
      BY <1>3, <2>2 DEF WorldInv, WorldType
    <3>2. worlds[c].chunks[q] # 0 => worlds[c].chunks[q] \in Held(worlds)
      BY DEF Held, Live, WorldInv, WorldType
    <3> QED BY <1>2, <3>1, <3>2 DEF Serves, WorldInv, ChunkIsMine, HasChunk
  <2> QED BY <2>1, <2>2
<1>7. r.heap \in [Payloads -> Payload]
  BY <1>2 DEF Serves
<1> DEFINE h == r.heap
           s == r.store
<1>8. Settle(w, s, h) /\ h \in [Payloads -> Payload]
  BY <1>3, <1>7
<1>9. \A c \in Bots, q \in Chunks :
        IF w[c].chunks[q] # 0
          THEN h[w[c].chunks[q]] =
                 [scope |-> w[c].scope, at |-> q, content |-> told'[c][q]]
          ELSE told'[c][q] = NoContent
  BY <1>6
<1> HIDE DEF w, payload, h, s
<1> QED BY Zenon, <1>4, <1>5, <1>8, <1>9, Settled

-----------------------------------------------------------------------------
\* The invariant holds of an empty world.
LEMMA WorldInvInit == WorldInit => WorldInv
BY DEF WorldInit, WorldInv, WorldType, ChunkIsMine, HasChunk, NoWorld, Nothing, Payload

\* A step that leaves the world alone keeps the invariant.
LEMMA WorldInvStutters == WorldInv /\ UNCHANGED worldVars => WorldInv'
BY DEF worldVars, WorldInv, WorldType, ChunkIsMine, HasChunk

\* Whatever a bot does, and whatever its server sends it, every bot still
\* holds what its own server last sent (EnterWorld, ChunkArrives,
\* ChunkChanges, ChunkUnloads, LeaveWorld).
THEOREM WorldStepKeeps ==
  ASSUME WorldInv, NEW b \in Bots, NEW p \in Chunks, WorldStep(b, p)
  PROVE  WorldInv'
BY EnterKeeps, ArriveKeeps, UnloadKeeps DEF WorldStep, ChunkChanges, LeaveWorld
-----------------------------------------------------------------------------
(* The scoreboard: every handler keeps Consistent and the limits, the two  *)
(* loops over a list of members included.                                  *)

BoardType ==
  [objectives : SUBSET Objectives, slots : [Slots -> Objectives \cup {None}],
   scores : SUBSET (Owners \X Objectives), teams : SUBSET Teams,
   members : [Teams -> SUBSET Members],
   memberTeams : [Members -> Teams \cup {None}]]

Sound(b) == b \in BoardType /\ Consistent(b)

\* The board of a new PlayState is sound.
LEMMA EmptyIsSound == Sound(EmptyBoard)
BY Zenon, NoneAssumption DEF Sound, EmptyBoard, BoardType, Consistent, Used

-----------------------------------------------------------------------------
\* A created objective keeps the board sound.
LEMMA ObjectiveCreateSound ==
  ASSUME NEW b, Sound(b), NEW o \in Objectives
  PROVE  Sound(ObjectiveCreate(b, o).board)
<1>1. ObjectiveCreate(b, o).board \in {b, [b EXCEPT !.objectives = @ \cup {o}]}
  BY DEF ObjectiveCreate, Outcome
<1>2. Sound([b EXCEPT !.objectives = @ \cup {o}])
  BY DEF Sound, BoardType, Consistent, Used
<1> QED BY <1>1, <1>2

\* With an objective go the slots that show it and its scores.
LEMMA ObjectiveRemoveSound ==
  ASSUME NEW b, Sound(b), NEW o \in Objectives
  PROVE  Sound(ObjectiveRemove(b, o).board)
<1> DEFINE c == ObjectiveRemove(b, o).board
<1>1. c = [b EXCEPT
             !.objectives = @ \ {o},
             !.slots = [s \in Slots |-> IF b.slots[s] = o THEN None ELSE b.slots[s]],
             !.scores = {k \in b.scores : k[2] # o}]
  BY Zenon DEF ObjectiveRemove, Outcome, Sound, BoardType
<1> HIDE DEF c
<1>2. /\ c.objectives = b.objectives \ {o}
      /\ c.slots = [s \in Slots |-> IF b.slots[s] = o THEN None ELSE b.slots[s]]
      /\ c.scores = {k \in b.scores : k[2] # o}
      /\ c.teams = b.teams /\ c.members = b.members /\ c.memberTeams = b.memberTeams
  BY <1>1 DEF Sound, BoardType
<1>3. c \in BoardType
  BY Zenon, <1>1, <1>2 DEF Sound, BoardType
<1>4. \A s \in Used(c.slots) : c.slots[s] \in c.objectives
  BY <1>2 DEF Used, Sound, BoardType, Consistent
<1>5. \A k \in c.scores : k[2] \in c.objectives
  BY <1>2 DEF Sound, Consistent
<1>6. Sound(c)
  BY <1>2, <1>3, <1>4, <1>5 DEF Sound, Consistent
<1> QED BY <1>6 DEF c

\* A display slot is given to a known objective only, or cleared.
LEMMA DisplaySlotSound ==
  ASSUME NEW b, Sound(b), NEW s \in Slots, NEW o \in Objectives \cup {None}
  PROVE  Sound(DisplaySlot(b, s, o).board)
<1>1. \/ DisplaySlot(b, s, o).board = b
      \/ /\ DisplaySlot(b, s, o).board = [b EXCEPT !.slots[s] = o]
         /\ o = None \/ o \in b.objectives
  BY DEF DisplaySlot, Outcome
<1>2. ASSUME o = None \/ o \in b.objectives
      PROVE  Sound([b EXCEPT !.slots[s] = o])
  BY <1>2 DEF Sound, BoardType, Consistent, Used
<1> QED BY <1>1, <1>2

\* A score is set for a known objective only.
LEMMA SetScoreSound ==
  ASSUME NEW b, Sound(b), NEW owner \in Owners, NEW o \in Objectives
  PROVE  Sound(SetScore(b, owner, o).board)
<1>1. \/ SetScore(b, owner, o).board = b
      \/ /\ SetScore(b, owner, o).board = [b EXCEPT !.scores = @ \cup {<<owner, o>>}]
         /\ o \in b.objectives
  BY DEF SetScore, Outcome
<1>2. ASSUME o \in b.objectives
      PROVE  Sound([b EXCEPT !.scores = @ \cup {<<owner, o>>}])
  BY <1>2 DEF Sound, BoardType, Consistent, Used
<1> QED BY <1>1, <1>2

\* A reset only removes scores.
LEMMA ResetScoreSound ==
  ASSUME NEW b, Sound(b), NEW owner \in Owners, NEW o \in Objectives \cup {None}
  PROVE  Sound(ResetScore(b, owner, o).board)
<1>1. \E gone : ResetScore(b, owner, o).board = [b EXCEPT !.scores = @ \ gone]
  BY Zenon DEF ResetScore, Outcome
<1>2. ASSUME NEW gone
      PROVE  Sound([b EXCEPT !.scores = @ \ gone])
  BY DEF Sound, BoardType, Consistent, Used
<1> QED BY <1>1, <1>2

-----------------------------------------------------------------------------
(* Teams: who is a member of which is kept twice.                          *)

\* One member joins a team and leaves the one it was in.
LEMMA AddMemberSound ==
  ASSUME NEW b, Sound(b), NEW t \in b.teams, NEW m \in Members
  PROVE  Sound(AddMember(b, t, m)) /\ AddMember(b, t, m).teams = b.teams
<1> DEFINE members == [u \in Teams |-> IF u = t THEN b.members[u] \cup {m}
                                       ELSE IF u = b.memberTeams[m]
                                              THEN b.members[u] \ {m}
                                              ELSE b.members[u]]
           c == [b EXCEPT !.memberTeams[m] = t, !.members = members]
<1>1. AddMember(b, t, m) \in {b, c}
  BY DEF AddMember
<1>2. t \in Teams
  BY DEF Sound, BoardType
<1>3. members \in [Teams -> SUBSET Members]
  BY <1>2 DEF Sound, BoardType
<1> HIDE DEF members
<1>4. /\ c \in BoardType /\ c.members = members
      /\ c.memberTeams = [b.memberTeams EXCEPT ![m] = t]
      /\ c.objectives = b.objectives /\ c.slots = b.slots /\ c.scores = b.scores
      /\ c.teams = b.teams
  BY Zenon, <1>2, <1>3 DEF Sound, BoardType
<1> HIDE DEF c
<1>5. \A n \in Members, u \in Teams : n \in c.members[u] <=> c.memberTeams[n] = u
  BY <1>2, <1>4 DEF members, Sound, BoardType, Consistent
<1>6. \A n \in Used(c.memberTeams) : c.memberTeams[n] \in c.teams
  BY <1>4 DEF Used, Sound, BoardType, Consistent
<1>7. Sound(c)
  BY <1>4, <1>5, <1>6 DEF Sound, Consistent
<1> QED BY Zenon, <1>1, <1>4, <1>7 DEF c

\* Removing a member leaves both sides of the membership in agreement.
LEMMA RemoveMemberSound ==
  ASSUME NEW b, Sound(b), NEW t \in Teams, NEW m \in Members
  PROVE  Sound(RemoveMember(b, t, m)) /\ RemoveMember(b, t, m).teams = b.teams
<1> DEFINE c == [b EXCEPT !.memberTeams[m] = None, !.members[t] = @ \ {m}]
<1>1. CASE b.memberTeams[m] # t
  BY <1>1 DEF RemoveMember
<1>2. CASE b.memberTeams[m] = t
  <2>1. RemoveMember(b, t, m) = c
    BY <1>2 DEF RemoveMember
  <2>2. /\ c \in BoardType /\ c.members = [b.members EXCEPT ![t] = @ \ {m}]
        /\ c.memberTeams = [b.memberTeams EXCEPT ![m] = None]
        /\ c.objectives = b.objectives /\ c.slots = b.slots /\ c.scores = b.scores
        /\ c.teams = b.teams
    BY Zenon DEF Sound, BoardType
  <2> HIDE DEF c
  <2>3. \A n \in Members, u \in Teams : n \in c.members[u] <=> c.memberTeams[n] = u
    BY <1>2, <2>2, NoneAssumption DEF Sound, BoardType, Consistent
  <2>4. \A n \in Used(c.memberTeams) : c.memberTeams[n] \in c.teams
    BY <2>2 DEF Used, Sound, BoardType, Consistent
  <2>5. Sound(c)
    BY <2>2, <2>3, <2>4 DEF Sound, Consistent
  <2> QED BY <2>1, <2>2, <2>5
<1> QED BY <1>1, <1>2

\* Every member of t leaves it, and no other.
LEMMA ClearedSound ==
  ASSUME NEW b, Sound(b), NEW t \in Teams
  PROVE  LET c == remove_team_members(b, t)
         IN  /\ Sound(c) /\ c.teams = b.teams
             /\ \A m \in Members : c.memberTeams[m] # t
<1> DEFINE c == remove_team_members(b, t)
<1>1. /\ c \in BoardType /\ c.members = [b.members EXCEPT ![t] = {}]
      /\ c.memberTeams = [m \in Members |-> IF m \in b.members[t]
                                                 /\ b.memberTeams[m] = t
                                              THEN None ELSE b.memberTeams[m]]
      /\ c.objectives = b.objectives /\ c.slots = b.slots /\ c.scores = b.scores
      /\ c.teams = b.teams
  BY Zenon DEF remove_team_members, Sound, BoardType
<1> HIDE DEF c
<1>2. \A n \in Members, u \in Teams : n \in c.members[u] <=> c.memberTeams[n] = u
  BY <1>1, NoneAssumption DEF Sound, BoardType, Consistent
<1>3. \A n \in Used(c.memberTeams) : c.memberTeams[n] \in c.teams
  BY <1>1 DEF Used, Sound, BoardType, Consistent
<1>4. \A m \in Members : c.memberTeams[m] # t
  BY <1>1, NoneAssumption DEF Sound, BoardType, Consistent
<1>5. Sound(c)
  BY <1>1, <1>2, <1>3 DEF Sound, Consistent
<1> QED BY <1>1, <1>4, <1>5 DEF c

\* A removed team takes its members with it.
LEMMA TeamRemoveSound ==
  ASSUME NEW b, Sound(b), NEW t \in Teams
  PROVE  Sound(TeamRemove(b, t).board)
<1> DEFINE c == remove_team_members(b, t)
<1>1. Sound(c) /\ \A m \in Members : c.memberTeams[m] # t
  BY ClearedSound
<1>2. TeamRemove(b, t).board = [c EXCEPT !.teams = @ \ {t}]
  BY DEF TeamRemove, Outcome
<1> HIDE DEF c
<1>3. Sound([c EXCEPT !.teams = @ \ {t}])
  BY <1>1 DEF Sound, BoardType, Consistent, Used
<1> QED BY <1>2, <1>3

-----------------------------------------------------------------------------
(* The limits.                                                             *)

Sized(S, limit) == IsFiniteSet(S) /\ Cardinality(S) <= limit

Bounded(b) ==
  /\ Sized(b.objectives, MaxObjectives) /\ Sized(Used(b.slots), MaxDisplaySlots)
  /\ Sized(b.scores, MaxScores) /\ Sized(b.teams, MaxTeams)
  /\ Sized(Used(b.memberTeams), MaxTeamMembers)

\* Bounded, which adds that the sets are finite, gives the limits.
LEMMA BoundedIsWithin ==
  ASSUME NEW b, Bounded(b)
  PROVE  WithinLimits(b)
BY DEF Bounded, Sized, WithinLimits

\* What is taken away or replaced needs no room.
LEMMA SizedSubset ==
  ASSUME NEW S, NEW limit \in Nat, Sized(S, limit), NEW R \in SUBSET S
  PROVE  Sized(R, limit)
<1>1. Cardinality(S) \in Nat /\ Cardinality(R) \in Nat
  BY FS_Subset, FS_CardinalityType DEF Sized
<1> QED BY <1>1, FS_Subset DEF Sized

\* What is new needs room for one.
LEMMA SizedAdd ==
  ASSUME NEW S, NEW limit \in Nat, Sized(S, limit), NEW x,
         x \in S \/ ~ (Cardinality(S) >= limit)
  PROVE  Sized(S \cup {x}, limit)
<1>1. Cardinality(S) \in Nat
  BY FS_CardinalityType DEF Sized
<1> QED BY <1>1, FS_AddElement DEF Sized

\* The empty board is within the limits.
LEMMA EmptyIsBounded == Bounded(EmptyBoard)
<1>1. Used(EmptyBoard.slots) = {} /\ Used(EmptyBoard.memberTeams) = {}
  BY DEF Used, EmptyBoard
<1>2. EmptyBoard.objectives = {} /\ EmptyBoard.scores = {} /\ EmptyBoard.teams = {}
  BY DEF EmptyBoard
<1> QED BY <1>1, <1>2, FS_EmptySet, LimitAssumption DEF Bounded, Sized

\* An objective is created below the limit, or replaces itself.
LEMMA ObjectiveCreateBounded ==
  ASSUME NEW b \in BoardType, Bounded(b), NEW o
  PROVE  Bounded(ObjectiveCreate(b, o).board)
<1> DEFINE c == [b EXCEPT !.objectives = @ \cup {o}]
<1>1. \/ ObjectiveCreate(b, o).board = b
      \/ /\ ObjectiveCreate(b, o).board = c
         /\ o \in b.objectives \/ ~ (Cardinality(b.objectives) >= MaxObjectives)
  BY DEF ObjectiveCreate, Outcome
<1>2. /\ c.objectives = b.objectives \cup {o} /\ c.slots = b.slots /\ c.scores = b.scores
      /\ c.teams = b.teams /\ c.memberTeams = b.memberTeams
  BY DEF BoardType
<1> HIDE DEF c
<1> QED BY <1>1, <1>2, SizedAdd, LimitAssumption DEF Bounded

\* Removing an objective only shrinks the board.
LEMMA ObjectiveRemoveBounded ==
  ASSUME NEW b \in BoardType, Bounded(b), NEW o \in Objectives
  PROVE  Bounded(ObjectiveRemove(b, o).board)
<1> DEFINE c == ObjectiveRemove(b, o).board
<1>1. c = [b EXCEPT
             !.objectives = @ \ {o},
             !.slots = [s \in Slots |-> IF b.slots[s] = o THEN None ELSE b.slots[s]],
             !.scores = {k \in b.scores : k[2] # o}]
  BY Zenon DEF ObjectiveRemove, Outcome, BoardType
<1> HIDE DEF c
<1>2. /\ c.objectives = b.objectives \ {o}
      /\ c.slots = [s \in Slots |-> IF b.slots[s] = o THEN None ELSE b.slots[s]]
      /\ c.scores = {k \in b.scores : k[2] # o}
      /\ c.teams = b.teams /\ c.memberTeams = b.memberTeams
  BY <1>1 DEF BoardType
<1>3. Used(c.slots) \subseteq Used(b.slots)
  BY <1>2 DEF Used, BoardType
<1>4. c.objectives \subseteq b.objectives /\ c.scores \subseteq b.scores
  BY <1>2
<1>5. Bounded(c)
  BY <1>2, <1>3, <1>4, SizedSubset, LimitAssumption DEF Bounded
<1> QED BY <1>5 DEF c

\* A slot is used below the limit, or was in use.
LEMMA DisplaySlotBounded ==
  ASSUME NEW b \in BoardType, Bounded(b), NEW s \in Slots, NEW o \in Objectives \cup {None}
  PROVE  Bounded(DisplaySlot(b, s, o).board)
<1> DEFINE c == [b EXCEPT !.slots[s] = o]
<1>1. \/ DisplaySlot(b, s, o).board = b
      \/ /\ DisplaySlot(b, s, o).board = c
         /\ b.slots[s] # None \/ Cardinality(Used(b.slots)) < MaxDisplaySlots
  BY DEF DisplaySlot, Outcome
<1>2. /\ c.objectives = b.objectives /\ c.slots = [b.slots EXCEPT ![s] = o]
      /\ c.scores = b.scores /\ c.teams = b.teams /\ c.memberTeams = b.memberTeams
  BY DEF BoardType
<1> HIDE DEF c
<1>3. Used(c.slots) \subseteq Used(b.slots) \cup {s} /\ (b.slots[s] # None => s \in Used(b.slots))
  BY <1>2 DEF Used, BoardType
<1>4. CASE DisplaySlot(b, s, o).board = c
           /\ (b.slots[s] # None \/ Cardinality(Used(b.slots)) < MaxDisplaySlots)
  <2>1. Cardinality(Used(b.slots)) \in Nat
    BY FS_CardinalityType DEF Bounded, Sized
  <2>2. Sized(Used(b.slots) \cup {s}, MaxDisplaySlots)
    BY <1>3, <1>4, <2>1, SizedAdd, LimitAssumption DEF Bounded
  <2>3. Sized(Used(c.slots), MaxDisplaySlots)
    BY Zenon, <1>3, <2>2, SizedSubset, LimitAssumption
  <2> QED BY Zenon, <1>2, <1>4, <2>3 DEF Bounded
<1> QED BY <1>1, <1>4

\* A score is added below the limit, or was there.
LEMMA SetScoreBounded ==
  ASSUME NEW b \in BoardType, Bounded(b), NEW owner, NEW o
  PROVE  Bounded(SetScore(b, owner, o).board)
<1> DEFINE k == <<owner, o>>
           c == [b EXCEPT !.scores = @ \cup {k}]
<1>1. \/ SetScore(b, owner, o).board = b
      \/ /\ SetScore(b, owner, o).board = c
         /\ k \in b.scores \/ Cardinality(b.scores) < MaxScores
  BY DEF SetScore, Outcome
<1> HIDE DEF k
<1>2. /\ c.objectives = b.objectives /\ c.slots = b.slots
      /\ c.scores = b.scores \cup {k} /\ c.teams = b.teams /\ c.memberTeams = b.memberTeams
  BY DEF BoardType
<1> HIDE DEF c
<1>3. Cardinality(b.scores) \in Nat
  BY Zenon, FS_CardinalityType DEF Bounded, Sized
<1> QED BY <1>1, <1>2, <1>3, SizedAdd, LimitAssumption DEF Bounded

\* A reset only shrinks the scores.
LEMMA ResetScoreBounded ==
  ASSUME NEW b \in BoardType, Bounded(b), NEW owner, NEW o
  PROVE  Bounded(ResetScore(b, owner, o).board)
<1>1. PICK gone : ResetScore(b, owner, o).board = [b EXCEPT !.scores = @ \ gone]
  BY Zenon DEF ResetScore, Outcome
<1> DEFINE c == [b EXCEPT !.scores = @ \ gone]
<1>2. /\ c.objectives = b.objectives /\ c.slots = b.slots
      /\ c.scores \subseteq b.scores /\ c.teams = b.teams /\ c.memberTeams = b.memberTeams
  BY DEF BoardType
<1>3. ResetScore(b, owner, o).board = c
  BY Zenon, <1>1
<1> HIDE DEF c
<1> QED BY <1>2, <1>3, SizedSubset, LimitAssumption DEF Bounded

-----------------------------------------------------------------------------
(* Teams: limits, and the loops over a list of members.                    *)

\* What handlers of teams leave: a sound board with the same objectives.
Teamed(b, c) ==
  /\ Sound(c) /\ Bounded(c)
  /\ c.objectives = b.objectives /\ c.slots = b.slots /\ c.scores = b.scores

\* One round of add_team_members: the member moves, below the limit.
LEMMA AddMemberTeamed ==
  ASSUME NEW b, Sound(b), Bounded(b), NEW t \in b.teams, NEW m \in Members
  PROVE  Teamed(b, AddMember(b, t, m)) /\ AddMember(b, t, m).teams = b.teams
<1> DEFINE members == [u \in Teams |-> IF u = t THEN b.members[u] \cup {m}
                                       ELSE IF u = b.memberTeams[m]
                                              THEN b.members[u] \ {m}
                                              ELSE b.members[u]]
           c == [b EXCEPT !.memberTeams[m] = t, !.members = members]
<1>1. \/ AddMember(b, t, m) = b
      \/ /\ AddMember(b, t, m) = c
         /\ b.memberTeams[m] # None \/ ~ (Cardinality(Used(b.memberTeams)) >= MaxTeamMembers)
  BY DEF AddMember
<1> HIDE DEF members
<1>2. /\ c.memberTeams = [b.memberTeams EXCEPT ![m] = t]
      /\ c.objectives = b.objectives /\ c.slots = b.slots /\ c.scores = b.scores
      /\ c.teams = b.teams
  BY DEF Sound, BoardType
<1> HIDE DEF c
<1>3. Sound(AddMember(b, t, m)) /\ AddMember(b, t, m).teams = b.teams
  BY AddMemberSound
<1>4. /\ Used(c.memberTeams) \subseteq Used(b.memberTeams) \cup {m}
      /\ b.memberTeams[m] # None => m \in Used(b.memberTeams)
  BY Zenon, <1>2 DEF Used, Sound, BoardType
<1>5. CASE AddMember(b, t, m) = b
  BY Zenon, <1>3, <1>5 DEF Teamed
<1>6. CASE AddMember(b, t, m) = c
           /\ (b.memberTeams[m] # None
               \/ ~ (Cardinality(Used(b.memberTeams)) >= MaxTeamMembers))
  <2>1. Sized(Used(b.memberTeams) \cup {m}, MaxTeamMembers)
    BY <1>4, <1>6, SizedAdd, LimitAssumption DEF Bounded
  <2>2. Sized(Used(c.memberTeams), MaxTeamMembers)
    BY <1>4, <2>1, SizedSubset, LimitAssumption
  <2>3. Bounded(c)
    BY <1>2, <2>2 DEF Bounded
  <2> QED BY Zenon, <1>2, <1>3, <1>6, <2>3 DEF Teamed
<1> QED BY <1>1, <1>5, <1>6

\* One round of remove_named_team_members.
LEMMA RemoveMemberTeamed ==
  ASSUME NEW b, Sound(b), Bounded(b), NEW t \in Teams, NEW m \in Members
  PROVE  Teamed(b, RemoveMember(b, t, m)) /\ RemoveMember(b, t, m).teams = b.teams
<1> DEFINE c == [b EXCEPT !.memberTeams[m] = None, !.members[t] = @ \ {m}]
<1>1. RemoveMember(b, t, m) = b \/ RemoveMember(b, t, m) = c
  BY DEF RemoveMember
<1>2. /\ c.memberTeams = [b.memberTeams EXCEPT ![m] = None]
      /\ c.objectives = b.objectives /\ c.slots = b.slots /\ c.scores = b.scores
      /\ c.teams = b.teams
  BY DEF Sound, BoardType
<1> HIDE DEF c
<1>3. Sound(RemoveMember(b, t, m)) /\ RemoveMember(b, t, m).teams = b.teams
  BY RemoveMemberSound
<1>4. Used(c.memberTeams) \subseteq Used(b.memberTeams)
  BY Zenon, <1>2 DEF Used, Sound, BoardType
<1>5. Bounded(c)
  BY <1>2, <1>4, SizedSubset, LimitAssumption DEF Bounded
<1> QED BY <1>1, <1>2, <1>3, <1>5 DEF Teamed

\* remove_team_members leaves no member that points at the team.
LEMMA ClearedTeamed ==
  ASSUME NEW b, Sound(b), Bounded(b), NEW t \in Teams
  PROVE  LET c == remove_team_members(b, t)
         IN  Teamed(b, c) /\ c.teams = b.teams /\ \A m \in Members : c.memberTeams[m] # t
<1> DEFINE c == remove_team_members(b, t)
<1>1. Sound(c) /\ c.teams = b.teams /\ \A m \in Members : c.memberTeams[m] # t
  BY ClearedSound
<1>2. /\ c.memberTeams = [m \in Members |-> IF m \in b.members[t] /\ b.memberTeams[m] = t
                                              THEN None ELSE b.memberTeams[m]]
      /\ c.objectives = b.objectives /\ c.slots = b.slots /\ c.scores = b.scores
  BY DEF remove_team_members, Sound, BoardType
<1> HIDE DEF c
<1>3. Used(c.memberTeams) \subseteq Used(b.memberTeams)
  BY Zenon, <1>2 DEF Used, Sound, BoardType
<1>4. Bounded(c)
  BY Zenon, <1>1, <1>2, <1>3, SizedSubset, LimitAssumption DEF Bounded
<1>5. Teamed(b, c) /\ c.teams = b.teams /\ \A m \in Members : c.memberTeams[m] # t
  BY Zenon, <1>1, <1>2, <1>4 DEF Teamed
<1> QED BY <1>5 DEF c

\* A removed team leaves a sound board within the limits.
LEMMA TeamRemoveTeamed ==
  ASSUME NEW b, Sound(b), Bounded(b), NEW t \in Teams
  PROVE  Teamed(b, TeamRemove(b, t).board)
<1> DEFINE c == remove_team_members(b, t)
           d == [c EXCEPT !.teams = @ \ {t}]
<1>1. Teamed(b, c)
  BY ClearedTeamed
<1>2. TeamRemove(b, t).board = d /\ Sound(TeamRemove(b, t).board)
  BY TeamRemoveSound DEF TeamRemove, Outcome
<1> HIDE DEF c
<1>3. /\ d.memberTeams = c.memberTeams /\ d.teams \subseteq c.teams
      /\ d.objectives = c.objectives /\ d.slots = c.slots /\ d.scores = c.scores
  BY <1>1 DEF Teamed, Sound, BoardType
<1> HIDE DEF d
<1>4. Bounded(d)
  BY <1>1, <1>3, SizedSubset, LimitAssumption DEF Teamed, Bounded
<1> QED BY Zenon, <1>1, <1>2, <1>3, <1>4 DEF Teamed

-----------------------------------------------------------------------------
\* Every set of numbers that is not empty has a smallest: what there is of
\* induction here.
LEMMA LeastNat ==
  ASSUME NEW T, T \subseteq Nat, T # {}
  PROVE  \E m \in T : \A n \in T : m <= n
<1> DEFINE R == StrictSubsetOrdering(Nat)
           S == FiniteSubsetsOf(Nat)
           TT == {0..n : n \in T}
<1>1. IsWellFoundedOn(R, S)
  BY FS_StrictSubsetOrderingWellFounded
<1>2. TT # {}
  BY Zenon
<1>3. TT \subseteq S
  <2> SUFFICES ASSUME NEW n \in T PROVE 0..n \in S
    OBVIOUS
  <2>1. n \in Nat /\ IsFiniteSet(0..n)
    BY FS_Interval
  <2> QED BY <2>1 DEF FiniteSubsetsOf
<1> HIDE DEF R, S, TT
<1>4. PICK x \in TT : \A y \in TT : ~ (<<y, x>> \in R)
  BY <1>1, <1>2, <1>3, WFMin
<1>5. PICK m \in T : x = 0..m
  BY DEF TT
<1>6. ASSUME NEW n \in T, n < m PROVE FALSE
  <2>1. 0..n \in TT BY DEF TT
  <2>2. 0..n \subseteq 0..m /\ 0..n # 0..m
    <3>1. m \in 0..m /\ m \notin 0..n BY <1>6
    <3> QED BY <1>6, <3>1
  <2>3. 0..n \in SUBSET Nat /\ 0..m \in SUBSET Nat OBVIOUS
  <2>4. <<0..n, 0..m>> \in R BY <2>2, <2>3 DEF R, StrictSubsetOrdering
  <2> QED BY <1>4, <1>5, <2>1, <2>4
<1> QED BY <1>6

\* A round of either loop, and what the first n rounds leave.
Round(adds, b, t, m) == IF adds THEN AddMember(b, t, m) ELSE RemoveMember(b, t, m)

IsLoop(f, n, adds, b, t, ms) ==
  f = [i \in 0..n |-> IF i = 0 THEN b ELSE Round(adds, f[i - 1], t, ms[i])]

\* The recursive function of a loop exists, however long its list is.
LEMMA LoopExists ==
  ASSUME NEW adds, NEW b, NEW t, NEW ms, NEW len \in Nat
  PROVE  \E f : IsLoop(f, len, adds, b, t, ms)
<1> DEFINE T == {n \in Nat : ~ \E f : IsLoop(f, n, adds, b, t, ms)}
<1>1. ASSUME T # {} PROVE FALSE
  <2>1. PICK n \in T : \A k \in T : n <= k
    BY Zenon, <1>1, LeastNat
  <2>2. CASE n = 0
    <3> DEFINE f == [i \in 0..0 |-> b]
    <3>1. IsLoop(f, 0, adds, b, t, ms)
      BY DEF IsLoop
    <3> QED BY <2>1, <2>2, <3>1
  <2>3. CASE n # 0
    <3>1. n - 1 \in Nat /\ n - 1 \notin T
      BY <2>1, <2>3
    <3>2. PICK g : IsLoop(g, n - 1, adds, b, t, ms)
      BY <3>1
    <3> DEFINE x == Round(adds, g[n - 1], t, ms[n])
               f == [i \in 0..n |-> IF i = n THEN x ELSE g[i]]
    <3>3. \A i \in 0..n : f[i] = IF i = 0 THEN b ELSE Round(adds, f[i - 1], t, ms[i])
      <4> TAKE i \in 0..n
      <4>1. CASE i = n
        <5>1. f[i] = x /\ f[i - 1] = g[n - 1]
          BY <2>3, <4>1
        <5> QED BY <2>3, <4>1, <5>1
      <4>2. CASE i # n
        <5>1. i \in 0..(n - 1)
          BY <4>2
        <5>2. f[i] = g[i] /\ (i # 0 => f[i - 1] = g[i - 1])
          BY <4>2, <5>1
        <5>3. g[i] = IF i = 0 THEN b ELSE Round(adds, g[i - 1], t, ms[i])
          BY <3>2, <5>1 DEF IsLoop
        <5> QED BY <5>2, <5>3
      <4> QED BY <4>1, <4>2
    <3>4. f = [i \in 0..n |-> f[i]]
      OBVIOUS
    <3> HIDE DEF f
    <3>5. IsLoop(f, n, adds, b, t, ms)
      BY Zenon, <3>3, <3>4 DEF IsLoop
    <3> QED BY <2>1, <3>5
  <2> QED BY <2>2, <2>3
<1>2. len \notin T
  <2> HIDE DEF T
  <2> QED BY <1>1
<1> QED BY <1>2

\* However long the list, every round leaves a sound board.
LEMMA LoopTeamed ==
  ASSUME NEW adds, NEW b, Sound(b), Bounded(b), NEW t \in b.teams, NEW ms \in Seq(Members),
         NEW f, IsLoop(f, Len(ms), adds, b, t, ms)
  PROVE  Teamed(b, f[Len(ms)]) /\ f[Len(ms)].teams = b.teams
<1> DEFINE len == Len(ms)
           Good(n) == Teamed(b, f[n]) /\ f[n].teams = b.teams
           T == {n \in 0..len : ~ Good(n)}
<1>1. len \in Nat /\ \A i \in 1..len : ms[i] \in Members
  OBVIOUS
<1>2. IsLoop(f, len, adds, b, t, ms) /\ t \in Teams
  BY Zenon DEF Sound, BoardType
<1> HIDE DEF len
<1>3. f[0] = b /\ \A i \in 1..len : f[i] = Round(adds, f[i - 1], t, ms[i])
  <2>1. \A i \in 0..len : f[i] = IF i = 0 THEN b ELSE Round(adds, f[i - 1], t, ms[i])
    BY <1>1, <1>2 DEF IsLoop
  <2> QED BY <1>1, <2>1
<1>4. ASSUME T # {} PROVE FALSE
  <2>1. PICK n \in T : \A k \in T : n <= k
    <3>1. T \subseteq Nat
      BY <1>1
    <3> HIDE DEF T
    <3> QED BY Zenon, <1>4, <3>1, LeastNat
  <2>2. CASE n = 0
    <3>1. Good(0)
      BY Zenon, <1>3 DEF Teamed
    <3> QED BY Zenon, <2>1, <2>2, <3>1
  <2>3. CASE n # 0
    <3>1. n \in 1..len /\ n - 1 \in 0..len /\ n - 1 \notin T
      BY <1>1, <2>1, <2>3
    <3>2. Good(n - 1) /\ ms[n] \in Members
      BY Zenon, <1>1, <3>1
    <3> DEFINE g == f[n - 1]
               m == ms[n]
    <3>3. Sound(g) /\ Bounded(g) /\ t \in g.teams /\ m \in Members /\ f[n] = Round(adds, g, t, m)
      BY Zenon, <1>3, <3>1, <3>2 DEF Teamed
    <3>4. Teamed(b, g) /\ g.teams = b.teams
      BY Zenon, <3>2
    <3> HIDE DEF g, m
    <3>5. Teamed(g, Round(adds, g, t, m)) /\ Round(adds, g, t, m).teams = g.teams
      BY Zenon, <1>2, <3>3, AddMemberTeamed, RemoveMemberTeamed DEF Round
    <3>6. Good(n)
      BY Zenon, <3>3, <3>4, <3>5 DEF Teamed
    <3> QED BY Zenon, <2>1, <3>6
  <2> QED BY <2>2, <2>3
<1>5. len \in 0..len
  BY <1>1
<1>6. len \notin T
  <2> HIDE DEF T
  <2> QED BY <1>4
<1> QED BY <1>5, <1>6 DEF len

\* The whole loop of add_team_members: the least round that fails cannot be.
LEMMA AddTeamed ==
  ASSUME NEW b, Sound(b), Bounded(b), NEW t \in b.teams, NEW ms \in Seq(Members)
  PROVE  Teamed(b, add_team_members(b, t, ms))
<1> DEFINE f == CHOOSE f : f = [i \in 0..Len(ms) |->
                                  IF i = 0 THEN b ELSE AddMember(f[i - 1], t, ms[i])]
<1>1. add_team_members(b, t, ms) = f[Len(ms)]
  BY DEF add_team_members
<1>2. \E g : IsLoop(g, Len(ms), TRUE, b, t, ms)
  <2>1. Len(ms) \in Nat
    OBVIOUS
  <2> QED BY Zenon, <2>1, LoopExists
<1>3. \E g : g = [i \in 0..Len(ms) |-> IF i = 0 THEN b ELSE AddMember(g[i - 1], t, ms[i])]
  BY <1>2 DEF IsLoop, Round
<1>4. f = [i \in 0..Len(ms) |-> IF i = 0 THEN b ELSE AddMember(f[i - 1], t, ms[i])]
  BY Zenon, <1>3
<1> HIDE DEF f
<1>5. IsLoop(f, Len(ms), TRUE, b, t, ms)
  BY <1>4 DEF IsLoop, Round
<1>6. Teamed(b, f[Len(ms)])
  BY Zenon, <1>5, LoopTeamed
<1> QED BY Zenon, <1>1, <1>6

\* The whole loop of remove_named_team_members, in the same way.
LEMMA DropTeamed ==
  ASSUME NEW b, Sound(b), Bounded(b), NEW t \in b.teams, NEW ms \in Seq(Members)
  PROVE  Teamed(b, remove_named_team_members(b, t, ms))
<1> DEFINE f == CHOOSE f : f = [i \in 0..Len(ms) |->
                                  IF i = 0 THEN b ELSE RemoveMember(f[i - 1], t, ms[i])]
<1>1. remove_named_team_members(b, t, ms) = f[Len(ms)]
  BY DEF remove_named_team_members
<1>2. \E g : IsLoop(g, Len(ms), FALSE, b, t, ms)
  <2>1. Len(ms) \in Nat
    OBVIOUS
  <2> QED BY Zenon, <2>1, LoopExists
<1>3. \E g : g = [i \in 0..Len(ms) |-> IF i = 0 THEN b ELSE RemoveMember(g[i - 1], t, ms[i])]
  BY <1>2 DEF IsLoop, Round
<1>4. f = [i \in 0..Len(ms) |-> IF i = 0 THEN b ELSE RemoveMember(f[i - 1], t, ms[i])]
  BY Zenon, <1>3
<1> HIDE DEF f
<1>5. IsLoop(f, Len(ms), FALSE, b, t, ms)
  BY <1>4 DEF IsLoop, Round
<1>6. Teamed(b, f[Len(ms)])
  BY Zenon, <1>5, LoopTeamed
<1> QED BY Zenon, <1>1, <1>6

\* A created team starts from its cleared self, then takes its members.
LEMMA TeamCreateTeamed ==
  ASSUME NEW b, Sound(b), Bounded(b), NEW t \in Teams, NEW ms \in Seq(Members)
  PROVE  Teamed(b, TeamCreate(b, t, ms).board)
<1> DEFINE c == remove_team_members(b, t)
           d == [c EXCEPT !.teams = @ \cup {t}]
<1>1. \/ TeamCreate(b, t, ms).board = b
      \/ /\ TeamCreate(b, t, ms).board = add_team_members(d, t, ms)
         /\ t \in b.teams \/ ~ (Cardinality(b.teams) >= MaxTeams)
  BY DEF TeamCreate, Outcome
<1>2. Teamed(b, c) /\ c.teams = b.teams
  BY ClearedTeamed
<1> HIDE DEF c
<1>3. /\ d \in BoardType /\ d.memberTeams = c.memberTeams /\ d.teams = c.teams \cup {t}
      /\ d.objectives = c.objectives /\ d.slots = c.slots /\ d.scores = c.scores
      /\ d.members = c.members
  BY Zenon, <1>2 DEF Teamed, Sound, BoardType
<1> HIDE DEF d
<1>4. Sound(d)
  BY <1>2, <1>3 DEF Teamed, Sound, Consistent
<1>5. CASE TeamCreate(b, t, ms).board = b
  BY Zenon, <1>5 DEF Teamed
<1>6. CASE TeamCreate(b, t, ms).board = add_team_members(d, t, ms)
           /\ (t \in b.teams \/ ~ (Cardinality(b.teams) >= MaxTeams))
  <2>1. Bounded(d)
    <3>1. Sized(b.teams, MaxTeams) /\ MaxTeams \in Nat
      BY Zenon, LimitAssumption DEF Bounded
    <3>2. Sized(b.teams \cup {t}, MaxTeams)
      BY Zenon, <1>6, <3>1, SizedAdd
    <3> QED BY <1>2, <1>3, <3>2 DEF Teamed, Bounded
  <2>2. t \in d.teams
    BY <1>3
  <2>3. Teamed(d, add_team_members(d, t, ms))
    BY Zenon, <1>4, <2>1, <2>2, AddTeamed
  <2> QED BY Zenon, <1>2, <1>3, <1>6, <2>3 DEF Teamed
<1> QED BY <1>1, <1>5, <1>6

\* TeamAdd and TeamDrop, of any list of members.
LEMMA TeamListTeamed ==
  ASSUME NEW b, Sound(b), Bounded(b), NEW t \in Teams, NEW ms \in Seq(Members)
  PROVE  Teamed(b, TeamAdd(b, t, ms).board) /\ Teamed(b, TeamDrop(b, t, ms).board)
<1>1. /\ TeamAdd(b, t, ms).board = IF t \in b.teams THEN add_team_members(b, t, ms) ELSE b
      /\ TeamDrop(b, t, ms).board =
           IF t \in b.teams THEN remove_named_team_members(b, t, ms) ELSE b
  BY DEF TeamAdd, TeamDrop, Outcome
<1>2. Teamed(b, b)
  BY DEF Teamed
<1> QED BY Zenon, <1>1, <1>2, AddTeamed, DropTeamed
-----------------------------------------------------------------------------
(* The trackers, and what a subscriber knows of them.                      *)

TrackerMap == [Names -> Values \cup {Absent}]

ShownType ==
  [bars : TrackerMap, cooldowns : TrackerMap, effects : TrackerMap,
   border : Values \cup {Absent}, chat : Seq(Nat), nextChat : Nat]

SeenFields ==
  {"wasAlive", "board", "shown", "hotbar", "selected", "held", "players", "entities"}

MirrorFields ==
  {"objectives", "slots", "scores", "bars", "cooldowns", "effects", "border", "chat",
   "held", "joined", "entities", "dead"}

Tracked(p) ==
  /\ SeenFields \cup {"own", "player"} \subseteq DOMAIN p
  /\ p.player \in LocalPlayer /\ p.wasAlive = p.player.alive
  /\ Sound(p.board) /\ Bounded(p.board)
  /\ p.shown \in ShownType
  /\ p.hotbar \in [HotbarSlots -> Values \cup {Absent}]
  /\ p.selected \in HotbarSlots /\ p.held = p.hotbar[p.selected]
  /\ p.players \in [Names -> {"named", "unnamed", Absent}]
  /\ p.entities \in TrackerMap

\* A PlayState that has had no login.
Fresh(p) ==
  /\ p.board = EmptyBoard /\ p.shown = EmptyTrackers
  /\ p.held = Absent /\ p.players = Empty /\ p.entities = Empty
  /\ p.player.alive = TRUE

\* The latest messages are the last ones that were announced.
Recent(chat, all) ==
  /\ all \in Seq(Nat) /\ Len(chat) <= Len(all)
  /\ \A i \in 1..Len(chat) : chat[i] = all[Len(all) - Len(chat) + i]

Sees(p, m) ==
  /\ MirrorFields \subseteq DOMAIN m
  /\ m.objectives = p.board.objectives /\ m.slots = p.board.slots
  /\ m.scores = p.board.scores
  /\ m.bars = p.shown.bars /\ m.cooldowns = p.shown.cooldowns
  /\ m.effects = p.shown.effects /\ m.border = p.shown.border
  /\ Recent(p.shown.chat, m.chat)
  /\ m.held = p.held
  /\ m.joined \subseteq Names /\ \A n \in m.joined : p.players[n] = "named"
  /\ m.entities = Present(p.entities)
  /\ m.dead = ~p.player.alive

SeenInv ==
  Tracked(play) /\ (play.own => Sees(play, mirror)) /\ (~play.own => Fresh(play))

\* What a step leaves alone.
PlaySame(F) ==
  /\ DOMAIN play' = DOMAIN play
  /\ \A f \in (SeenFields \cup {"own", "player"}) \ F : play'[f] = play[f]

MirrorSame(F) ==
  /\ DOMAIN mirror' = DOMAIN mirror
  /\ \A f \in MirrorFields \ F : mirror'[f] = mirror[f]

\* A subscriber that was told nothing knows a fresh PlayState.
LEMMA EmptyIsSeen ==
  ASSUME NEW p, Tracked(p), Fresh(p)
  PROVE  Sees(p, EmptyMirror)
<1>1. /\ EmptyMirror.objectives = {} /\ EmptyMirror.slots = [s \in Slots |-> None]
      /\ EmptyMirror.scores = {} /\ EmptyMirror.bars = Empty
      /\ EmptyMirror.cooldowns = Empty /\ EmptyMirror.effects = Empty
      /\ EmptyMirror.border = Absent /\ EmptyMirror.chat = <<>>
      /\ EmptyMirror.held = Absent /\ EmptyMirror.joined = {}
      /\ EmptyMirror.entities = {} /\ EmptyMirror.dead = FALSE
      /\ MirrorFields \subseteq DOMAIN EmptyMirror
  BY Zenon DEF EmptyMirror, MirrorFields
<1>2. /\ EmptyBoard.objectives = {} /\ EmptyBoard.slots = [s \in Slots |-> None]
      /\ EmptyBoard.scores = {}
  BY DEF EmptyBoard
<1>3. /\ EmptyTrackers.bars = Empty /\ EmptyTrackers.cooldowns = Empty
      /\ EmptyTrackers.effects = Empty /\ EmptyTrackers.border = Absent
      /\ EmptyTrackers.chat = <<>>
  BY DEF EmptyTrackers
<1>4. Present(Empty) = {}
  BY DEF Present, Empty
<1>5. Recent(<<>>, <<>>)
  BY DEF Recent
<1> QED BY Zenon, <1>1, <1>2, <1>3, <1>4, <1>5 DEF Sees, Fresh

\* A new PlayState is tracked, fresh, and not our own yet.
LEMMA NewIsTracked == Tracked(NewPlayState) /\ Fresh(NewPlayState) /\ ~NewPlayState.own
<1> DEFINE p == NewPlayState
<1>1. /\ p.player = NewPlayer /\ p.wasAlive = TRUE /\ p.board = EmptyBoard
      /\ p.shown = EmptyTrackers /\ p.hotbar = [s \in HotbarSlots |-> Absent]
      /\ p.selected = 0 /\ p.held = Absent /\ p.players = Empty /\ p.entities = Empty
      /\ p.own = FALSE /\ SeenFields \cup {"own", "player"} \subseteq DOMAIN p
  BY Zenon DEF NewPlayState, SeenFields
<1>2. NewPlayer.alive = TRUE
  BY DEF NewPlayer
<1>3. Empty \in TrackerMap /\ Empty \in [Names -> {"named", "unnamed", Absent}]
  BY Zenon DEF Empty, TrackerMap
<1>4. EmptyTrackers \in ShownType
  BY <1>3 DEF EmptyTrackers, ShownType
<1> HIDE DEF p
<1>5. Tracked(p) /\ Fresh(p) /\ ~p.own
  BY Zenon, <1>1, <1>2, <1>3, <1>4, NewPlayerType, EmptyIsSound, EmptyIsBounded
     DEF Tracked, Fresh, HotbarSlots
<1> QED BY <1>5 DEF p

\* A PlayState built anew is fresh, and not our own yet.
LEMMA SeenRebuilt ==
  ASSUME SeenInv, Rebuild
  PROVE  SeenInv'
BY NewIsTracked DEF Rebuild, SeenInv

\* A step that has nothing to tell.
LEMMA NothingToSee ==
  ASSUME SeenInv, PlaySame({"player"}), play'.player \in LocalPlayer,
         play'.player.alive = play.player.alive, UNCHANGED mirror
  PROVE  SeenInv'
<1>1. /\ play'.wasAlive = play.wasAlive /\ play'.board = play.board /\ play'.shown = play.shown
      /\ play'.hotbar = play.hotbar /\ play'.selected = play.selected /\ play'.held = play.held
      /\ play'.players = play.players /\ play'.entities = play.entities /\ play'.own = play.own
  BY Zenon DEF PlaySame, SeenFields
<1>2. Tracked(play')
  BY Zenon, <1>1 DEF PlaySame, SeenInv, Tracked
<1>3. play.own => Sees(play', mirror)
  BY Zenon, <1>1 DEF SeenInv, Sees
<1>4. ~play.own => Fresh(play')
  BY <1>1 DEF SeenInv, Fresh
<1> QED BY Zenon, <1>1, <1>2, <1>3, <1>4 DEF SeenInv

\* A login announces what it resets.
LEMMA LoginSeen ==
  ASSUME SeenInv, NEW scope, Login(scope), play'.player \in LocalPlayer
  PROVE  SeenInv'
<1>1. /\ ~play.own /\ mirror' = EmptyMirror
      /\ play' = [play EXCEPT !.own = TRUE, !.player = on_login(@)]
  BY DEF Login
<1>2. Tracked(play) /\ Fresh(play) /\ play.player \in LocalPlayer
  BY <1>1 DEF SeenInv, Tracked
<1>3. /\ play'.wasAlive = play.wasAlive /\ play'.board = play.board /\ play'.shown = play.shown
      /\ play'.hotbar = play.hotbar /\ play'.selected = play.selected /\ play'.held = play.held
      /\ play'.players = play.players /\ play'.entities = play.entities
      /\ play'.own = TRUE /\ play'.player = on_login(play.player) /\ DOMAIN play' = DOMAIN play
  BY <1>1, <1>2 DEF Tracked, SeenFields
<1>4. play'.player.alive = play.player.alive
  BY Zenon, <1>2, <1>3 DEF on_login, LocalPlayer
<1>5. Tracked(play')
  BY Zenon, <1>2, <1>3, <1>4 DEF Tracked
<1>6. Fresh(play')
  BY <1>2, <1>3, <1>4 DEF Fresh
<1>7. Sees(play', mirror')
  BY <1>1, <1>5, <1>6, EmptyIsSeen
<1> QED BY <1>3, <1>5, <1>7 DEF SeenInv

\* A respawn announces what it resets.
LEMMA RespawnSeen ==
  ASSUME SeenInv, NEW scope, Respawn(scope), play'.player \in LocalPlayer
  PROVE  SeenInv'
<1>1. /\ play' = [play EXCEPT !.pending = FALSE, !.received = FALSE, !.player = on_respawn(@)]
      /\ UNCHANGED mirror
  BY Zenon DEF Respawn
<1>2. Tracked(play) /\ play.player \in LocalPlayer
  BY DEF SeenInv, Tracked
<1>3. PlaySame({"player"}) /\ play'.player = on_respawn(play.player)
  BY Zenon, <1>1, <1>2 DEF PlaySame, Tracked, SeenFields
<1>4. play'.player.alive = play.player.alive
  BY <1>2, <1>3 DEF on_respawn, LocalPlayer
<1> QED BY <1>1, <1>3, <1>4, NothingToSee

\* A teleport changes nothing that subscribers follow.
LEMMA PositionSeen ==
  ASSUME SeenInv, NEW x, NEW facing, Position(x, facing), play'.player \in LocalPlayer
  PROVE  SeenInv'
<1> DEFINE p == on_position(play.player, x, facing)
<1>1. /\ play' = [play EXCEPT !.received = TRUE, !.player = sync_movement_baseline(p)]
      /\ UNCHANGED mirror
  BY Zenon DEF Position
<1>2. Tracked(play) /\ play.player \in LocalPlayer
  BY DEF SeenInv, Tracked
<1>3. "alive" \in DOMAIN p /\ p.alive = play.player.alive
  BY <1>2 DEF on_position, LocalPlayer
<1> HIDE DEF p
<1>4. PlaySame({"player"}) /\ play'.player = sync_movement_baseline(p)
  BY Zenon, <1>1, <1>2 DEF PlaySame, Tracked, SeenFields
<1>5. play'.player.alive = play.player.alive
  BY <1>3, <1>4 DEF sync_movement_baseline
<1> QED BY <1>1, <1>4, <1>5, NothingToSee

\* The Health event tells a death from a change of health, and a subscriber
\* puts the two together.
LEMMA HealthSeen ==
  ASSUME SeenInv, NEW alive \in BOOLEAN, Health(alive), play'.player \in LocalPlayer
  PROVE  SeenInv'
<1>1. /\ play.own
      /\ play' = [play EXCEPT !.player = on_health(@, alive), !.wasAlive = alive]
      /\ mirror' = [mirror EXCEPT !.dead = (@ \/ play.wasAlive) /\ ~alive]
  BY DEF Health, Says, Folded
<1>2. Tracked(play) /\ play.player \in LocalPlayer /\ Sees(play, mirror)
  BY <1>1 DEF SeenInv, Tracked
<1>3. /\ PlaySame({"player", "wasAlive"}) /\ play'.player = on_health(play.player, alive)
      /\ play'.wasAlive = alive
  BY Zenon, <1>1, <1>2 DEF PlaySame, Tracked, SeenFields
<1>4. play'.player.alive = alive
  BY <1>2, <1>3 DEF on_health, LocalPlayer
<1>5. /\ play'.board = play.board /\ play'.shown = play.shown
      /\ play'.hotbar = play.hotbar /\ play'.selected = play.selected /\ play'.held = play.held
      /\ play'.players = play.players /\ play'.entities = play.entities /\ play'.own = play.own
  BY Zenon, <1>3 DEF PlaySame, SeenFields
<1>6. Tracked(play')
  BY <1>2, <1>3, <1>4, <1>5 DEF PlaySame, Tracked
<1>7. MirrorSame({"dead"}) /\ mirror'.dead = ((mirror.dead \/ play.wasAlive) /\ ~alive)
  BY <1>1, <1>2 DEF MirrorSame, Sees, MirrorFields
<1>8. mirror'.dead = ~alive
  <2>1. mirror.dead = ~play.player.alive /\ play.wasAlive = play.player.alive
        /\ play.player.alive \in BOOLEAN
    BY <1>2 DEF Sees, Tracked, LocalPlayer
  <2>2. (mirror.dead \/ play.wasAlive) = TRUE
    BY Zenon, <2>1
  <2> QED BY Zenon, <1>7, <2>2
<1>9. /\ mirror'.objectives = mirror.objectives /\ mirror'.slots = mirror.slots
      /\ mirror'.scores = mirror.scores /\ mirror'.bars = mirror.bars
      /\ mirror'.cooldowns = mirror.cooldowns /\ mirror'.effects = mirror.effects
      /\ mirror'.border = mirror.border /\ mirror'.chat = mirror.chat
      /\ mirror'.held = mirror.held /\ mirror'.joined = mirror.joined
      /\ mirror'.entities = mirror.entities /\ DOMAIN mirror' = DOMAIN mirror
  BY Zenon, <1>7 DEF MirrorSame, MirrorFields
<1>10. Sees(play', mirror')
  BY <1>2, <1>4, <1>5, <1>8, <1>9 DEF Sees
<1> QED BY <1>1, <1>5, <1>6, <1>10 DEF SeenInv

\* Input changes nothing that subscribers follow.
LEMMA ControlSeen ==
  ASSUME SeenInv, Control, play'.player \in LocalPlayer
  PROVE  SeenInv'
<1>1. PICK command : play' = [play EXCEPT
                  !.controller = ApplyCommand(@, command),
                  !.player.facing = IF command.kind = "Look" THEN command.facing ELSE @]
  BY Zenon DEF Control
<1>2. Tracked(play) /\ play.player \in LocalPlayer /\ UNCHANGED mirror
  BY DEF SeenInv, Tracked, Control
<1> DEFINE c == ApplyCommand(play.controller, command)
           f == IF command.kind = "Look" THEN command.facing ELSE play.player.facing
<1>3. play' = [play EXCEPT !.controller = c, !.player.facing = f]
  BY <1>1
<1> HIDE DEF c, f
<1>4. PlaySame({"player"}) /\ play'.player = [play.player EXCEPT !.facing = f]
  BY Zenon, <1>2, <1>3 DEF PlaySame, Tracked, SeenFields
<1>5. play'.player.alive = play.player.alive
  BY <1>2, <1>4 DEF LocalPlayer
<1> QED BY <1>2, <1>4, <1>5, NothingToSee

\* A tick changes nothing that subscribers follow.
LEMMA TickSeen ==
  ASSUME SeenInv, Tick, play'.player \in LocalPlayer
  PROVE  SeenInv'
<1>1. Tracked(play) /\ play.player \in LocalPlayer /\ UNCHANGED mirror
  BY Zenon DEF SeenInv, Tracked, Tick, TickDead, TickLoads, TickMoves, Ticks
<1>2. CASE TickDead
  <2>1. PlaySame({"player"}) /\ play'.player = play.player
    BY <1>1, <1>2 DEF TickDead, PlaySame, Tracked, SeenFields
  <2> QED BY <1>1, <2>1, NothingToSee
<1>3. CASE TickLoads
  <2>1. PlaySame({"player"}) /\ play'.player = mark_loaded(play.player)
    BY <1>1, <1>3 DEF TickLoads, PlaySame, Tracked, SeenFields
  <2>2. play'.player.alive = play.player.alive
    BY <1>1, <2>1 DEF mark_loaded, sync_movement_baseline, LocalPlayer
  <2> QED BY <1>1, <2>1, <2>2, NothingToSee
<1>4. ASSUME NEW look, NEW v, TickMoves(look, v)
      PROVE  SeenInv'
  <2> DEFINE d == Driven(play.controller, play.player, look)
             p == IF worlds[Me].scope # NoScope THEN tick_physics(d, v.dx, v.flags)
                                                ELSE play.player
             c == IF worlds[Me].scope # NoScope
                    THEN DrivenController(play.controller, play.player)
                    ELSE play.controller
             q == IF p.loaded THEN movement_packet(p) ELSE p
             i == IF p.loaded THEN p.input ELSE play.lastInput
  <2>1. play' = [play EXCEPT !.controller = c, !.player = q, !.lastInput = i]
    BY <1>4 DEF TickMoves
  <2>2. "alive" \in DOMAIN d /\ d.alive = play.player.alive
    BY <1>1 DEF Driven, LocalPlayer
  <2> HIDE DEF d
  <2>3. "alive" \in DOMAIN p /\ p.alive = play.player.alive
    BY <1>1, <2>2 DEF tick_physics, LocalPlayer
  <2> HIDE DEF p
  <2>4. q.alive = play.player.alive
    BY <2>3 DEF movement_packet
  <2> HIDE DEF q, c, i
  <2>5. PlaySame({"player"}) /\ play'.player = q
    BY Zenon, <1>1, <2>1 DEF PlaySame, Tracked, SeenFields
  <2> QED BY <1>1, <2>4, <2>5, NothingToSee
<1> QED BY <1>2, <1>3, <1>4 DEF Tick

-----------------------------------------------------------------------------
(* Handlers of the trackers.                                               *)

\* A handler of the presentation or of the HUD, and its event.
LEMMA ShownSeen ==
  ASSUME SeenInv, play.own, PlaySame({"shown"}), play'.shown \in ShownType,
         MirrorSame({"bars", "cooldowns", "effects", "border", "chat"}),
         mirror'.bars = play'.shown.bars, mirror'.cooldowns = play'.shown.cooldowns,
         mirror'.effects = play'.shown.effects, mirror'.border = play'.shown.border,
         Recent(play'.shown.chat, mirror'.chat)
  PROVE  SeenInv'
<1>1. /\ play'.wasAlive = play.wasAlive /\ play'.board = play.board
      /\ play'.player = play.player
      /\ play'.hotbar = play.hotbar /\ play'.selected = play.selected /\ play'.held = play.held
      /\ play'.players = play.players /\ play'.entities = play.entities /\ play'.own = play.own
      /\ DOMAIN play' = DOMAIN play
  BY Zenon DEF PlaySame, SeenFields
<1>2. /\ mirror'.objectives = mirror.objectives /\ mirror'.slots = mirror.slots
      /\ mirror'.scores = mirror.scores /\ mirror'.held = mirror.held
      /\ mirror'.joined = mirror.joined /\ mirror'.entities = mirror.entities
      /\ mirror'.dead = mirror.dead /\ DOMAIN mirror' = DOMAIN mirror
  BY Zenon DEF MirrorSame, MirrorFields
<1>3. Tracked(play) /\ Sees(play, mirror)
  BY DEF SeenInv
<1>4. Tracked(play')
  BY Zenon, <1>1, <1>3 DEF Tracked
<1>5. Sees(play', mirror')
  BY <1>1, <1>2, <1>3 DEF Sees
<1> QED BY <1>1, <1>4, <1>5 DEF SeenInv

\* A map changes the way the event says.
Learned(map, after, n, applied) ==
  /\ after \in TrackerMap
  /\ [map EXCEPT ![n] = IF applied THEN after[n] ELSE @] = after

\* An event that carries the new entry tells how the map has changed.
LEMMA MapLearned ==
  ASSUME NEW map \in TrackerMap, NEW n \in Names, NEW action, NEW value \in Values,
         NEW applied
  PROVE  Learned(map, Changed(map, n, action, value, applied), n, applied)
<1> DEFINE after == Changed(map, n, action, value, applied)
<1>1. CASE ~applied
  <2>1. after = map
    BY <1>1 DEF Changed
  <2>2. [map EXCEPT ![n] = IF applied THEN after[n] ELSE @] = map
    BY <1>1 DEF TrackerMap
  <2> QED BY <2>1, <2>2 DEF Learned
<1>2. CASE applied
  <2> DEFINE x == IF action = "Remove" THEN Absent ELSE value
  <2>1. after = [map EXCEPT ![n] = x] /\ x \in Values \cup {Absent}
    BY <1>2 DEF Changed
  <2> HIDE DEF x
  <2>2. after \in TrackerMap /\ after[n] = x
    BY <2>1 DEF TrackerMap
  <2> HIDE DEF after
  <2>3. [map EXCEPT ![n] = IF applied THEN after[n] ELSE @] = [map EXCEPT ![n] = x]
    BY <1>2, <2>2 DEF TrackerMap
  <2>4. /\ after \in TrackerMap
        /\ [map EXCEPT ![n] = IF applied THEN after[n] ELSE @] = after
    BY <2>1, <2>2, <2>3
  <2> QED BY <2>4 DEF after, Learned
<1> QED BY <1>1, <1>2

\* A boss bar packet is announced as it was applied.
LEMMA BossBarSeen ==
  ASSUME SeenInv, NEW n \in Names, NEW action, NEW value \in Values, BossBar(n, action, value)
  PROVE  SeenInv'
<1> DEFINE applied == BarApplied(play.shown.bars, n, action)
           bars == Changed(play.shown.bars, n, action, value, applied)
<1>1. /\ play.own /\ play' = [play EXCEPT !.shown.bars = bars]
      /\ mirror' = [mirror EXCEPT !.bars[n] = IF applied THEN bars[n] ELSE @]
  BY DEF BossBar, Says, Folded
<1>2. Tracked(play) /\ Sees(play, mirror) /\ play.shown \in ShownType
  BY Zenon, <1>1 DEF SeenInv, Tracked
<1> HIDE DEF applied
<1>3. play.shown.bars \in TrackerMap
  BY Zenon, <1>2 DEF ShownType
<1>4. /\ bars \in TrackerMap
      /\ [play.shown.bars EXCEPT ![n] = IF applied THEN bars[n] ELSE @] = bars
  <2>1. Learned(play.shown.bars, bars, n, applied)
    BY <1>3, MapLearned
  <2> HIDE DEF bars
  <2> QED BY <2>1 DEF Learned
<1> HIDE DEF bars
<1>5. PlaySame({"shown"}) /\ play'.shown = [play.shown EXCEPT !.bars = bars]
  BY <1>1, <1>2 DEF PlaySame, Tracked, SeenFields
<1>6. /\ play'.shown \in ShownType /\ play'.shown.bars = bars
      /\ play'.shown.cooldowns = play.shown.cooldowns /\ play'.shown.effects = play.shown.effects
      /\ play'.shown.border = play.shown.border /\ play'.shown.chat = play.shown.chat
  BY <1>2, <1>4, <1>5 DEF ShownType
<1>7. /\ MirrorSame({"bars"})
      /\ mirror'.bars = [mirror.bars EXCEPT ![n] = IF applied THEN bars[n] ELSE @]
  BY Zenon, <1>1, <1>2 DEF MirrorSame, MirrorFields, Sees
<1>8. /\ mirror'.cooldowns = mirror.cooldowns /\ mirror'.effects = mirror.effects
      /\ mirror'.border = mirror.border /\ mirror'.chat = mirror.chat
      /\ MirrorSame({"bars", "cooldowns", "effects", "border", "chat"})
  BY Zenon, <1>7 DEF MirrorSame, MirrorFields
<1>9. /\ mirror.bars = play.shown.bars /\ mirror.cooldowns = play.shown.cooldowns
      /\ mirror.effects = play.shown.effects /\ mirror.border = play.shown.border
      /\ Recent(play.shown.chat, mirror.chat)
  BY <1>2 DEF Sees
<1> QED BY <1>1, <1>4, <1>5, <1>6, <1>7, <1>8, <1>9, ShownSeen

\* A cooldown packet is announced as it was applied.
LEMMA CooldownSeen ==
  ASSUME SeenInv, NEW n \in Names, NEW action, NEW value \in Values, Cooldown(n, action, value)
  PROVE  SeenInv'
<1> DEFINE applied == EntryApplied(play.shown.cooldowns, n, action)
           cooldowns == Changed(play.shown.cooldowns, n, action, value, applied)
<1>1. /\ play.own /\ play' = [play EXCEPT !.shown.cooldowns = cooldowns]
      /\ mirror' = [mirror EXCEPT !.cooldowns[n] = IF applied THEN cooldowns[n] ELSE @]
  BY DEF Cooldown, Says, Folded
<1>2. Tracked(play) /\ Sees(play, mirror) /\ play.shown \in ShownType
  BY Zenon, <1>1 DEF SeenInv, Tracked
<1> HIDE DEF applied
<1>3. play.shown.cooldowns \in TrackerMap
  BY Zenon, <1>2 DEF ShownType
<1>4. /\ cooldowns \in TrackerMap
      /\ [play.shown.cooldowns EXCEPT ![n] = IF applied THEN cooldowns[n] ELSE @] = cooldowns
  <2>1. Learned(play.shown.cooldowns, cooldowns, n, applied)
    BY <1>3, MapLearned
  <2> HIDE DEF cooldowns
  <2> QED BY <2>1 DEF Learned
<1> HIDE DEF cooldowns
<1>5. PlaySame({"shown"}) /\ play'.shown = [play.shown EXCEPT !.cooldowns = cooldowns]
  BY <1>1, <1>2 DEF PlaySame, Tracked, SeenFields
<1>6. /\ play'.shown \in ShownType /\ play'.shown.cooldowns = cooldowns
      /\ play'.shown.bars = play.shown.bars /\ play'.shown.effects = play.shown.effects
      /\ play'.shown.border = play.shown.border /\ play'.shown.chat = play.shown.chat
  BY <1>2, <1>4, <1>5 DEF ShownType
<1>7. /\ MirrorSame({"cooldowns"})
      /\ mirror'.cooldowns = [mirror.cooldowns EXCEPT ![n] = IF applied THEN cooldowns[n] ELSE @]
  BY Zenon, <1>1, <1>2 DEF MirrorSame, MirrorFields, Sees
<1>8. /\ mirror'.bars = mirror.bars /\ mirror'.effects = mirror.effects
      /\ mirror'.border = mirror.border /\ mirror'.chat = mirror.chat
      /\ MirrorSame({"bars", "cooldowns", "effects", "border", "chat"})
  BY <1>7 DEF MirrorSame, MirrorFields
<1>9. /\ mirror.bars = play.shown.bars /\ mirror.cooldowns = play.shown.cooldowns
      /\ mirror.effects = play.shown.effects /\ mirror.border = play.shown.border
      /\ Recent(play.shown.chat, mirror.chat)
  BY <1>2 DEF Sees
<1> QED BY <1>1, <1>4, <1>5, <1>6, <1>7, <1>8, <1>9, ShownSeen

\* An effect packet is announced as it was applied, and only if it was ours.
LEMMA EffectSeen ==
  ASSUME SeenInv, NEW n \in Names, NEW action, NEW value \in Values, NEW mine \in BOOLEAN,
         Effect(n, action, value, mine)
  PROVE  SeenInv'
<1> DEFINE applied == mine /\ EntryApplied(play.shown.effects, n, action)
           effects == Changed(play.shown.effects, n, action, value, applied)
<1>1. /\ play.own /\ play' = [play EXCEPT !.shown.effects = effects]
      /\ mirror' = [mirror EXCEPT !.effects[n] = IF applied THEN effects[n] ELSE @]
  BY DEF Effect, Says, Folded
<1>2. Tracked(play) /\ Sees(play, mirror) /\ play.shown \in ShownType
  BY Zenon, <1>1 DEF SeenInv, Tracked
<1> HIDE DEF applied
<1>3. play.shown.effects \in TrackerMap
  BY Zenon, <1>2 DEF ShownType
<1>4. /\ effects \in TrackerMap
      /\ [play.shown.effects EXCEPT ![n] = IF applied THEN effects[n] ELSE @] = effects
  <2>1. Learned(play.shown.effects, effects, n, applied)
    BY <1>3, MapLearned
  <2> HIDE DEF effects
  <2> QED BY <2>1 DEF Learned
<1> HIDE DEF effects
<1>5. PlaySame({"shown"}) /\ play'.shown = [play.shown EXCEPT !.effects = effects]
  BY <1>1, <1>2 DEF PlaySame, Tracked, SeenFields
<1>6. /\ play'.shown \in ShownType /\ play'.shown.effects = effects
      /\ play'.shown.bars = play.shown.bars /\ play'.shown.cooldowns = play.shown.cooldowns
      /\ play'.shown.border = play.shown.border /\ play'.shown.chat = play.shown.chat
  BY <1>2, <1>4, <1>5 DEF ShownType
<1>7. /\ MirrorSame({"effects"})
      /\ mirror'.effects = [mirror.effects EXCEPT ![n] = IF applied THEN effects[n] ELSE @]
  BY Zenon, <1>1, <1>2 DEF MirrorSame, MirrorFields, Sees
<1>8. /\ mirror'.bars = mirror.bars /\ mirror'.cooldowns = mirror.cooldowns
      /\ mirror'.border = mirror.border /\ mirror'.chat = mirror.chat
      /\ MirrorSame({"bars", "cooldowns", "effects", "border", "chat"})
  BY Zenon, <1>7 DEF MirrorSame, MirrorFields
<1>9. /\ mirror.bars = play.shown.bars /\ mirror.cooldowns = play.shown.cooldowns
      /\ mirror.effects = play.shown.effects /\ mirror.border = play.shown.border
      /\ Recent(play.shown.chat, mirror.chat)
  BY <1>2 DEF Sees
<1> QED BY <1>1, <1>4, <1>5, <1>6, <1>7, <1>8, <1>9, ShownSeen

\* A world border packet is announced as it was applied.
LEMMA BorderSeen ==
  ASSUME SeenInv, NEW action, NEW value \in Values, Border(action, value)
  PROVE  SeenInv'
<1> DEFINE applied == BorderApplied(play.shown.border, action)
           border == IF applied THEN value ELSE play.shown.border
<1>1. /\ play.own /\ play' = [play EXCEPT !.shown.border = border]
      /\ mirror' = [mirror EXCEPT !.border = IF applied THEN value ELSE @]
  BY DEF Border, Says, Folded
<1>2. Tracked(play) /\ Sees(play, mirror) /\ play.shown \in ShownType
  BY Zenon, <1>1 DEF SeenInv, Tracked
<1>3. /\ mirror.bars = play.shown.bars /\ mirror.cooldowns = play.shown.cooldowns
      /\ mirror.effects = play.shown.effects /\ mirror.border = play.shown.border
      /\ Recent(play.shown.chat, mirror.chat)
  BY <1>2 DEF Sees
<1>4. mirror' = [mirror EXCEPT !.border = border] /\ border \in Values \cup {Absent}
  BY <1>1, <1>2, <1>3 DEF ShownType
<1> HIDE DEF border, applied
<1>5. PlaySame({"shown"}) /\ play'.shown = [play.shown EXCEPT !.border = border]
  BY <1>1, <1>2 DEF PlaySame, Tracked, SeenFields
<1>6. /\ play'.shown \in ShownType /\ play'.shown.border = border
      /\ play'.shown.bars = play.shown.bars /\ play'.shown.cooldowns = play.shown.cooldowns
      /\ play'.shown.effects = play.shown.effects /\ play'.shown.chat = play.shown.chat
  BY Zenon, <1>2, <1>4, <1>5 DEF ShownType
<1>7. MirrorSame({"border"}) /\ mirror'.border = border
  BY Zenon, <1>2, <1>4 DEF MirrorSame, MirrorFields, Sees
<1>8. /\ mirror'.bars = mirror.bars /\ mirror'.cooldowns = mirror.cooldowns
      /\ mirror'.effects = mirror.effects /\ mirror'.chat = mirror.chat
      /\ MirrorSame({"bars", "cooldowns", "effects", "border", "chat"})
  BY <1>7 DEF MirrorSame, MirrorFields
<1> QED BY <1>1, <1>3, <1>5, <1>6, <1>7, <1>8, ShownSeen

\* The ring drops its oldest message when it is full.
LEMMA RingRecent ==
  ASSUME NEW chat \in Seq(Nat), NEW all, Recent(chat, all), NEW next \in Nat
  PROVE  /\ Append(chat, next) \in Seq(Nat) /\ Recent(Append(chat, next), Append(all, next))
         /\ chat # <<>> => /\ Append(Tail(chat), next) \in Seq(Nat)
                           /\ Recent(Append(Tail(chat), next), Append(all, next))
<1> DEFINE a == Append(all, next)
           c == Append(chat, next)
           d == Append(Tail(chat), next)
<1>1. all \in Seq(Nat) /\ Len(chat) \in Nat /\ Len(all) \in Nat /\ Len(chat) <= Len(all)
      /\ \A i \in 1..Len(chat) : chat[i] = all[Len(all) - Len(chat) + i]
  BY DEF Recent
<1>2. /\ a \in Seq(Nat) /\ Len(a) = Len(all) + 1 /\ a[Len(all) + 1] = next
      /\ \A i \in 1..Len(all) : a[i] = all[i]
  BY <1>1
<1>3. /\ c \in Seq(Nat) /\ Len(c) = Len(chat) + 1 /\ c[Len(chat) + 1] = next
      /\ \A i \in 1..Len(chat) : c[i] = chat[i]
  OBVIOUS
<1>4. chat # <<>> => /\ d \in Seq(Nat) /\ Len(d) = Len(chat) /\ d[Len(chat)] = next
                     /\ \A i \in 1..(Len(chat) - 1) : d[i] = chat[i + 1]
                     /\ Len(chat) > 0
  <2> SUFFICES ASSUME chat # <<>>
               PROVE  /\ d \in Seq(Nat) /\ Len(d) = Len(chat) /\ d[Len(chat)] = next
                      /\ \A i \in 1..(Len(chat) - 1) : d[i] = chat[i + 1]
                      /\ Len(chat) > 0
    OBVIOUS
  <2> DEFINE t == Tail(chat)
  <2>1. /\ t \in Seq(Nat) /\ Len(t) = Len(chat) - 1 /\ Len(chat) > 0
        /\ \A i \in 1..(Len(chat) - 1) : t[i] = chat[i + 1]
    OBVIOUS
  <2> HIDE DEF t
  <2>2. /\ Append(t, next) \in Seq(Nat) /\ Len(Append(t, next)) = Len(t) + 1
        /\ Append(t, next)[Len(t) + 1] = next
        /\ \A i \in 1..Len(t) : Append(t, next)[i] = t[i]
    BY <2>1
  <2>3. d = Append(t, next)
    BY DEF t
  <2> HIDE DEF d
  <2> QED BY <1>1, <2>1, <2>2, <2>3
<1> HIDE DEF a, c, d
<1>5. Recent(c, a)
  <2>1. ASSUME NEW i \in 1..Len(c)
        PROVE  c[i] = a[Len(a) - Len(c) + i]
    <3> DEFINE k == Len(all) - Len(chat) + i
    <3>1. k \in Nat /\ Len(a) - Len(c) + i = k
      BY <1>1, <1>2, <1>3
    <3>2. CASE i = Len(chat) + 1
      <4>1. k = Len(all) + 1
        BY <1>1, <3>2
      <4> HIDE DEF k
      <4> QED BY Zenon, <1>2, <1>3, <3>1, <3>2, <4>1
    <3>3. CASE i \in 1..Len(chat)
      <4>1. chat[i] = all[k]
        BY Zenon, <1>1, <3>3
      <4>2. k \in 1..Len(all)
        BY <1>1, <3>3
      <4>3. c[i] = chat[i]
        BY Zenon, <1>3, <3>3
      <4> HIDE DEF k
      <4> QED BY Zenon, <1>2, <3>1, <4>1, <4>2, <4>3
    <3> QED BY <1>1, <1>3, <3>2, <3>3
  <2> QED BY <1>1, <1>2, <1>3, <2>1 DEF Recent
<1>6. chat # <<>> => Recent(d, a)
  <2> SUFFICES ASSUME chat # <<>> PROVE Recent(d, a)
    OBVIOUS
  <2>0. /\ d \in Seq(Nat) /\ Len(d) = Len(chat) /\ d[Len(chat)] = next
        /\ \A i \in 1..(Len(chat) - 1) : d[i] = chat[i + 1]
        /\ Len(chat) > 0
    BY <1>4
  <2>1. ASSUME NEW i \in 1..Len(d)
        PROVE  d[i] = a[Len(a) - Len(d) + i]
    <3> DEFINE k == Len(all) - Len(chat) + i + 1
    <3>1. k \in Nat /\ Len(a) - Len(d) + i = k
      BY <1>1, <1>2, <2>0
    <3>2. CASE i = Len(chat)
      <4>1. k = Len(all) + 1
        BY <1>1, <3>2
      <4> HIDE DEF k
      <4> QED BY Zenon, <1>2, <2>0, <3>1, <3>2, <4>1
    <3>3. CASE i \in 1..(Len(chat) - 1)
      <4>1. i + 1 \in 1..Len(chat) /\ Len(all) - Len(chat) + (i + 1) = k
        BY <1>1, <3>3
      <4>2. chat[i + 1] = all[k]
        BY <1>1, <4>1
      <4>3. k \in 1..Len(all)
        BY <1>1, <3>3
      <4>4. d[i] = chat[i + 1]
        BY <2>0, <3>3
      <4> HIDE DEF k
      <4> QED BY Zenon, <1>2, <3>1, <4>2, <4>3, <4>4
    <3> QED BY <1>1, <2>0, <3>2, <3>3
  <2> QED BY <1>1, <1>2, <2>0, <2>1 DEF Recent
<1> QED BY <1>3, <1>4, <1>5, <1>6 DEF a, c, d

\* A message is announced once, and the ring keeps the latest ones.
LEMMA ChatSeen ==
  ASSUME SeenInv, Chat
  PROVE  SeenInv'
<1> DEFINE old == play.shown.chat
           next == play.shown.nextChat
           ring == Append(IF Len(old) = MaxChat THEN Tail(old) ELSE old, next)
           s == [play.shown EXCEPT !.chat = ring, !.nextChat = next + 1]
<1>1. /\ play.own /\ play' = [play EXCEPT !.shown = ChatRing(play.shown)]
      /\ mirror' = [mirror EXCEPT !.chat = Append(@, next)]
  BY DEF Chat, Says, Folded
<1>2. Tracked(play) /\ Sees(play, mirror) /\ play.shown \in ShownType
  BY Zenon, <1>1 DEF SeenInv, Tracked
<1>3. /\ mirror.bars = play.shown.bars /\ mirror.cooldowns = play.shown.cooldowns
      /\ mirror.effects = play.shown.effects /\ mirror.border = play.shown.border
      /\ Recent(old, mirror.chat)
  BY <1>2 DEF Sees
<1>4. old \in Seq(Nat) /\ next \in Nat
  BY <1>2 DEF ShownType
<1>5. ChatRing(play.shown) = s
  BY <1>2 DEF ChatRing, ShownType
<1>6. ring \in Seq(Nat) /\ Recent(ring, Append(mirror.chat, next))
  <2>1. Len(old) = MaxChat => old # <<>>
    BY Zenon, <1>4, TrackerAssumption
  <2> HIDE DEF old, next
  <2>2. /\ Append(old, next) \in Seq(Nat) /\ Recent(Append(old, next), Append(mirror.chat, next))
        /\ old # <<>> => /\ Append(Tail(old), next) \in Seq(Nat)
                         /\ Recent(Append(Tail(old), next), Append(mirror.chat, next))
    BY <1>3, <1>4, RingRecent
  <2>3. CASE Len(old) = MaxChat
    BY <2>1, <2>2, <2>3
  <2>4. CASE Len(old) # MaxChat
    BY <2>2, <2>4
  <2> QED BY <2>3, <2>4
<1> HIDE DEF ring
<1>7. /\ s \in ShownType /\ s.bars = play.shown.bars /\ s.cooldowns = play.shown.cooldowns
      /\ s.effects = play.shown.effects /\ s.border = play.shown.border /\ s.chat = ring
  <2> DEFINE t == play.shown
             n == next + 1
  <2>1. t \in ShownType /\ ring \in Seq(Nat) /\ n \in Nat
    BY <1>2, <1>4, <1>6
  <2>2. s = [t EXCEPT !.chat = ring, !.nextChat = n]
    OBVIOUS
  <2> HIDE DEF t, n, s
  <2>3. /\ s \in ShownType /\ s.bars = t.bars /\ s.cooldowns = t.cooldowns
        /\ s.effects = t.effects /\ s.border = t.border /\ s.chat = ring
    BY Zenon, <2>1, <2>2 DEF ShownType
  <2> QED BY Zenon, <2>3 DEF t
<1>8. play' = [play EXCEPT !.shown = s]
  BY <1>1, <1>5
<1> HIDE DEF s
<1>9. PlaySame({"shown"}) /\ play'.shown = s
  BY <1>2, <1>8 DEF PlaySame, Tracked, SeenFields
<1>10. MirrorSame({"chat"}) /\ mirror'.chat = Append(mirror.chat, next)
  BY <1>1, <1>2 DEF MirrorSame, MirrorFields, Sees
<1>11. /\ mirror'.bars = mirror.bars /\ mirror'.cooldowns = mirror.cooldowns
       /\ mirror'.effects = mirror.effects /\ mirror'.border = mirror.border
       /\ MirrorSame({"bars", "cooldowns", "effects", "border", "chat"})
  BY Zenon, <1>10 DEF MirrorSame, MirrorFields
<1>12. Recent(play'.shown.chat, mirror'.chat)
  BY Zenon, <1>6, <1>7, <1>9, <1>10
<1> QED BY <1>1, <1>3, <1>7, <1>9, <1>11, <1>12, ShownSeen

\* A handler of the hotbar, the tab list or the entities, and its event.
LEMMA ListedSeen ==
  ASSUME SeenInv, play.own,
         PlaySame({"hotbar", "selected", "held", "players", "entities"}),
         play'.hotbar \in [HotbarSlots -> Values \cup {Absent}],
         play'.selected \in HotbarSlots, play'.held = play'.hotbar[play'.selected],
         play'.players \in [Names -> {"named", "unnamed", Absent}],
         play'.entities \in TrackerMap,
         MirrorSame({"held", "joined", "entities"}),
         mirror'.held = play'.held,
         mirror'.joined \subseteq Names, \A n \in mirror'.joined : play'.players[n] = "named",
         mirror'.entities = Present(play'.entities)
  PROVE  SeenInv'
<1>1. /\ play'.wasAlive = play.wasAlive /\ play'.board = play.board
      /\ play'.player = play.player /\ play'.shown = play.shown /\ play'.own = play.own
      /\ DOMAIN play' = DOMAIN play
  BY Zenon DEF PlaySame, SeenFields
<1>2. /\ mirror'.objectives = mirror.objectives /\ mirror'.slots = mirror.slots
      /\ mirror'.scores = mirror.scores /\ mirror'.bars = mirror.bars
      /\ mirror'.cooldowns = mirror.cooldowns /\ mirror'.effects = mirror.effects
      /\ mirror'.border = mirror.border /\ mirror'.chat = mirror.chat
      /\ mirror'.dead = mirror.dead /\ DOMAIN mirror' = DOMAIN mirror
  BY Zenon DEF MirrorSame, MirrorFields
<1>3. Tracked(play) /\ Sees(play, mirror)
  BY Zenon DEF SeenInv
<1>4. Tracked(play')
  BY <1>1, <1>3 DEF Tracked
<1>5. Sees(play', mirror')
  BY Zenon, <1>1, <1>2, <1>3 DEF Sees
<1> QED BY <1>1, <1>4, <1>5 DEF SeenInv

\* What those are before the step.
LEMMA ListedFacts ==
  ASSUME SeenInv, play.own
  PROVE  /\ SeenFields \cup {"own", "player"} \subseteq DOMAIN play
         /\ MirrorFields \subseteq DOMAIN mirror
         /\ play.hotbar \in [HotbarSlots -> Values \cup {Absent}]
         /\ play.selected \in HotbarSlots /\ play.held = play.hotbar[play.selected]
         /\ play.players \in [Names -> {"named", "unnamed", Absent}]
         /\ play.entities \in TrackerMap
         /\ mirror.held = play.held
         /\ mirror.joined \subseteq Names /\ \A n \in mirror.joined : play.players[n] = "named"
         /\ mirror.entities = Present(play.entities)
BY Zenon DEF SeenInv, Tracked, Sees

\* Selecting a slot announces the item it holds, if that is another.
LEMMA HotbarSelectSeen ==
  ASSUME SeenInv, NEW s, SelectHotbar(s)
  PROVE  SeenInv'
<1>0. play.own
  BY DEF SelectHotbar, Says
<1> DEFINE held == IF s \in HotbarSlots THEN play.hotbar[s] ELSE play.held
           selected == IF s \in HotbarSlots THEN s ELSE play.selected
<1>1. /\ play' = [play EXCEPT !.selected = selected, !.held = held]
      /\ mirror' = [mirror EXCEPT !.held = held]
  BY Zenon DEF SelectHotbar, Folded
<1>2. selected \in HotbarSlots /\ held = play.hotbar[selected]
  BY <1>0, ListedFacts
<1> HIDE DEF held, selected
<1>3. /\ PlaySame({"hotbar", "selected", "held", "players", "entities"})
      /\ play'.hotbar = play.hotbar /\ play'.selected = selected /\ play'.held = held
      /\ play'.players = play.players /\ play'.entities = play.entities
  BY Zenon, <1>0, <1>1, ListedFacts DEF PlaySame, SeenFields
<1>4. /\ MirrorSame({"held", "joined", "entities"}) /\ mirror'.held = held
      /\ mirror'.joined = mirror.joined /\ mirror'.entities = mirror.entities
  BY Zenon, <1>0, <1>1, ListedFacts DEF MirrorSame, MirrorFields
<1> QED BY Zenon, <1>0, <1>2, <1>3, <1>4, ListedFacts, ListedSeen

\* An item that arrives is announced if it is the held one.
LEMMA HotbarItemSeen ==
  ASSUME SeenInv, NEW s \in HotbarSlots, NEW value \in Values, HotbarItem(s, value)
  PROVE  SeenInv'
<1>0. play.own
  BY DEF HotbarItem, Says
<1> DEFINE held == IF s = play.selected THEN value ELSE play.held
<1>1. /\ play' = [play EXCEPT !.hotbar[s] = value, !.held = held]
      /\ mirror' = [mirror EXCEPT !.held = held]
  BY Zenon DEF HotbarItem, Folded
<1>2. held = [play.hotbar EXCEPT ![s] = value][play.selected]
  BY <1>0, ListedFacts
<1> HIDE DEF held
<1>3. /\ PlaySame({"hotbar", "selected", "held", "players", "entities"})
      /\ play'.hotbar = [play.hotbar EXCEPT ![s] = value]
      /\ play'.selected = play.selected /\ play'.held = held
      /\ play'.players = play.players /\ play'.entities = play.entities
  BY Zenon, <1>0, <1>1, ListedFacts DEF PlaySame, SeenFields
<1>4. /\ MirrorSame({"held", "joined", "entities"}) /\ mirror'.held = held
      /\ mirror'.joined = mirror.joined /\ mirror'.entities = mirror.entities
  BY Zenon, <1>0, <1>1, ListedFacts DEF MirrorSame, MirrorFields
<1>5. play'.hotbar \in [HotbarSlots -> Values \cup {Absent}]
  BY <1>0, <1>3, ListedFacts
<1> QED BY <1>0, <1>2, <1>3, <1>4, <1>5, ListedFacts, ListedSeen

\* A step of the tab list or of the entities, and what it learns.
LEMMA PeopleSeen ==
  ASSUME SeenInv, play.own, NEW players, NEW entities, NEW listed, NEW seen,
         play' = [play EXCEPT !.players = players, !.entities = entities],
         mirror' = [mirror EXCEPT !.joined = listed, !.entities = seen],
         players \in [Names -> {"named", "unnamed", Absent}], entities \in TrackerMap,
         listed \subseteq Names, \A n \in listed : players[n] = "named",
         seen = Present(entities)
  PROVE  SeenInv'
<1>1. /\ PlaySame({"hotbar", "selected", "held", "players", "entities"})
      /\ play'.hotbar = play.hotbar /\ play'.selected = play.selected
      /\ play'.held = play.held
      /\ play'.players = players /\ play'.entities = entities
  BY Zenon, ListedFacts DEF PlaySame, SeenFields
<1>2. /\ MirrorSame({"held", "joined", "entities"}) /\ mirror'.held = mirror.held
      /\ mirror'.joined = listed /\ mirror'.entities = seen
  BY Zenon, ListedFacts DEF MirrorSame, MirrorFields
<1> QED BY <1>1, <1>2, ListedFacts, ListedSeen

\* A player is announced when it gets its name, and when it leaves.
LEMMA PlayersSeen ==
  ASSUME SeenInv, NEW n \in Names, NEW named \in BOOLEAN,
         PlayerInfo(n, named) \/ PlayerRemove(n)
  PROVE  SeenInv'
<1> DEFINE old == play.players
<1>1. play.own
  BY Zenon DEF PlayerInfo, PlayerRemove, Says
<1>2. old \in [Names -> {"named", "unnamed", Absent}]
  BY <1>1, ListedFacts
<1>3. Absent # "named" /\ Absent # "unnamed"
  BY Zenon, TrackerAssumption
<1>4. mirror.joined \subseteq Names /\ \A m \in mirror.joined : old[m] = "named"
  BY <1>1, ListedFacts
<1>5. CASE PlayerInfo(n, named)
  <2> DEFINE new == Informed(old, n, named)
             listed == IF Joins(old, n, named) THEN mirror.joined \cup {n}
                                               ELSE mirror.joined
  <2>1. /\ play' = [play EXCEPT !.players = new]
        /\ mirror' = [mirror EXCEPT !.joined = listed]
    BY Zenon, <1>5 DEF PlayerInfo, Folded
  <2>2. \/ new = old /\ listed = mirror.joined
        \/ \E v \in {"named", "unnamed"} :
             /\ new = [old EXCEPT ![n] = v] /\ (old[n] = "named" => v = "named")
             /\ listed = mirror.joined \/ (listed = mirror.joined \cup {n} /\ v = "named")
    <3> HIDE DEF old
    <3>1. CASE ~InfoApplied(old, n)
      BY <3>1 DEF Informed, Joins
    <3>2. CASE InfoApplied(old, n)
      <4> DEFINE v == IF named \/ old[n] = "named" THEN "named" ELSE "unnamed"
      <4>1. new = [old EXCEPT ![n] = v]
        BY Zenon, <3>2 DEF Informed
      <4>2. listed = mirror.joined \/ (listed = mirror.joined \cup {n} /\ v = "named")
        BY DEF Joins
      <4> HIDE DEF new, listed
      <4> QED BY Zenon, <4>1, <4>2
    <3> QED BY Zenon, <3>1, <3>2
  <2> HIDE DEF new, listed, old
  <2>3. new \in [Names -> {"named", "unnamed", Absent}]
    BY Zenon, <1>2, <2>2
  <2>4. listed \subseteq Names /\ \A m \in listed : new[m] = "named"
    BY <1>2, <1>4, <2>2
  <2>5. play' = [play EXCEPT !.players = new, !.entities = play.entities]
    BY Zenon, <1>1, <2>1, ListedFacts DEF SeenFields
  <2>6. mirror' = [mirror EXCEPT !.joined = listed, !.entities = mirror.entities]
    BY Zenon, <1>1, <2>1, ListedFacts DEF MirrorFields
  <2> QED BY Zenon, <1>1, <2>3, <2>4, <2>5, <2>6, ListedFacts, PeopleSeen
<1>6. CASE PlayerRemove(n)
  <2> DEFINE new == [old EXCEPT ![n] = Absent]
             listed == IF old[n] # Absent THEN mirror.joined \ {n} ELSE mirror.joined
  <2>1. /\ play' = [play EXCEPT !.players = new]
        /\ mirror' = [mirror EXCEPT !.joined = listed]
    BY Zenon, <1>6 DEF PlayerRemove, Folded
  <2> HIDE DEF old
  <2>2. n \notin listed /\ listed \subseteq mirror.joined
    BY <1>3, <1>4
  <2>3. new \in [Names -> {"named", "unnamed", Absent}]
    BY <1>2
  <2> HIDE DEF listed
  <2>4. listed \subseteq Names /\ \A m \in listed : new[m] = "named"
    BY Zenon, <1>2, <1>4, <2>2
  <2> HIDE DEF new
  <2>5. play' = [play EXCEPT !.players = new, !.entities = play.entities]
    BY Zenon, <1>1, <2>1, ListedFacts DEF SeenFields
  <2>6. mirror' = [mirror EXCEPT !.joined = listed, !.entities = mirror.entities]
    BY Zenon, <1>1, <2>1, ListedFacts DEF MirrorFields
  <2> QED BY Zenon, <1>1, <2>3, <2>4, <2>5, <2>6, ListedFacts, PeopleSeen
<1> QED BY <1>5, <1>6

\* A step that leaves those entities, and tells of them.
LEMMA EntitiesTold ==
  ASSUME SeenInv, play.own, NEW new \in TrackerMap, NEW seen, seen = Present(new),
         play' = [play EXCEPT !.entities = new],
         MirrorSame({"entities"}), mirror'.entities = seen
  PROVE  SeenInv'
<1>1. /\ PlaySame({"hotbar", "selected", "held", "players", "entities"})
      /\ play'.hotbar = play.hotbar /\ play'.selected = play.selected
      /\ play'.held = play.held
      /\ play'.players = play.players /\ play'.entities = new
  BY ListedFacts DEF PlaySame, SeenFields
<1>2. /\ MirrorSame({"held", "joined", "entities"}) /\ mirror'.held = mirror.held
      /\ mirror'.joined = mirror.joined
  BY DEF MirrorSame, MirrorFields
<1> QED BY <1>1, <1>2, ListedFacts, ListedSeen

\* An entity is announced when it appears.
LEMMA EntitiesSeen ==
  ASSUME SeenInv, NEW n \in Names, NEW value \in Values,
         SpawnEntity(n, value) \/ MoveEntity(n, value)
  PROVE  SeenInv'
<1> DEFINE old == play.entities
<1>1. play.own
  BY Zenon DEF SpawnEntity, MoveEntity, Says
<1>2. old \in TrackerMap /\ mirror.entities = Present(old)
  BY <1>1, ListedFacts
<1>3. Absent \notin Values
  BY TrackerAssumption
<1>5. CASE SpawnEntity(n, value)
  <2> DEFINE new == [old EXCEPT ![n] = value]
             seen == mirror.entities \cup {n}
  <2>1. /\ play' = [play EXCEPT !.entities = new]
        /\ mirror' = [mirror EXCEPT !.entities = seen]
    BY Zenon, <1>5 DEF SpawnEntity, Folded, Spawned
  <2> HIDE DEF old
  <2>2. new \in TrackerMap /\ seen = Present(new)
    BY <1>2, <1>3 DEF TrackerMap, Present
  <2> HIDE DEF new, seen
  <2>3. MirrorSame({"entities"}) /\ mirror'.entities = seen
    BY <1>1, <2>1, ListedFacts DEF MirrorSame, MirrorFields
  <2> QED BY <1>1, EntitiesTold, <2>1, <2>2, <2>3
<1>6. CASE MoveEntity(n, value)
  <2> DEFINE new == EntityUpdated(old, n, value)
             seen == mirror.entities
  <2>1. play' = [play EXCEPT !.entities = new] /\ mirror' = mirror
    BY <1>6 DEF MoveEntity, Folded
  <2>2. MirrorSame({"entities"}) /\ mirror'.entities = seen
    BY Zenon, <2>1 DEF MirrorSame
  <2> HIDE DEF old
  <2>3. new \in TrackerMap /\ seen = Present(new)
    BY <1>2, <1>3 DEF TrackerMap, Present, EntityUpdated
  <2> HIDE DEF new, seen
  <2> QED BY <1>1, EntitiesTold, <2>1, <2>2, <2>3
<1> QED BY <1>5, <1>6

\* An entity that is removed is announced if it was there.
LEMMA DestroySeen ==
  ASSUME SeenInv, NEW n \in Names, DestroyEntity(n)
  PROVE  SeenInv'
<1> DEFINE old == play.entities
<1>0. play.own
  BY Zenon DEF DestroyEntity, Says
<1>9. old \in TrackerMap /\ mirror.entities = Present(old)
  BY <1>0, ListedFacts
<1> DEFINE new == [old EXCEPT ![n] = Absent]
           seen == mirror.entities \ {n}
<1>1. /\ play' = [play EXCEPT !.entities = new]
      /\ mirror' = [mirror EXCEPT !.entities = seen]
  BY DEF DestroyEntity, Folded, Destroyed
<1> HIDE DEF old
<1>2. new \in TrackerMap /\ seen = Present(new)
  BY <1>9 DEF TrackerMap, Present
<1> HIDE DEF new, seen
<1>3. MirrorSame({"entities"}) /\ mirror'.entities = seen
  BY <1>0, <1>1, ListedFacts DEF MirrorSame, MirrorFields
<1> QED BY <1>0, EntitiesTold, <1>1, <1>2, <1>3

-----------------------------------------------------------------------------
(* The scoreboard's events tell what each handler has left.                *)

Mirrored(m, b) ==
  /\ MirrorFields \subseteq DOMAIN m
  /\ m.objectives = b.objectives /\ m.slots = b.slots /\ m.scores = b.scores

\* A subscriber that knew b knows c, and has learned nothing else.
Told(m, l, c) ==
  /\ Sound(c) /\ Bounded(c) /\ Mirrored(l, c) /\ DOMAIN l = DOMAIN m
  /\ \A f \in MirrorFields \ {"objectives", "slots", "scores"} : l[f] = m[f]

\* The fields of what a scoreboard handler returns.
LEMMA OutcomeFacts ==
  ASSUME NEW c, NEW kind, NEW name, NEW applied
  PROVE  /\ Outcome(c, kind, name, applied).board = c
         /\ Outcome(c, kind, name, applied).event.kind = kind
         /\ Outcome(c, kind, name, applied).event.name = name
         /\ Outcome(c, kind, name, applied).event.applied = applied
         /\ Outcome(c, kind, name, applied).event.current = Current(c, kind, name)
BY Zenon DEF Outcome

\* An update that was not applied, or one of a team.
LEMMA ToldNothing ==
  ASSUME NEW m, NEW b, Mirrored(m, b), NEW c, Teamed(b, c),
         NEW e, ~e.applied \/ e.kind = "team"
  PROVE  Told(m, LearnBoard(m, e), c)
<1>1. LearnBoard(m, e) = m
  BY DEF LearnBoard
<1> QED BY <1>1 DEF Told, Mirrored, Teamed

\* objective_create tells what it did.
LEMMA CreateTold ==
  ASSUME NEW m, NEW b, Mirrored(m, b), Sound(b), Bounded(b), NEW o \in Objectives
  PROVE  Told(m, LearnBoard(m, ObjectiveCreate(b, o).event), ObjectiveCreate(b, o).board)
<1> DEFINE out == ObjectiveCreate(b, o)
           c == [b EXCEPT !.objectives = @ \cup {o}]
           l == [m EXCEPT !.objectives = @ \cup {o}]
<1> SUFFICES Told(m, LearnBoard(m, out.event), out.board)
  OBVIOUS
<1>1. Sound(out.board) /\ Bounded(out.board)
  BY Zenon, ObjectiveCreateSound, ObjectiveCreateBounded DEF Sound
<1>2. CASE out = Outcome(b, "objective", o, FALSE)
  <2>1. out.board = b /\ ~out.event.applied
    <3> HIDE DEF out
    <3> QED BY <1>2 DEF Outcome
  <2> HIDE DEF out
  <2> QED BY Zenon, <2>1, ToldNothing DEF Teamed
<1>3. CASE out = Outcome(c, "objective", o, TRUE)
  <2>1. /\ c.objectives = b.objectives \cup {o} /\ c.slots = b.slots
        /\ c.scores = b.scores
    BY Zenon DEF Sound, BoardType
  <2>2. /\ out.board = c /\ out.event.kind = "objective" /\ out.event.name = o
        /\ out.event.applied = TRUE /\ out.event.current = Current(c, "objective", o)
    <3> HIDE DEF out, c
    <3> QED BY <1>3 DEF Outcome
  <2>3. Current(c, "objective", o) = TRUE
    <3> HIDE DEF c
    <3> QED BY <2>1 DEF Current
  <2> HIDE DEF out, c
  <2>4. LearnBoard(m, out.event) = l
    BY <2>2, <2>3 DEF LearnBoard
  <2>5. Told(m, l, c)
    BY <1>1, <2>1, <2>2 DEF Told, Mirrored, MirrorFields
  <2> QED BY <2>2, <2>4, <2>5
<1> QED BY Zenon, <1>2, <1>3 DEF ObjectiveCreate

\* An objective packet the client does not know is announced as unapplied.
LEMMA UnknownTold ==
  ASSUME NEW m, NEW b, Mirrored(m, b), Sound(b), Bounded(b), NEW o \in Objectives
  PROVE  Told(m, LearnBoard(m, ObjectiveUnknown(b, o).event), ObjectiveUnknown(b, o).board)
<1> DEFINE out == ObjectiveUnknown(b, o)
<1>1. out.board = b /\ ~out.event.applied
  BY Zenon DEF ObjectiveUnknown, Outcome
<1> HIDE DEF out
<1>2. Told(m, LearnBoard(m, out.event), out.board)
  BY Zenon, <1>1, ToldNothing DEF Teamed
<1> QED BY <1>2 DEF out

\* objective_update tells what it did.
LEMMA UpdateTold ==
  ASSUME NEW m, NEW b, Mirrored(m, b), Sound(b), Bounded(b), NEW o \in Objectives
  PROVE  Told(m, LearnBoard(m, ObjectiveUpdate(b, o).event), ObjectiveUpdate(b, o).board)
<1> DEFINE out == ObjectiveUpdate(b, o)
           l == [m EXCEPT !.objectives = @ \cup {o}]
<1> SUFFICES Told(m, LearnBoard(m, out.event), out.board)
  OBVIOUS
<1>1. /\ out.board = b /\ out.event.kind = "objective" /\ out.event.name = o
      /\ out.event.applied = (o \in b.objectives)
      /\ out.event.current = (o \in b.objectives)
  BY OutcomeFacts DEF ObjectiveUpdate, Current
<1> HIDE DEF out
<1>2. CASE o \notin b.objectives
  BY Zenon, <1>1, <1>2, ToldNothing DEF Teamed
<1>3. CASE o \in b.objectives
  <2>1. LearnBoard(m, out.event) = l
    BY Zenon, <1>1, <1>3 DEF LearnBoard
  <2>2. b.objectives \cup {o} = b.objectives
    BY <1>3
  <2>3. Told(m, l, b)
    BY <2>2 DEF Told, Mirrored, MirrorFields
  <2> QED BY <1>1, <2>1, <2>3
<1> QED BY Zenon, <1>2, <1>3

\* objective_remove tells what it did, its slots and scores included.
LEMMA RemoveTold ==
  ASSUME NEW m, NEW b, Mirrored(m, b), Sound(b), Bounded(b), NEW o \in Objectives
  PROVE  Told(m, LearnBoard(m, ObjectiveRemove(b, o).event), ObjectiveRemove(b, o).board)
<1> DEFINE slots == {s \in Slots : b.slots[s] = o}
           scores == {k \in b.scores : k[2] = o}
           c == [b EXCEPT
                   !.objectives = @ \ {o},
                   !.slots = [s \in Slots |-> IF s \in slots THEN None ELSE @[s]],
                   !.scores = @ \ scores]
           out == ObjectiveRemove(b, o)
           l == [m EXCEPT
                   !.objectives = @ \ {o},
                   !.slots = [s \in Slots |-> IF @[s] = o THEN None ELSE @[s]],
                   !.scores = {k \in @ : k[2] # o}]
<1> SUFFICES Told(m, LearnBoard(m, out.event), out.board)
  OBVIOUS
<1>1. out = Outcome(c, "objective", o, o \in b.objectives \/ slots # {} \/ scores # {})
  BY DEF ObjectiveRemove
<1>2. Sound(out.board) /\ Bounded(out.board)
  BY ObjectiveRemoveSound, ObjectiveRemoveBounded DEF Sound
<1>3. /\ c.objectives = b.objectives \ {o}
      /\ c.slots = [s \in Slots |-> IF b.slots[s] = o THEN None ELSE b.slots[s]]
      /\ c.scores = {k \in b.scores : k[2] # o}
  BY Zenon DEF Sound, BoardType
<1>4. /\ out.board = c /\ out.event.kind = "objective" /\ out.event.name = o
      /\ out.event.applied = (o \in b.objectives \/ slots # {} \/ scores # {})
      /\ out.event.current = Current(c, "objective", o)
  <2> HIDE DEF out, c, slots, scores
  <2> QED BY <1>1, OutcomeFacts
<1>5. Current(c, "objective", o) = FALSE
  <2> HIDE DEF c
  <2> QED BY <1>3 DEF Current
<1>6. CASE ~out.event.applied
  <2>1. o \notin b.objectives /\ slots = {} /\ scores = {}
    <3> HIDE DEF out, c, slots, scores
    <3> QED BY Zenon, <1>4, <1>6
  <2>2. (\A s \in Slots : b.slots[s] # o) /\ \A k \in b.scores : k[2] # o
    BY Zenon, <2>1
  <2> HIDE DEF out, c, slots, scores
  <2>3. c.objectives = b.objectives /\ c.slots = b.slots /\ c.scores = b.scores
    BY <1>3, <2>1, <2>2 DEF Sound, BoardType
  <2> QED BY Zenon, <1>2, <1>4, <1>6, <2>3, ToldNothing DEF Teamed
<1>7. CASE out.event.applied
  <2> HIDE DEF out, c, slots, scores
  <2>1. LearnBoard(m, out.event) = l
    BY Zenon, <1>4, <1>5, <1>7 DEF LearnBoard
  <2>2. Told(m, l, c)
    <3>1. /\ l.objectives = m.objectives \ {o}
          /\ l.slots = [s \in Slots |-> IF m.slots[s] = o THEN None ELSE m.slots[s]]
          /\ l.scores = {k \in m.scores : k[2] # o}
          /\ DOMAIN l = DOMAIN m
          /\ \A f \in MirrorFields \ {"objectives", "slots", "scores"} : l[f] = m[f]
      BY Zenon DEF Mirrored, MirrorFields
    <3> HIDE DEF l
    <3> QED BY <1>2, <1>3, <1>4, <3>1 DEF Told, Mirrored
  <2> QED BY <1>4, <2>1, <2>2
<1> QED BY <1>6, <1>7

\* display_slot tells what it did.
LEMMA SlotTold ==
  ASSUME NEW m, NEW b, Mirrored(m, b), Sound(b), Bounded(b),
         NEW s \in Slots, NEW o \in Objectives \cup {None}
  PROVE  Told(m, LearnBoard(m, DisplaySlot(b, s, o).event), DisplaySlot(b, s, o).board)
<1> DEFINE out == DisplaySlot(b, s, o)
           fits == \/ o = None /\ b.slots[s] # None
                   \/ /\ o \in b.objectives
                      /\ \/ b.slots[s] # None
                         \/ Cardinality(Used(b.slots)) < MaxDisplaySlots
           c == [b EXCEPT !.slots[s] = o]
           l == [m EXCEPT !.slots[s] = o]
<1> SUFFICES Told(m, LearnBoard(m, out.event), out.board)
  OBVIOUS
<1>1. out = Outcome(IF fits THEN c ELSE b, "slot", s, fits)
  BY DEF DisplaySlot
<1>2. Sound(out.board) /\ Bounded(out.board)
  BY DisplaySlotSound, DisplaySlotBounded DEF Sound
<1>3. c.objectives = b.objectives /\ c.slots = [b.slots EXCEPT ![s] = o] /\ c.scores = b.scores
  BY DEF Sound, BoardType
<1> HIDE DEF fits, out, c
<1>4. CASE ~fits
  <2>1. out.board = b /\ ~out.event.applied
    BY <1>1, <1>4 DEF Outcome
  <2> QED BY Zenon, <2>1, ToldNothing DEF Teamed
<1>5. CASE fits
  <2>1. /\ out.board = c /\ out.event.kind = "slot" /\ out.event.name = s
        /\ out.event.applied /\ out.event.current = Current(c, "slot", s)
    BY Zenon, <1>1, <1>5 DEF Outcome
  <2>2. Current(c, "slot", s) = o
    <3>1. Current(c, "slot", s) = c.slots[s]
      BY DEF Current
    <3> QED BY <1>3, <3>1 DEF Sound, BoardType
  <2>3. LearnBoard(m, out.event) = l
    BY <2>1, <2>2 DEF LearnBoard
  <2>4. Told(m, l, c)
    BY <1>2, <1>3, <2>1 DEF Told, Mirrored, MirrorFields
  <2> QED BY <2>1, <2>3, <2>4
<1> QED BY <1>4, <1>5

\* set_score tells what it did.
LEMMA SetTold ==
  ASSUME NEW m, NEW b, Mirrored(m, b), Sound(b), Bounded(b),
         NEW owner \in Owners, NEW o \in Objectives
  PROVE  Told(m, LearnBoard(m, SetScore(b, owner, o).event), SetScore(b, owner, o).board)
<1> DEFINE out == SetScore(b, owner, o)
           k == <<owner, o>>
           fits == /\ o \in b.objectives
                   /\ k \in b.scores \/ Cardinality(b.scores) < MaxScores
           c == [b EXCEPT !.scores = @ \cup {k}]
           l == [m EXCEPT !.scores = @ \cup {k}]
<1> SUFFICES Told(m, LearnBoard(m, out.event), out.board)
  OBVIOUS
<1>1. out = Outcome(IF fits THEN c ELSE b, "score", k, fits)
  BY DEF SetScore
<1>2. Sound(out.board) /\ Bounded(out.board)
  BY SetScoreSound, SetScoreBounded DEF Sound
<1> HIDE DEF fits, out, k
<1>3. c.objectives = b.objectives /\ c.slots = b.slots /\ c.scores = b.scores \cup {k}
  BY Zenon DEF Sound, BoardType
<1> HIDE DEF c
<1>4. CASE ~fits
  <2>1. out.board = b /\ ~out.event.applied
    BY <1>1, <1>4 DEF Outcome
  <2> QED BY Zenon, <2>1, ToldNothing DEF Teamed
<1>5. CASE fits
  <2>1. /\ out.board = c /\ out.event.kind = "score" /\ out.event.name = k
        /\ out.event.applied /\ out.event.current = Current(c, "score", k)
    BY <1>1, <1>5 DEF Outcome
  <2>2. Current(c, "score", k) = TRUE
    BY <1>3 DEF Current
  <2>3. LearnBoard(m, out.event) = l
    BY <2>1, <2>2 DEF LearnBoard
  <2>4. Told(m, l, c)
    BY <1>2, <1>3, <2>1 DEF Told, Mirrored, MirrorFields
  <2> QED BY Zenon, <2>1, <2>3, <2>4
<1> QED BY <1>4, <1>5

\* A reset of one objective, or of all, leaves none of what it names.
LEMMA ResetTold ==
  ASSUME NEW m, NEW b, Mirrored(m, b), Sound(b), Bounded(b),
         NEW owner \in Owners, NEW o \in Objectives \cup {None}
  PROVE  Told(m, LearnBoard(m, ResetScore(b, owner, o).event), ResetScore(b, owner, o).board)
<1> DEFINE out == ResetScore(b, owner, o)
           k == <<owner, o>>
           gone == {j \in b.scores : j[1] = owner /\ o \in {j[2], None}}
           c == [b EXCEPT !.scores = @ \ gone]
           l == [m EXCEPT !.scores = {j \in @ : j[1] # k[1] \/ k[2] \notin {j[2], None}}]
<1> SUFFICES Told(m, LearnBoard(m, out.event), out.board)
  OBVIOUS
<1>1. out = Outcome(c, "score", k, gone # {})
  BY DEF ResetScore
<1>2. Sound(out.board) /\ Bounded(out.board)
  BY ResetScoreSound, ResetScoreBounded DEF Sound
<1>3. k \notin c.scores
  <2>1. c.scores = b.scores \ gone
    BY Zenon DEF Sound, BoardType
  <2>2. ASSUME k \in b.scores PROVE k \in gone
    <3>1. k[1] = owner /\ k[2] = o
      OBVIOUS
    <3> HIDE DEF k
    <3> QED BY <2>2, <3>1
  <2> HIDE DEF k, gone
  <2> QED BY <2>1, <2>2
<1>4. k[1] = owner /\ k[2] = o
  OBVIOUS
<1> HIDE DEF k
<1>5. /\ c.objectives = b.objectives /\ c.slots = b.slots
      /\ c.scores = {j \in b.scores : j[1] # owner \/ o \notin {j[2], None}}
  BY DEF Sound, BoardType
<1>6. gone = {} => c.scores = b.scores
  BY Zenon, <1>5
<1> HIDE DEF gone, out, c
<1>7. /\ out.board = c /\ out.event.kind = "score" /\ out.event.name = k
      /\ out.event.applied = (gone # {}) /\ out.event.current = Current(c, "score", k)
  BY <1>1 DEF Outcome
<1>8. CASE gone = {}
  BY Zenon, <1>2, <1>5, <1>6, <1>7, <1>8, ToldNothing DEF Teamed
<1>9. CASE gone # {}
  <2>1. Current(c, "score", k) = FALSE
    BY <1>3 DEF Current
  <2>2. LearnBoard(m, out.event) = l
    BY Zenon, <1>7, <1>9, <2>1 DEF LearnBoard
  <2>3. /\ l.objectives = m.objectives /\ l.slots = m.slots
        /\ l.scores = {j \in m.scores : j[1] # owner \/ o \notin {j[2], None}}
        /\ DOMAIN l = DOMAIN m
        /\ \A f \in MirrorFields \ {"objectives", "slots", "scores"} : l[f] = m[f]
    BY <1>4 DEF Mirrored, MirrorFields
  <2> HIDE DEF l
  <2>4. Told(m, l, c)
    BY Zenon, <1>2, <1>5, <1>7, <2>3 DEF Told, Mirrored
  <2> QED BY Zenon, <1>7, <2>2, <2>4
<1> QED BY <1>8, <1>9

\* The lists of members that arrive are sequences of members.
LEMMA ListsAreSeqs == MemberLists \subseteq Seq(Members)
<1>1. ASSUME NEW n \in Nat, NEW ms \in [1..n -> Members]
      PROVE  ms \in Seq(Members)
  OBVIOUS
<1>2. 0..2 \subseteq Nat
  OBVIOUS
<1> QED BY Zenon, <1>1, <1>2 DEF MemberLists

\* A team's events say nothing of the rest of the board, which it leaves.
LEMMA TeamTold ==
  ASSUME NEW m, NEW b, Mirrored(m, b), Sound(b), Bounded(b), NEW t \in Teams,
         NEW out,
         \/ out = TeamRemove(b, t) \/ out = TeamUpdate(b, t) \/ out = TeamUnknown(b, t)
         \/ \E ms \in MemberLists :
              out = TeamCreate(b, t, ms) \/ out = TeamAdd(b, t, ms)
                \/ out = TeamDrop(b, t, ms)
  PROVE  Told(m, LearnBoard(m, out.event), out.board)
<1>1. out.event.kind = "team"
  <2>1. \E c, applied : out = Outcome(c, "team", t, applied)
    BY Zenon DEF TeamRemove, TeamUpdate, TeamUnknown, TeamCreate, TeamAdd, TeamDrop
  <2> QED BY <2>1 DEF Outcome
<1>2. Teamed(b, out.board)
  <2>1. CASE out = TeamRemove(b, t)
    BY <2>1, TeamRemoveTeamed
  <2>2. CASE out = TeamUpdate(b, t)
    BY Zenon, <2>2 DEF TeamUpdate, Outcome, Teamed
  <2>3. ASSUME NEW ms \in MemberLists,
               out = TeamCreate(b, t, ms) \/ out = TeamAdd(b, t, ms)
                 \/ out = TeamDrop(b, t, ms)
        PROVE  Teamed(b, out.board)
    <3>1. ms \in Seq(Members)
      BY ListsAreSeqs
    <3> QED BY Zenon, <2>3, <3>1, TeamCreateTeamed, TeamListTeamed
  <2>4. CASE out = TeamUnknown(b, t)
    BY Zenon, <2>4 DEF TeamUnknown, Outcome, Teamed
  <2> QED BY Zenon, <2>1, <2>2, <2>3, <2>4
<1> QED BY Zenon, <1>1, <1>2, ToldNothing

\* A scoreboard handler that tells what it did keeps the subscriber informed.
LEMMA BoardSeen ==
  ASSUME SeenInv, NEW family, NEW outcome, Board(family, outcome),
         Told(mirror, LearnBoard(mirror, outcome.event), outcome.board)
  PROVE  SeenInv'
<1> DEFINE c == outcome.board
           l == LearnBoard(mirror, outcome.event)
<1>1. play.own /\ play' = [play EXCEPT !.board = c] /\ mirror' = l
  BY DEF Board, Says, Folded
<1>2. Tracked(play) /\ Sees(play, mirror)
  BY <1>1 DEF SeenInv
<1>3. Told(mirror, l, c)
  OBVIOUS
<1> HIDE DEF c, l
<1>4. PlaySame({"board"}) /\ play'.board = c
  BY Zenon, <1>1, <1>2 DEF PlaySame, Tracked, SeenFields
<1>5. /\ play'.wasAlive = play.wasAlive /\ play'.shown = play.shown
      /\ play'.player = play.player /\ play'.own = play.own
      /\ play'.hotbar = play.hotbar /\ play'.selected = play.selected
      /\ play'.held = play.held /\ play'.players = play.players
      /\ play'.entities = play.entities /\ DOMAIN play' = DOMAIN play
  BY <1>4 DEF PlaySame, SeenFields
<1>6. /\ Sound(c) /\ Bounded(c)
      /\ MirrorFields \subseteq DOMAIN l
      /\ l.objectives = c.objectives /\ l.slots = c.slots /\ l.scores = c.scores
      /\ l.bars = mirror.bars /\ l.cooldowns = mirror.cooldowns
      /\ l.effects = mirror.effects /\ l.border = mirror.border /\ l.chat = mirror.chat
      /\ l.held = mirror.held /\ l.joined = mirror.joined
      /\ l.entities = mirror.entities /\ l.dead = mirror.dead
  BY Zenon, <1>3 DEF Told, Mirrored, MirrorFields
<1>7. Tracked(play')
  BY Zenon, <1>2, <1>4, <1>5, <1>6 DEF Tracked
<1>8. Sees(play', mirror')
  BY <1>1, <1>2, <1>4, <1>5, <1>6 DEF Sees
<1> QED BY <1>1, <1>5, <1>7, <1>8 DEF SeenInv

\* Every scoreboard packet keeps the subscriber informed.
LEMMA ScoreboardsSeen ==
  ASSUME SeenInv, Scoreboards
  PROVE  SeenInv'
<1> DEFINE b == play.board
<1>1. play.own
  BY Zenon DEF Scoreboards, TeamPackets, Board, Says
<1>2. Sound(b) /\ Bounded(b) /\ Mirrored(mirror, b)
  BY Zenon, <1>1 DEF SeenInv, Tracked, Sees, Mirrored
<1>3. PICK family, out : /\ Board(family, out)
                         /\ Told(mirror, LearnBoard(mirror, out.event), out.board)
  <2>1. CASE \E o \in Objectives :
               \/ Board("board", ObjectiveCreate(b, o))
               \/ Board("board", ObjectiveUpdate(b, o))
               \/ Board("board", ObjectiveUnknown(b, o))
               \/ Board("board", ObjectiveRemove(b, o))
    <3> HIDE DEF b
    <3> QED BY <1>2, <2>1, CreateTold, UpdateTold, UnknownTold, RemoveTold
  <2>2. CASE \E s \in Slots, o \in Objectives \cup {None} :
               Board("board", DisplaySlot(b, s, o))
    <3> HIDE DEF b
    <3> QED BY Zenon, <1>2, <2>2, SlotTold
  <2>3. CASE \E owner \in Owners :
               \/ \E o \in Objectives : Board("board", SetScore(b, owner, o))
               \/ \E o \in Objectives \cup {None} :
                    Board("board", ResetScore(b, owner, o))
    <3> HIDE DEF b
    <3> QED BY Zenon, <1>2, <2>3, SetTold, ResetTold
  <2>4. CASE \E t \in Teams :
               \/ Board("teams", TeamRemove(b, t))
               \/ Board("teams", TeamUpdate(b, t))
               \/ Board("teams", TeamUnknown(b, t))
               \/ \E ms \in MemberLists :
                    \/ Board("teams", TeamCreate(b, t, ms))
                    \/ Board("teams", TeamAdd(b, t, ms))
                    \/ Board("teams", TeamDrop(b, t, ms))
    <3> HIDE DEF b
    <3> QED BY Zenon, <1>2, <2>4, TeamTold
  <2> QED BY Zenon, <2>1, <2>2, <2>3, <2>4 DEF Scoreboards, TeamPackets
<1> QED BY <1>3, BoardSeen

-----------------------------------------------------------------------------
(* Every step.                                                             *)

\* A packet that is dropped tells the subscriber nothing, and changes nothing.
LEMMA MalformedSeen ==
  ASSUME SeenInv, MalformedOptional
  PROVE  SeenInv'
<1>1. play' = play /\ mirror' = mirror
  BY Zenon DEF MalformedOptional, Folded
<1> QED BY Zenon, <1>1 DEF SeenInv

\* Every tracker packet keeps the subscriber informed.
LEMMA TrackersSeen ==
  ASSUME SeenInv, TrackerPackets
  PROVE  SeenInv'
<1>1. CASE \E n \in Names, value \in Values :
             \E action \in {"Add", "Update", "Remove", "Unknown"} :
               BossBar(n, action, value)
  BY <1>1, BossBarSeen
<1>2. CASE \E n \in Names, value \in Values : \E action \in {"Set", "Remove"} :
             Cooldown(n, action, value)
  BY <1>2, CooldownSeen
<1>3. CASE \E n \in Names, value \in Values :
             \E action \in {"Set", "Remove", "Negative"}, mine \in BOOLEAN : Effect(n, action, value, mine)
  BY <1>3, EffectSeen
<1>4. CASE \E n \in Names, value \in Values : SpawnEntity(n, value) \/ MoveEntity(n, value)
  BY <1>4, EntitiesSeen
<1>5. CASE \E action \in {"Initialize", "Update"}, value \in Values : Border(action, value)
  BY <1>5, BorderSeen
<1>6. CASE Chat
  BY <1>6, ChatSeen
<1>7. CASE \E s \in HotbarSlots \cup {9} : SelectHotbar(s)
  BY <1>7, HotbarSelectSeen
<1>8. CASE \E s \in HotbarSlots, value \in Values : HotbarItem(s, value)
  BY <1>8, HotbarItemSeen
<1>9. CASE \E n \in Names : PlayerRemove(n)
  BY Zenon, <1>9, PlayersSeen
<1>10. CASE \E n \in Names : DestroyEntity(n)
  BY <1>10, DestroySeen
<1>11. CASE \E n \in Names : \E named \in BOOLEAN : PlayerInfo(n, named)
  BY Zenon, <1>11, PlayersSeen
<1>12. CASE MalformedOptional
  BY Zenon, <1>12, MalformedSeen
<1> QED BY Zenon, <1>1, <1>2, <1>3, <1>4, <1>5, <1>6, <1>7, <1>8, <1>9, <1>10, <1>11, <1>12
        DEF TrackerPackets, BossBarPackets, BorderPackets
-----------------------------------------------------------------------------
(* The PlayState and what the server knows of the player.                  *)

PlayFields == {"player", "controller", "own", "received", "pending", "lastInput"}

\* Before player_loaded the server knows the position it has given us, ...
KnownBefore ==
  play.received /\ ~play.player.loaded =>
    heard.x = play.player.x /\ heard.flags = play.player.flags

\* ... and after it what movement_packet has reported.
KnownSince ==
  play.player.loaded =>
    /\ heard.x = play.player.xLast /\ heard.flags = play.player.flagsLast
    /\ Abs(play.player.x - play.player.xLast) <= PositionEpsilon
    /\ heard.facing = play.player.facingLast \/ heard.turned

PlayInv ==
  /\ PlayFields \subseteq DOMAIN play
  /\ play.player \in LocalPlayer
  /\ play.controller \in Controller /\ KeysMatch(play.controller)
  /\ heard \in Heard /\ heard.input = play.lastInput
  /\ play.received => play.own /\ heard.placed
  /\ play.player.loaded => play.own /\ heard.placed
  /\ KnownBefore /\ KnownSince

\* A new PlayState satisfies its invariant.
LEMMA NewPlayStateInv ==
  ASSUME play' = NewPlayState, heard' = Unheard
  PROVE  PlayInv'
<1>1. Unheard \in Heard
  BY DEF Unheard, Heard, Facings, MovementInput, NoInput, Impulses
<1>2. ~NewPlayer.loaded
  BY DEF NewPlayer
<1>3. /\ PlayFields \subseteq DOMAIN NewPlayState
      /\ NewPlayState.player = NewPlayer /\ NewPlayState.controller = NewController
      /\ NewPlayState.lastInput = NoInput /\ ~NewPlayState.received
  BY Zenon DEF NewPlayState, PlayFields
<1>4. Unheard.input = NoInput
  BY Zenon DEF Unheard
<1> QED BY Zenon, <1>1, <1>2, <1>3, <1>4, NewPlayerType, NewControllerMatches
        DEF PlayInv, KnownBefore, KnownSince

\* A step without the player keeps its invariant.
LEMMA PlayUnchanged ==
  ASSUME PlayInv, UNCHANGED <<play, heard>>
  PROVE  PlayInv'
BY DEF PlayInv, KnownBefore, KnownSince

\* Entering Play anew builds a PlayState that satisfies its invariant.
LEMMA RebuildKeepsPlay ==
  ASSUME PlayInv, Rebuild
  PROVE  PlayInv'
BY PlayUnchanged, NewPlayStateInv DEF Rebuild

\* A step that leaves the player, its controller and what was sent alone.
LEMMA OthersKeepPlay ==
  ASSUME PlayInv, UNCHANGED heard,
         PlayFields \subseteq DOMAIN play',
         \A f \in PlayFields \ {"pending"} : play'[f] = play[f]
  PROVE  PlayInv'
<1>1. /\ play'.player = play.player /\ play'.controller = play.controller
      /\ play'.own = play.own /\ play'.received = play.received
      /\ play'.lastInput = play.lastInput
  BY DEF PlayFields
<1> QED BY Zenon, <1>1 DEF PlayInv, KnownBefore, KnownSince

\* A login or a respawn keeps the invariant of the player.
LEMMA LoginKeepsPlay ==
  ASSUME PlayInv, NEW scope, Login(scope) \/ Respawn(scope)
  PROVE  PlayInv'
<1>1. /\ heard' \in Heard /\ heard'.input = heard.input
  BY Zenon DEF Login, Respawn, PlayInv, Heard
<1>2. /\ PlayFields \subseteq DOMAIN play'
      /\ play'.controller = play.controller /\ play'.lastInput = play.lastInput
      /\ play'.player \in {on_login(play.player), on_respawn(play.player)}
      /\ ~play'.received
  BY Zenon DEF Login, Respawn, PlayInv, PlayFields
<1>3. play'.player \in LocalPlayer /\ ~play'.player.loaded
  BY Zenon, <1>2 DEF on_login, on_respawn, PlayInv, LocalPlayer
<1> QED BY Zenon, <1>1, <1>2, <1>3 DEF PlayInv, KnownBefore, KnownSince

\* A teleport, with its confirmation, keeps the invariant of the player.
LEMMA PositionKeepsPlay ==
  ASSUME PlayInv, NEW x \in Int, NEW facing \in Facings, Position(x, facing)
  PROVE  PlayInv'
<1> DEFINE p == on_position(play.player, x, facing)
           q == sync_movement_baseline(p)
<1>1. /\ p \in LocalPlayer /\ p.x = x /\ p.facing = facing
      /\ p.flags = play.player.flags
  BY Zenon DEF on_position, PlayInv, LocalPlayer
<1>2. /\ PlayFields \subseteq DOMAIN play' /\ play'.player = q
      /\ play'.controller = play.controller /\ play'.lastInput = play.lastInput
      /\ play'.own = play.own /\ play.own
  BY Zenon DEF Position, Says, PlayInv, PlayFields
<1>3. heard' = [heard EXCEPT !.x = p.x, !.facing = p.facing, !.flags = p.flags,
                             !.placed = TRUE, !.turned = FALSE]
  BY DEF Position
<1> HIDE DEF p
<1>4. /\ q \in LocalPlayer /\ q.x = p.x /\ q.xLast = p.x
      /\ q.facingLast = p.facing /\ q.flags = p.flags /\ q.flagsLast = p.flags
  BY Zenon, <1>1 DEF sync_movement_baseline, LocalPlayer
<1>5. /\ heard' \in Heard /\ heard'.input = heard.input /\ heard'.placed
      /\ heard'.x = p.x /\ heard'.facing = p.facing /\ heard'.flags = p.flags
  BY Zenon, <1>1, <1>3 DEF PlayInv, Heard, LocalPlayer
<1> HIDE DEF q
<1>6. Abs(q.x - q.xLast) <= PositionEpsilon
  BY <1>1, <1>4, MovementAssumption DEF Abs, LocalPlayer
<1> QED BY Zenon, <1>2, <1>4, <1>5, <1>6 DEF PlayInv, KnownBefore, KnownSince

\* A health packet keeps the invariant of the player.
LEMMA HealthKeepsPlay ==
  ASSUME PlayInv, NEW alive \in BOOLEAN, Health(alive)
  PROVE  PlayInv'
<1> DEFINE q == on_health(play.player, alive)
<1>1. /\ PlayFields \subseteq DOMAIN play' /\ play'.player = q
      /\ play'.controller = play.controller /\ play'.lastInput = play.lastInput
      /\ play'.own = play.own /\ play'.received = play.received
      /\ heard' = heard
  BY DEF Health, Folded, PlayInv, PlayFields
<1>2. /\ q \in LocalPlayer /\ q.x = play.player.x /\ q.xLast = play.player.xLast
      /\ q.facingLast = play.player.facingLast /\ q.flags = play.player.flags
      /\ q.flagsLast = play.player.flagsLast /\ q.loaded = play.player.loaded
  BY DEF on_health, PlayInv, LocalPlayer
<1> HIDE DEF q
<1> QED BY Zenon, <1>1, <1>2 DEF PlayInv, KnownBefore, KnownSince

\* Input keeps the invariant of the player.
LEMMA ControlKeepsPlay ==
  ASSUME PlayInv, Control
  PROVE  PlayInv'
<1>1. PICK command \in Commands :
        play' = [play EXCEPT
                   !.controller = ApplyCommand(@, command),
                   !.player.facing = IF command.kind = "Look" THEN command.facing
                                                              ELSE @]
  BY Zenon, SessionAssumption DEF Control
<1> DEFINE facing == IF command.kind = "Look" THEN command.facing
                                              ELSE play.player.facing
           q == [play.player EXCEPT !.facing = facing]
<1>2. facing \in Facings
  BY DEF Commands, PlayInv, LocalPlayer
<1>3. /\ PlayFields \subseteq DOMAIN play' /\ play'.player = q
      /\ play'.controller = ApplyCommand(play.controller, command)
      /\ play'.lastInput = play.lastInput
      /\ play'.own = play.own /\ play'.received = play.received
      /\ heard' = heard
  BY Zenon, <1>1 DEF Control, PlayInv, PlayFields
<1> HIDE DEF facing
<1>4. /\ q \in LocalPlayer /\ q.x = play.player.x /\ q.xLast = play.player.xLast
      /\ q.facingLast = play.player.facingLast /\ q.flags = play.player.flags
      /\ q.flagsLast = play.player.flagsLast /\ q.loaded = play.player.loaded
  BY <1>2 DEF PlayInv, LocalPlayer
<1>5. play'.controller \in Controller /\ KeysMatch(play'.controller)
  BY Zenon, <1>3, CommandsKeepTheKeys DEF PlayInv
<1> HIDE DEF q
<1> QED BY Zenon, <1>3, <1>4, <1>5 DEF PlayInv, KnownBefore, KnownSince

-----------------------------------------------------------------------------
(* handle_tick.                                                            *)

\* A tick of a dead player keeps the invariant.
LEMMA DeadTickKeepsPlay ==
  ASSUME PlayInv, TickDead
  PROVE  PlayInv'
<1>1. /\ PlayFields \subseteq DOMAIN play'
      /\ \A f \in PlayFields \ {"pending"} : play'[f] = play[f]
      /\ UNCHANGED heard
  BY DEF TickDead, PlayInv, PlayFields
<1> QED BY <1>1, OthersKeepPlay

\* The tick that reports the world as loaded keeps the invariant.
LEMMA LoadTickKeepsPlay ==
  ASSUME PlayInv, TickLoads
  PROVE  PlayInv'
<1> DEFINE p == play.player
           q == mark_loaded(p)
<1>1. /\ PlayFields \subseteq DOMAIN play' /\ play'.player = q
      /\ play'.controller = play.controller /\ play'.lastInput = play.lastInput
      /\ play'.own = play.own /\ play'.received = play.received
      /\ heard' = [heard EXCEPT !.turned = heard.facing # p.facing]
      /\ play.received /\ ~p.loaded
  BY Zenon DEF TickLoads, ReadyToLoad, PlayInv, PlayFields
<1>2. p \in LocalPlayer /\ heard \in Heard
  BY DEF PlayInv
<1> HIDE DEF p
<1>3. /\ q.x = p.x /\ q.xLast = p.x /\ q.facingLast = p.facing
      /\ q.flagsLast = p.flags /\ q.loaded
  BY <1>2 DEF mark_loaded, sync_movement_baseline, LocalPlayer
<1>4. q \in LocalPlayer
  BY <1>2, BaselineType
<1>5. /\ heard' \in Heard /\ heard'.input = heard.input
      /\ heard'.placed = heard.placed /\ heard'.x = heard.x
      /\ heard'.facing = heard.facing /\ heard'.flags = heard.flags
      /\ heard'.turned = (heard.facing # p.facing)
  BY Zenon, <1>1, <1>2 DEF Heard
<1> HIDE DEF q
<1>6. Abs(q.x - q.xLast) <= PositionEpsilon
  BY <1>2, <1>3, MovementAssumption DEF Abs, LocalPlayer
<1>7. heard.x = p.x /\ heard.flags = p.flags
  BY <1>1 DEF PlayInv, KnownBefore, p
<1>8. KnownSince'
  BY Zenon, <1>1, <1>3, <1>5, <1>6, <1>7 DEF KnownSince
<1>9. KnownBefore'
  BY <1>1, <1>3 DEF KnownBefore
<1> QED BY Zenon, <1>1, <1>3, <1>4, <1>5, <1>8, <1>9 DEF PlayInv

\* tick_physics moves the player, and reports nothing by itself.
LEMMA PhysicsKeeps ==
  ASSUME NEW d \in LocalPlayer, NEW dx \in Int, NEW flags \in BOOLEAN
  PROVE  LET q == tick_physics(d, dx, flags)
         IN  /\ q \in LocalPlayer /\ q.x = d.x + dx /\ q.flags = flags
             /\ q.loaded = d.loaded /\ q.xLast = d.xLast
             /\ q.facingLast = d.facingLast /\ q.flagsLast = d.flagsLast
<1> DEFINE x == d.x + dx
<1>1. x \in Int
  BY DEF LocalPlayer
<1>2. tick_physics(d, dx, flags) = [d EXCEPT !.x = x, !.flags = flags]
  BY DEF tick_physics
<1> HIDE DEF x
<1> QED BY Zenon, <1>1, <1>2 DEF LocalPlayer, x

\* What drive and tick_physics make of the player: its baseline stays, and so
\* does its place where it is not loaded.
LEMMA DrivenKeeps ==
  ASSUME NEW c \in Controller, NEW p \in LocalPlayer, NEW look \in Looks(c),
         NEW v \in Moves(p)
  PROVE  LET q == tick_physics(Driven(c, p, look), v.dx, v.flags)
         IN  /\ q \in LocalPlayer /\ q.loaded = p.loaded
             /\ q.xLast = p.xLast /\ q.facingLast = p.facingLast
             /\ q.flagsLast = p.flagsLast
             /\ ~p.loaded => q.x = p.x /\ q.flags = p.flags
<1> DEFINE d == Driven(c, p, look)
           q == tick_physics(d, v.dx, v.flags)
<1>1. d \in LocalPlayer
  BY DrivenType
<1>2. /\ d.x = p.x /\ d.loaded = p.loaded /\ d.xLast = p.xLast
      /\ d.facingLast = p.facingLast /\ d.flagsLast = p.flagsLast
  BY DEF Driven, LocalPlayer
<1>3. v.dx \in Int /\ v.flags \in BOOLEAN
  BY DEF Moves, LocalPlayer
<1>4. ~p.loaded => v.dx = 0 /\ v.flags = p.flags
  BY DEF Moves, Terrain
<1> HIDE DEF d
<1>5. /\ q \in LocalPlayer /\ q.x = d.x + v.dx /\ q.flags = v.flags
      /\ q.loaded = d.loaded /\ q.xLast = d.xLast
      /\ q.facingLast = d.facingLast /\ q.flagsLast = d.flagsLast
  BY <1>1, <1>3, PhysicsKeeps
<1>6. p.x + 0 = p.x
  BY DEF LocalPlayer
<1> QED BY Zenon, <1>2, <1>4, <1>5, <1>6 DEF d

\* A tick that moves keeps the invariant: what changed is what is sent.
LEMMA MoveTickKeepsPlay ==
  ASSUME PlayInv, NEW look \in Looks(play.controller), NEW v \in Moves(play.player),
         TickMoves(look, v)
  PROVE  PlayInv'
<1> DEFINE driven == worlds[Me].scope # NoScope
           p == IF driven
                  THEN tick_physics(Driven(play.controller, play.player, look),
                                    v.dx, v.flags)
                  ELSE play.player
           c == IF driven THEN DrivenController(play.controller, play.player)
                          ELSE play.controller
           m == movement_packet(p)
           h == Reported(p, heard)
<1>1. /\ p \in LocalPlayer /\ p.loaded = play.player.loaded
      /\ p.xLast = play.player.xLast /\ p.facingLast = play.player.facingLast
      /\ p.flagsLast = play.player.flagsLast
      /\ ~p.loaded => p.x = play.player.x /\ p.flags = play.player.flags
  <2>1. play.player \in LocalPlayer /\ play.controller \in Controller
    BY Zenon DEF PlayInv
  <2>2. CASE driven
    <3> DEFINE q == tick_physics(Driven(play.controller, play.player, look), v.dx, v.flags)
    <3>1. /\ q \in LocalPlayer /\ q.loaded = play.player.loaded
          /\ q.xLast = play.player.xLast /\ q.facingLast = play.player.facingLast
          /\ q.flagsLast = play.player.flagsLast
          /\ ~play.player.loaded => q.x = play.player.x /\ q.flags = play.player.flags
      BY Zenon, <2>1, DrivenKeeps
    <3>2. p = q
      BY Zenon, <2>2
    <3> HIDE DEF p, q
    <3> QED BY Zenon, <3>1, <3>2
  <2>3. CASE ~driven
    BY Zenon, <2>1, <2>3
  <2> QED BY Zenon, <2>2, <2>3
<1>2. c \in Controller /\ KeysMatch(c)
  BY Zenon, DriveKeepsTheKeys DEF PlayInv
<1>3. /\ play' = [play EXCEPT !.controller = c,
                              !.player = IF p.loaded THEN m ELSE p,
                              !.lastInput = IF p.loaded THEN p.input ELSE @]
      /\ heard' = IF p.loaded
                    THEN [h EXCEPT !.input = p.input,
                                   !.turned = @ /\ ~RotationChanged(p)]
                    ELSE heard
  BY DEF TickMoves
<1> HIDE DEF p, c
<1>4. /\ PlayFields \subseteq DOMAIN play'
      /\ play'.controller = c /\ play'.player = IF p.loaded THEN m ELSE p
      /\ play'.lastInput = IF p.loaded THEN p.input ELSE play.lastInput
      /\ play'.own = play.own /\ play'.received = play.received
  BY <1>3 DEF PlayInv, PlayFields
<1>5. CASE ~p.loaded
  <2>1. heard' = heard /\ play'.player = p
    BY <1>3, <1>4, <1>5
  <2> QED BY Zenon, <1>1, <1>2, <1>4, <1>5, <2>1 DEF PlayInv, KnownBefore, KnownSince
<1>6. CASE p.loaded
  <2>1. /\ heard.x = p.xLast /\ heard.flags = p.flagsLast /\ heard \in Heard
        /\ heard.facing = p.facingLast \/ heard.turned
    BY Zenon, <1>1, <1>6 DEF PlayInv, KnownSince
  <2>2. /\ Abs(m.x - m.xLast) <= PositionEpsilon
        /\ h.x = m.xLast /\ h.flags = m.flagsLast
        /\ heard.facing = p.facingLast => h.facing = m.facingLast
    BY Zenon, <1>1, <2>1, BaselineIsReported
  <2>3. m \in LocalPlayer
    BY <1>1, BaselineType
  <2>4. m.loaded /\ m.facingLast = p.facing
    BY <1>1, <1>6 DEF movement_packet, LocalPlayer
  <2>5. /\ h \in Heard /\ h.placed = heard.placed /\ h.turned = heard.turned
        /\ h.facing = IF RotationChanged(p) THEN p.facing ELSE heard.facing
    BY Zenon, <1>1, <2>1 DEF Reported, Heard, LocalPlayer
  <2> HIDE DEF h, m
  <2>6. heard' = [h EXCEPT !.input = p.input, !.turned = @ /\ ~RotationChanged(p)]
    BY <1>3, <1>6
  <2>7. /\ heard' \in Heard /\ heard'.input = p.input
        /\ heard'.placed = heard.placed /\ heard'.x = h.x
        /\ heard'.facing = h.facing /\ heard'.flags = h.flags
        /\ heard'.turned <=> heard.turned /\ ~RotationChanged(p)
    BY Zenon, <1>1, <2>5, <2>6 DEF Heard, LocalPlayer
  <2>8. heard'.facing = m.facingLast \/ heard'.turned
    BY Zenon, <2>1, <2>2, <2>4, <2>5, <2>7
  <2>9. play'.player = m /\ play'.lastInput = p.input
    BY <1>4, <1>6
  <2>10. KnownSince' /\ KnownBefore'
    BY Zenon, <2>2, <2>4, <2>7, <2>8, <2>9 DEF KnownSince, KnownBefore
  <2> QED BY Zenon, <1>1, <1>2, <1>4, <1>6, <2>3, <2>4, <2>7, <2>9, <2>10 DEF PlayInv
<1> QED BY <1>5, <1>6

-----------------------------------------------------------------------------
(* The invariant.                                                          *)

SessionInv == PlayInv /\ WorldInv

\* What the trackers do is not seen by either part.
Apart ==
  /\ PlayFields \subseteq DOMAIN play'
  /\ \A f \in PlayFields : play'[f] = play[f]
  /\ UNCHANGED <<heard, worldVars>>

\* A step apart from player and world keeps both invariants.
LEMMA ApartKeeps ==
  ASSUME SessionInv, Apart
  PROVE  SessionInv'
BY OthersKeepPlay, WorldInvStutters DEF Apart, SessionInv

\* A scoreboard packet is apart from them.
LEMMA BoardApart ==
  ASSUME PlayInv, NEW family, NEW outcome, Board(family, outcome)
  PROVE  Apart
BY Zenon DEF Board, Says, Folded, Apart, PlayInv, PlayFields

\* So is every packet of the scoreboard.
LEMMA ScoreboardsApart ==
  ASSUME PlayInv, Scoreboards
  PROVE  Apart
BY BoardApart DEF Scoreboards, TeamPackets

\* So are boss bars, cooldowns, effects, the border and the chat.
LEMMA ShownApart ==
  ASSUME PlayInv, NEW n, NEW action, NEW value, NEW mine,
         \/ BossBar(n, action, value) \/ Cooldown(n, action, value)
         \/ Effect(n, action, value, mine) \/ Border(action, value) \/ Chat
  PROVE  Apart
<1>1. CASE BossBar(n, action, value)
  BY <1>1 DEF BossBar, Says, Folded, Apart, PlayInv, PlayFields
<1>2. CASE Cooldown(n, action, value)
  BY <1>2 DEF Cooldown, Says, Folded, Apart, PlayInv, PlayFields
<1>3. CASE Effect(n, action, value, mine)
  BY <1>3 DEF Effect, Says, Folded, Apart, PlayInv, PlayFields
<1>4. CASE Border(action, value)
  BY <1>4 DEF Border, Says, Folded, Apart, PlayInv, PlayFields
<1>5. CASE Chat
  BY <1>5 DEF Chat, Says, Folded, Apart, PlayInv, PlayFields
<1> QED BY Zenon, <1>1, <1>2, <1>3, <1>4, <1>5

\* So are the hotbar, the player list and the entities.
LEMMA ListedApart ==
  ASSUME PlayInv, NEW n, NEW value,
         \/ SelectHotbar(n) \/ HotbarItem(n, value) \/ PlayerInfo(n, value)
         \/ PlayerRemove(n) \/ SpawnEntity(n, value) \/ DestroyEntity(n)
         \/ MoveEntity(n, value)
  PROVE  Apart
<1>1. CASE SelectHotbar(n) \/ HotbarItem(n, value)
  BY Zenon, <1>1 DEF SelectHotbar, HotbarItem, Says, Folded, Apart, PlayInv, PlayFields
<1>2. CASE PlayerInfo(n, value) \/ PlayerRemove(n)
  BY <1>2 DEF PlayerInfo, PlayerRemove, Says, Folded, Apart, PlayInv, PlayFields
<1>3. CASE SpawnEntity(n, value) \/ DestroyEntity(n) \/ MoveEntity(n, value)
  BY Zenon, <1>3 DEF SpawnEntity, DestroyEntity, MoveEntity, Says, Folded, Apart, PlayInv,
     PlayFields
<1> QED BY <1>1, <1>2, <1>3

\* So is every tracker packet.
LEMMA TrackersApart ==
  ASSUME PlayInv, TrackerPackets
  PROVE  Apart
<1>1. CASE MalformedOptional
  BY <1>1 DEF MalformedOptional, Says, Folded, Apart, PlayInv
<1>2. CASE BossBarPackets \/ BorderPackets
  BY <1>2, ShownApart DEF BossBarPackets, BorderPackets
<1> QED BY Zenon, <1>1, <1>2, ShownApart, ListedApart DEF TrackerPackets

-----------------------------------------------------------------------------
\* A PlayState built anew drops its world, and its chunks with it.
LEMMA RebuildKeepsWorld ==
  ASSUME WorldInv, Rebuild
  PROVE  WorldInv'
<1>1. Me \in Bots
  BY SessionAssumption
<1> QED BY Zenon, <1>1, EnterKeeps, WorldInvStutters DEF Rebuild, LeaveWorld

\* The inputs chosen to stand for a set are members of it.
LEMMA SomeOf ==
  ASSUME NEW S, S # {}
  PROVE  OneOf(S) \subseteq S /\ Variety(S) \subseteq S
BY DEF OneOf, Variety

\* Every packet about the player keeps the invariant.
LEMMA PlayerPacketsKeep ==
  ASSUME SessionInv, PlayerPackets
  PROVE  SessionInv'
<1>1. ASSUME NEW scope \in Variety(Scopes), Login(scope) \/ Respawn(scope)
      PROVE  SessionInv'
  <2>1. Me \in Bots /\ scope \in Scopes
    BY SomeOf, SessionAssumption
  <2>2. EnterWorld(Me, scope)
    BY <1>1 DEF Login, Respawn, Says
  <2> QED BY Zenon, <1>1, <2>1, <2>2, EnterKeeps, LoginKeepsPlay DEF SessionInv
<1>2. ASSUME NEW to \in Teleports, Position(to.x, to.facing)
      PROVE  SessionInv'
  <2>1. to.x \in Int /\ to.facing \in Facings
    BY SessionAssumption, MovementAssumption DEF Positions
  <2>2. UNCHANGED worldVars
    BY <1>2 DEF Position, Says
  <2> QED BY Zenon, <1>2, <2>1, <2>2, WorldInvStutters, PositionKeepsPlay
          DEF SessionInv
<1>3. ASSUME NEW alive \in BOOLEAN, Health(alive)
      PROVE  SessionInv'
  <2>1. UNCHANGED worldVars
    BY <1>3 DEF Health, Says, Folded
  <2> QED BY <1>3, <2>1, WorldInvStutters, HealthKeepsPlay DEF SessionInv
<1> QED BY Zenon, <1>1, <1>2, <1>3 DEF PlayerPackets

\* Every packet about the world keeps the invariant.
LEMMA WorldPacketsKeep ==
  ASSUME SessionInv, WorldPackets
  PROVE  SessionInv'
<1>1. ASSUME NEW p \in Places, NEW content \in Variety(Contents),
             \/ MapChunk(p, content) \/ ChunkUpdate(p, content) \/ UnloadChunk(p)
      PROVE  SessionInv'
  <2>1. Me \in Bots /\ p \in Chunks /\ content \in Contents
    BY Zenon, SomeOf, SessionAssumption DEF Places
  <2>2. \/ ChunkArrives(Me, p, content) \/ ChunkUnloads(Me, p)
    BY Zenon, <1>1 DEF MapChunk, ChunkUpdate, UnloadChunk, ChunkChanges
  <2>3. UNCHANGED <<play, heard>>
    BY <1>1 DEF MapChunk, ChunkUpdate, UnloadChunk, Says, stateVars
  <2> QED BY Zenon, <2>1, <2>2, <2>3, ArriveKeeps, UnloadKeeps, PlayUnchanged
          DEF SessionInv
<1>2. CASE ChunkRefused
  <2>1. Rebuild
    BY <1>2 DEF ChunkRefused
  <2> QED BY Zenon, <2>1, RebuildKeepsPlay, RebuildKeepsWorld DEF SessionInv
<1>3. \E content \in Variety(Contents) : TRUE
  BY SessionAssumption DEF Variety, OneOf
<1> QED BY Zenon, <1>1, <1>2, <1>3 DEF WorldPackets

\* Ticks and input keep the invariant.
LEMMA TickKeeps ==
  ASSUME SessionInv, Tick \/ Control
  PROVE  SessionInv'
<1>1. UNCHANGED worldVars
  BY Zenon DEF Tick, TickDead, TickLoads, TickMoves, Ticks, Control
<1>2. PlayInv'
  BY DeadTickKeepsPlay, LoadTickKeepsPlay, MoveTickKeepsPlay, ControlKeepsPlay
     DEF Tick, SessionInv
<1> QED BY <1>1, <1>2, WorldInvStutters DEF SessionInv

\* The invariant holds when the session starts.
LEMMA SessionInvInit == Init => SessionInv
<1> SUFFICES ASSUME Init PROVE SessionInv
  OBVIOUS
<1>1. WorldInv
  BY Zenon, WorldInvInit DEF Init
<1>2. Unheard \in Heard
  BY DEF Unheard, Heard, Facings, MovementInput, NoInput, Impulses
<1>3. ~NewPlayer.loaded
  BY DEF NewPlayer
<1>4. /\ PlayFields \subseteq DOMAIN NewPlayState
      /\ NewPlayState.player = NewPlayer /\ NewPlayState.controller = NewController
      /\ NewPlayState.lastInput = NoInput /\ ~NewPlayState.received
  BY Zenon DEF NewPlayState, PlayFields
<1>5. Unheard.input = NoInput
  BY Zenon DEF Unheard
<1>6. PlayInv
  BY Zenon, <1>2, <1>3, <1>4, <1>5, NewPlayerType, NewControllerMatches
     DEF Init, PlayInv, KnownBefore, KnownSince
<1> QED BY <1>1, <1>6 DEF SessionInv

\* Every step keeps the invariant.
LEMMA SessionInvStep == SessionInv /\ [Next]_vars => SessionInv'
<1> SUFFICES ASSUME SessionInv, [Next]_vars PROVE SessionInv'
  OBVIOUS
<1>1. CASE Rebuild
  BY <1>1, RebuildKeepsPlay, RebuildKeepsWorld DEF SessionInv
<1>2. CASE Tick \/ Control
  BY <1>2, TickKeeps
<1>3. CASE PlayerPackets \/ WorldPackets
  BY <1>3, PlayerPacketsKeep, WorldPacketsKeep
<1>4. CASE Scoreboards \/ TrackerPackets
  BY Zenon, <1>4, ScoreboardsApart, TrackersApart, ApartKeeps DEF SessionInv
<1>5. CASE OtherBots
  <2>1. PICK b \in Bots, p \in Places : WorldStep(b, p)
    BY <1>5 DEF OtherBots
  <2>2. p \in Chunks
    BY SomeOf, SessionAssumption DEF Places
  <2>3. UNCHANGED <<play, heard>>
    BY <1>5 DEF OtherBots, stateVars
  <2> QED BY Zenon, <2>1, <2>2, <2>3, WorldStepKeeps, PlayUnchanged DEF SessionInv
<1>6. CASE UNCHANGED vars
  BY <1>6, PlayUnchanged, WorldInvStutters
     DEF vars, stateVars, SessionInv
<1> QED BY Zenon, <1>1, <1>2, <1>3, <1>4, <1>5, <1>6 DEF Next

\* The invariant holds in every reachable state.
LEMMA SessionInvariant == Spec => []SessionInv
BY SessionInvInit, SessionInvStep, PTL DEF Spec

-----------------------------------------------------------------------------
(* The properties.                                                         *)

\* ServerKnowsUs, for any distances and intervals, any commands and any
\* teleports: no movement is lost between ticks, teleports, deaths and
\* respawns.
THEOREM ServerAlwaysKnowsUs == Spec => []ServerKnowsUs
<1>1. ASSUME SessionInv PROVE ServerKnowsUs
  <2>1. /\ play.player.x \in Int /\ play.player.xLast \in Int
        /\ heard.input = play.lastInput /\ KnownSince
    BY <1>1 DEF SessionInv, PlayInv, LocalPlayer
  <2> QED BY Zenon, <2>1 DEF ServerKnowsUs, KnownSince
<1> QED BY <1>1, SessionInvariant, PTL

\* LoadedInThisWorld: a position from before a respawn never counts.
THEOREM LoadsInThisWorld == Spec => []LoadedInThisWorld
<1>1. SessionInv => LoadedInThisWorld
  BY Zenon DEF SessionInv, PlayInv, LoadedInThisWorld
<1> QED BY <1>1, SessionInvariant, PTL

\* KeysMatchInput, after any commands in any session.
THEOREM KeysAlwaysMatchInput == Spec => []KeysMatchInput
<1>1. SessionInv => KeysMatchInput
  BY DEF SessionInv, PlayInv, KeysMatchInput
<1> QED BY <1>1, SessionInvariant, PTL

\* ChunkIsMine, for any number of bots on any servers, any hash of the chunks
\* and any limits of the store.
THEOREM ChunksStayMine == Spec => []ChunkIsMine
<1>1. SessionInv => ChunkIsMine
  BY DEF SessionInv, WorldInv
<1> QED BY <1>1, SessionInvariant, PTL

-----------------------------------------------------------------------------
(* The scoreboard and the trackers, and what a subscriber knows of them.   *)

\* A subscriber knows what there is when the session starts.
LEMMA SeenInit == Init => SeenInv
BY NewIsTracked DEF Init, SeenInv

\* Every step keeps the subscriber informed, given the type of the player.
LEMMA SeenStep == SessionInv' /\ SeenInv /\ [Next]_vars => SeenInv'
<1> SUFFICES ASSUME SessionInv', SeenInv, [Next]_vars PROVE SeenInv'
  BY Zenon
<1>1. play'.player \in LocalPlayer
  BY DEF SessionInv, PlayInv
<1>2. CASE Rebuild
  BY <1>2, SeenRebuilt
<1>3. CASE Tick
  BY <1>1, <1>3, TickSeen
<1>4. CASE Control
  BY Zenon, <1>1, <1>4, ControlSeen
<1>5. CASE PlayerPackets
  BY Zenon, <1>1, <1>5, LoginSeen, RespawnSeen, PositionSeen, HealthSeen DEF PlayerPackets
<1>6. CASE Scoreboards \/ TrackerPackets
  BY Zenon, <1>6, ScoreboardsSeen, TrackersSeen
<1>7. CASE UNCHANGED <<play, mirror>>
  BY <1>7 DEF SeenInv
<1>8. CASE WorldPackets
  <2>1. CASE ChunkRefused
    BY Zenon, <1>2, <2>1 DEF ChunkRefused
  <2>2. CASE \/ \E p \in Places, content \in Variety(Contents) :
                  MapChunk(p, content) \/ ChunkUpdate(p, content)
             \/ \E p \in Places : UnloadChunk(p)
    BY Zenon, <1>7, <2>2 DEF MapChunk, ChunkUpdate, UnloadChunk, stateVars
  <2> QED BY Zenon, <1>8, <2>1, <2>2 DEF WorldPackets
<1>9. CASE OtherBots
  BY Zenon, <1>7, <1>9 DEF OtherBots, stateVars
<1>10. CASE UNCHANGED vars
  BY <1>7, <1>10 DEF vars, stateVars
<1> QED BY Zenon, <1>2, <1>3, <1>4, <1>5, <1>6, <1>8, <1>9, <1>10 DEF Next

\* A subscriber is informed in every reachable state.
LEMMA SeenInvariant == Spec => []SeenInv
<1>1. SessionInv /\ SeenInv /\ [Next]_vars => SeenInv'
  BY Zenon, SessionInvStep, SeenStep
<1> QED BY <1>1, SeenInit, SessionInvariant, PTL DEF Spec

\* ScoreboardConsistent, for any objectives, slots, owners, teams, members and
\* limits, and lists of members of any length: ScoreboardState never shows or
\* scores an objective it has dropped, never has a member in two teams, and
\* never outgrows a limit.
THEOREM BoardStaysConsistent == Spec => []ScoreboardConsistent
<1>1. SeenInv => ScoreboardConsistent
  BY Zenon, BoundedIsWithin DEF SeenInv, Tracked, Sound, ScoreboardConsistent
<1> QED BY <1>1, SeenInvariant, PTL

\* SubscriberSeesTheState, for any names, values and limits: whoever applies
\* the events that say they were applied has the state the handlers left.
THEOREM SubscribersSeeTheState == Spec => []SubscriberSeesTheState
<1>1. ASSUME SeenInv PROVE SubscriberSeesTheState
  BY Zenon, <1>1 DEF SeenInv, Tracked, Sees, Recent, SubscriberSeesTheState
<1> QED BY <1>1, SeenInvariant, PTL
=============================================================================
