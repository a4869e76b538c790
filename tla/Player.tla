------------------------------- MODULE Player --------------------------------
(***************************************************************************)
(* LocalPlayer and Controller, as operators on records. Positions lie on a *)
(* line with two of them to a chunk; a move of at most PositionEpsilon is  *)
(* too small to be reported at once. `flags` stands for on_ground and      *)
(* horizontal_collision, `held` for jump, sneak and sprint, which are all  *)
(* treated alike.                                                          *)
(***************************************************************************)
EXTENDS Integers

CONSTANTS
  MaxPosition,        \* bound: positions are 0..MaxPosition
  PositionEpsilon,    \* POSITION_EPSILON
  ReminderInterval    \* POSITION_REMINDER_INTERVAL

ASSUME MovementAssumption ==
  MaxPosition \in Nat /\ PositionEpsilon \in Nat /\ ReminderInterval \in Nat

Positions == 0..MaxPosition
ChunkOf(x) == x \div 2
Facings == {"south", "east", "west"}
Impulses == {-1, 0, 1}
MovementInput == [forward : Impulses, strafe : Impulses, held : BOOLEAN]
NoInput == [forward |-> 0, strafe |-> 0, held |-> FALSE]
NoGoal == -1

Abs(n) == IF n < 0 THEN -n ELSE n

NewPlayer ==
  [x |-> 0, facing |-> "south", flags |-> FALSE, alive |-> TRUE,
   loaded |-> FALSE, input |-> NoInput,
   xLast |-> 0, facingLast |-> "south", flagsLast |-> FALSE, reminder |-> 0]

on_login(p) == [p EXCEPT !.loaded = FALSE]

on_respawn(p) == [p EXCEPT !.loaded = FALSE, !.flags = FALSE]

on_position(p, x, facing) == [p EXCEPT !.x = x, !.facing = facing]

on_health(p, alive) == [p EXCEPT !.alive = alive]

sync_movement_baseline(p) ==
  [p EXCEPT !.xLast = p.x, !.facingLast = p.facing, !.flagsLast = p.flags,
            !.reminder = 0]

mark_loaded(p) == sync_movement_baseline([p EXCEPT !.loaded = TRUE])

\* tick_physics: where the velocity, the input and the terrain take us.
tick_physics(p, dx, flags) == [p EXCEPT !.x = @ + dx, !.flags = flags]

-----------------------------------------------------------------------------
(* movement_packet: what it reports, and the baseline it leaves.           *)

PositionChanged(p) ==
  \/ Abs(p.x - p.xLast) > PositionEpsilon
  \/ p.reminder + 1 >= ReminderInterval

RotationChanged(p) == p.facing # p.facingLast

Moved(p) ==
  PositionChanged(p) \/ RotationChanged(p) \/ p.flags # p.flagsLast

\* What the server knows of us once it has the packet.
Reported(p, heard) ==
  [heard EXCEPT !.x = IF PositionChanged(p) THEN p.x ELSE @,
                !.facing = IF RotationChanged(p) THEN p.facing ELSE @,
                !.flags = IF Moved(p) THEN p.flags ELSE @]

\* The baseline follows the position although nothing was sent.
movement_packet_Drifts(p) ==
  [p EXCEPT !.xLast = p.x, !.facingLast = p.facing, !.flagsLast = p.flags,
            !.reminder = IF PositionChanged(p) THEN 0 ELSE @ + 1]

movement_packet(p) ==
  [p EXCEPT !.xLast = IF PositionChanged(p) THEN p.x ELSE @,
            !.facingLast = p.facing,
            !.flagsLast = p.flags,
            !.reminder = IF PositionChanged(p) THEN 0 ELSE @ + 1]

-----------------------------------------------------------------------------
(* The controller: held keys, the input they make, and a walk goal.        *)

Keys == {"forward", "backward", "left", "right"}

NewController ==
  [manual |-> NoInput, keys |-> [k \in Keys |-> FALSE], goal |-> NoGoal,
   random |-> FALSE]

\* Opposite keys held together cancel.
Axis(positive, negative) ==
  IF positive = negative THEN 0 ELSE IF positive THEN 1 ELSE -1

recompute_forward(c) ==
  [c EXCEPT !.manual.forward = Axis(c.keys["forward"], c.keys["backward"])]

recompute_strafe(c) ==
  [c EXCEPT !.manual.strafe = Axis(c.keys["left"], c.keys["right"])]

KeysOf(input) ==
  [k \in Keys |-> \/ k = "forward" /\ input.forward > 0
                  \/ k = "backward" /\ input.forward < 0
                  \/ k = "left" /\ input.strafe > 0
                  \/ k = "right" /\ input.strafe < 0]

SetInput_KeepsTheKeys(c, input) == [c EXCEPT !.manual = input]

SetInput(c, input) == [c EXCEPT !.manual = input, !.keys = KeysOf(input)]

SetKey(c, key, on) ==
  IF key \in {"forward", "backward"}
    THEN recompute_forward([c EXCEPT !.keys[key] = on])
    ELSE recompute_strafe([c EXCEPT !.keys[key] = on])

Hold(c, on) == [c EXCEPT !.manual.held = on]

WalkTo(c, x) == [c EXCEPT !.goal = x]

SetRandomLook(c, on) == [c EXCEPT !.random = on]

\* Stop leaves the random look on.
Stop(c) == [NewController EXCEPT !.random = c.random]

Commands ==
  [kind : {"SetInput"}, input : MovementInput]
    \cup [kind : {"Key"}, key : Keys, on : BOOLEAN]
    \cup [kind : {"Hold", "SetRandomLook"}, on : BOOLEAN]
    \cup [kind : {"WalkTo"}, x : Positions]
    \cup [kind : {"Look"}, facing : Facings]
    \cup [kind : {"Stop"}]

\* Look is not for the controller.
ApplyCommand(c, command) ==
  IF command.kind = "SetInput" THEN SetInput(c, command.input)
  ELSE IF command.kind = "Key" THEN SetKey(c, command.key, command.on)
  ELSE IF command.kind = "Hold" THEN Hold(c, command.on)
  ELSE IF command.kind = "SetRandomLook" THEN SetRandomLook(c, command.on)
  ELSE IF command.kind = "WalkTo" THEN WalkTo(c, command.x)
  ELSE IF command.kind = "Stop" THEN Stop(c)
  ELSE c

\* drive: the input and the facing of this tick, and whether the goal is
\* reached. `look` is what the random look turns to, if anything.
Arrived(c, p) == c.goal = p.x

Driven(c, p, look) ==
  [p EXCEPT
     !.input = IF c.goal = NoGoal THEN c.manual
               ELSE [c.manual EXCEPT !.forward = IF Arrived(c, p) THEN 0 ELSE 1,
                                     !.strafe = 0],
     !.facing = IF look # "same" THEN look
                ELSE IF c.goal = NoGoal \/ Arrived(c, p) THEN @
                ELSE IF c.goal > p.x THEN "east" ELSE "west"]

DrivenController(c, p) ==
  IF Arrived(c, p) THEN [c EXCEPT !.goal = NoGoal] ELSE c

Looks(c) == {"same"} \cup (IF c.random THEN Facings ELSE {})

\* The keys agree with the input they stand for.
KeysMatch(c) ==
  /\ c.manual.forward = Axis(c.keys["forward"], c.keys["backward"])
  /\ c.manual.strafe = Axis(c.keys["left"], c.keys["right"])
=============================================================================
