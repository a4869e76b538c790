------------------------------ MODULE Trackers -------------------------------
(***************************************************************************)
(* The smaller trackers of PlayState, as operators on records: boss bars   *)
(* and chat (PresentationState), cooldowns, effects and the world border   *)
(* (HudState), the tab list (PlayerList) and the entity table              *)
(* (EntityStore). Boss bars, cooldowns and effects are bounded maps from a *)
(* key to a value, treated alike but for what admits an update; MaxEntries *)
(* is the limit of each.                                                   *)
(***************************************************************************)
EXTENDS Naturals, Sequences, FiniteSets

CONSTANTS
  Names,       \* keys: ids of bars, effects and players, cooldown groups
  Values,      \* what a key is mapped to
  MaxEntries,  \* MAX_BOSS_BARS, MAX_COOLDOWNS, MAX_EFFECTS
  MaxPlayers,  \* MAX_PLAYERS
  MaxChat,     \* MAX_CHAT_HISTORY
  Absent       \* a key that is not in a map

ASSUME TrackerAssumption ==
  /\ Absent \notin Values \cup {"named", "unnamed"}
  /\ MaxChat \in Nat \ {0}

Empty == [n \in Names |-> Absent]
Present(map) == {n \in Names : map[n] # Absent}

EmptyTrackers ==
  [bars |-> Empty, cooldowns |-> Empty, effects |-> Empty, border |-> Absent,
   chat |-> <<>>, nextChat |-> 0]

-----------------------------------------------------------------------------
(* Whether an update is applied, and the map it leaves.                    *)

\* BTreeMap::insert up to a limit.
Fits(map, n) == n \in Present(map) \/ Cardinality(Present(map)) < MaxEntries

\* apply_boss_bar: Add, Remove, and the four updates of an existing bar.
BarApplied(bars, n, action) ==
  CASE action = "Add" -> Fits(bars, n)
    [] action \in {"Remove", "Update"} -> n \in Present(bars)
    [] action = "Unknown" -> FALSE

\* HudUpdate::Cooldown, SetEffect and RemoveEffect. "Negative" sets an effect
\* whose id is below zero, which is never one of Names.
EntryApplied(map, n, action) ==
  CASE action = "Set" -> Fits(map, n)
    [] action = "Remove" -> n \in Present(map)
    [] action = "Negative" -> FALSE

Changed(map, n, action, value, applied) ==
  IF ~applied THEN map
  ELSE [map EXCEPT ![n] = IF action = "Remove" THEN Absent ELSE value]

\* InitializeBorder, and the updates of a border that is there.
BorderApplied(border, action) == action = "Initialize" \/ border # Absent

-----------------------------------------------------------------------------
\* PresentationUpdate::Chat: the ring of the latest messages.
ChatRing(t) ==
  [t EXCEPT !.chat = Append(IF Len(@) = MaxChat THEN Tail(@) ELSE @, t.nextChat),
            !.nextChat = @ + 1]

\* PlayerList::apply_info, for one item: the entry has a name only once an
\* add_player has been seen.
InfoApplied(players, n) ==
  players[n] # Absent \/ Cardinality(Present(players)) < MaxPlayers

Informed(players, n, named) ==
  IF ~InfoApplied(players, n) THEN players
  ELSE [players EXCEPT ![n] = IF named \/ @ = "named" THEN "named"
                                                      ELSE "unnamed"]

\* ... and whether it is reported as a join.
Joins(players, n, named) ==
  players[n] = Absent /\ InfoApplied(players, n) /\ named

\* EntityStore: an update of an entity that has not been spawned is ignored.
Spawned(entities, n, value) == [entities EXCEPT ![n] = value]

Destroyed(entities, n) == [entities EXCEPT ![n] = Absent]

EntityUpdated(entities, n, value) ==
  IF entities[n] = Absent THEN entities ELSE [entities EXCEPT ![n] = value]
=============================================================================
