------------------------------ MODULE Scoreboard -----------------------------
(***************************************************************************)
(* ScoreboardState, as operators on a record. Each handler returns the     *)
(* board it leaves and the event it emits: the name it is about, what is   *)
(* there now, and whether the update was applied. What an objective, a     *)
(* score or a team looks like is not told apart, so that an Update only    *)
(* reports whether it was applied.                                         *)
(***************************************************************************)
EXTENDS Naturals, Sequences, FiniteSets

CONSTANTS
  Objectives, Slots, Owners, Teams, Members,
  MaxObjectives, MaxDisplaySlots, MaxScores, MaxTeams, MaxTeamMembers,
  None

ASSUME NoneAssumption == None \notin Objectives \cup Teams
ASSUME LimitAssumption ==
  {MaxObjectives, MaxDisplaySlots, MaxScores, MaxTeams, MaxTeamMembers} \subseteq Nat

EmptyBoard ==
  [objectives |-> {}, slots |-> [s \in Slots |-> None], scores |-> {},
   teams |-> {}, members |-> [t \in Teams |-> {}],
   memberTeams |-> [m \in Members |-> None]]

Used(f) == {k \in DOMAIN f : f[k] # None}

\* What an event says of the name it is about: what is there now.
Current(b, kind, name) ==
  CASE kind = "objective" -> name \in b.objectives
    [] kind = "slot" -> b.slots[name]
    [] kind = "score" -> name \in b.scores
    [] kind = "team" -> b.members[name]

\* A handler's result.
Outcome(board, kind, name, applied) ==
  [board |-> board,
   event |-> [kind |-> kind, name |-> name, applied |-> applied,
              current |-> Current(board, kind, name)]]

-----------------------------------------------------------------------------
(* apply_objective, apply_display_slot, apply_score, apply_score_reset.    *)

ObjectiveCreate(b, o) ==
  IF o \notin b.objectives /\ Cardinality(b.objectives) >= MaxObjectives
    THEN Outcome(b, "objective", o, FALSE)
    ELSE Outcome([b EXCEPT !.objectives = @ \cup {o}], "objective", o, TRUE)

ObjectiveUpdate(b, o) == Outcome(b, "objective", o, o \in b.objectives)

\* An action the client does not know, or one whose definition is missing.
ObjectiveUnknown(b, o) == Outcome(b, "objective", o, FALSE)

ObjectiveRemove(b, o) ==
  LET slots == {s \in Slots : b.slots[s] = o}
      scores == {k \in b.scores : k[2] = o}
  IN Outcome([b EXCEPT
                !.objectives = @ \ {o},
                !.slots = [s \in Slots |-> IF s \in slots THEN None ELSE @[s]],
                !.scores = @ \ scores],
             "objective", o,
             o \in b.objectives \/ slots # {} \/ scores # {})

DisplaySlot(b, s, o) ==
  LET fits == \/ o = None /\ b.slots[s] # None
              \/ /\ o \in b.objectives
                 /\ \/ b.slots[s] # None
                    \/ Cardinality(Used(b.slots)) < MaxDisplaySlots
  IN Outcome(IF fits THEN [b EXCEPT !.slots[s] = o] ELSE b, "slot", s, fits)

SetScore(b, owner, o) ==
  LET fits == /\ o \in b.objectives
              /\ <<owner, o>> \in b.scores \/ Cardinality(b.scores) < MaxScores
  IN Outcome(IF fits THEN [b EXCEPT !.scores = @ \cup {<<owner, o>>}] ELSE b,
             "score", <<owner, o>>, fits)

\* Of one objective, or (None) of all.
ResetScore(b, owner, o) ==
  LET gone == {k \in b.scores : k[1] = owner /\ o \in {k[2], None}}
  IN Outcome([b EXCEPT !.scores = @ \ gone], "score", <<owner, o>>, gone # {})

-----------------------------------------------------------------------------
(* apply_team.                                                             *)

\* One round of the loop of add_team_members: a member of another team
\* leaves it.
AddMember_StaysInOld(b, t, m) ==
  IF b.memberTeams[m] = t \/ (b.memberTeams[m] = None
       /\ Cardinality(Used(b.memberTeams)) >= MaxTeamMembers)
    THEN b
    ELSE [b EXCEPT !.memberTeams[m] = t, !.members[t] = @ \cup {m}]

AddMember(b, t, m) ==
  IF \/ b.memberTeams[m] = t
     \/ /\ b.memberTeams[m] = None
        /\ Cardinality(Used(b.memberTeams)) >= MaxTeamMembers
    THEN b
    ELSE [b EXCEPT
            !.memberTeams[m] = t,
            !.members = [u \in Teams |-> IF u = t THEN @[u] \cup {m}
                                         ELSE IF u = b.memberTeams[m]
                                                THEN @[u] \ {m} ELSE @[u]]]

add_team_members(b, t, ms) ==
  LET after[i \in 0..Len(ms)] ==
        IF i = 0 THEN b ELSE AddMember(after[i - 1], t, ms[i])
  IN after[Len(ms)]

\* One round of the loop of remove_named_team_members.
RemoveMember(b, t, m) ==
  IF b.memberTeams[m] = t
    THEN [b EXCEPT !.memberTeams[m] = None, !.members[t] = @ \ {m}]
    ELSE b

remove_named_team_members(b, t, ms) ==
  LET after[i \in 0..Len(ms)] ==
        IF i = 0 THEN b ELSE RemoveMember(after[i - 1], t, ms[i])
  IN after[Len(ms)]

remove_team_members(b, t) ==
  [b EXCEPT !.memberTeams =
              [m \in Members |-> IF m \in b.members[t] /\ @[m] = t
                                   THEN None ELSE @[m]],
            !.members[t] = {}]

TeamCreate(b, t, ms) ==
  IF t \notin b.teams /\ Cardinality(b.teams) >= MaxTeams
    THEN Outcome(b, "team", t, FALSE)
    ELSE Outcome(add_team_members([remove_team_members(b, t) EXCEPT
                                     !.teams = @ \cup {t}], t, ms),
                 "team", t, TRUE)

TeamRemove(b, t) ==
  Outcome([remove_team_members(b, t) EXCEPT !.teams = @ \ {t}],
          "team", t, t \in b.teams)

TeamUpdate(b, t) == Outcome(b, "team", t, t \in b.teams)

\* A mode the client does not know, or one whose definition or members are
\* missing.
TeamUnknown(b, t) == Outcome(b, "team", t, FALSE)

TeamAdd(b, t, ms) ==
  LET after == IF t \in b.teams THEN add_team_members(b, t, ms) ELSE b
  IN Outcome(after, "team", t, after # b)

TeamDrop(b, t, ms) ==
  LET after == IF t \in b.teams THEN remove_named_team_members(b, t, ms) ELSE b
  IN Outcome(after, "team", t, after # b)

-----------------------------------------------------------------------------
\* team_players: the members a packet names, with repetitions.
MemberLists == UNION {[1..n -> Members] : n \in 0..2}

\* What is shown or scored has its objective; the two records of who is in
\* which team agree; every collection is within its limit.
Consistent(b) ==
  /\ \A s \in Used(b.slots) : b.slots[s] \in b.objectives
  /\ \A k \in b.scores : k[2] \in b.objectives
  /\ \A m \in Members, t \in Teams : m \in b.members[t] <=> b.memberTeams[m] = t
  /\ \A m \in Used(b.memberTeams) : b.memberTeams[m] \in b.teams

WithinLimits(b) ==
  /\ Cardinality(b.objectives) <= MaxObjectives
  /\ Cardinality(Used(b.slots)) <= MaxDisplaySlots
  /\ Cardinality(b.scores) <= MaxScores
  /\ Cardinality(b.teams) <= MaxTeams
  /\ Cardinality(Used(b.memberTeams)) <= MaxTeamMembers
=============================================================================
