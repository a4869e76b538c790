---------------------------- MODULE SwarmProofs -----------------------------
(***************************************************************************)
(* Proofs about a swarm before and while it runs: its configuration        *)
(* (Registry) and its life (SwarmRuntime).  The two meet in one place:     *)
(* spawn_all_bots cannot fail on a registry without dangling references.   *)
(*                                                                         *)
(* Registry, for every set of names and every limit.  The inductive invariant *)
(* is TypeOK, IndexMatches, NothingDangles and BatchCanBeTakenBack together: *)
(* taking a batch back restores the old names only because names and bots are *)
(* inverse to each other, and leaves no group dangling only because no group *)
(* holds a bot of the batch.                                               *)
(*                                                                         *)
(* SwarmRuntime, for any number of workers and bots and any deadlines.  The *)
(* inductive invariant says, beyond the types, which outcome of the barrier *)
(* and which bots each phase of the host allows, and what the channels are *)
(* evidence of: a report of a failure of a thread on its way out; one of   *)
(* the barrier, as long as the barrier has no outcome, of a worker that    *)
(* stands at it; and a coordinator that has come as far as its report of a *)
(* registry that was sent.                                                 *)
(***************************************************************************)
EXTENDS Registry, SwarmRuntime, FiniteSetTheorems, TLAPS

(* What makes AllOrNothing inductive: taking back the bots of the batch in *)
(* progress restores what was there before it, and no group has one yet.   *)
Taken == {bots[i].username : i \in ids}
BatchCanBeTakenBack ==
  /\ step = "idle" => ids = {}
  /\ ids \subseteq DOMAIN bots
  /\ settled = <<Retain(bots, Ids \ ids), Retain(names, Usernames \ Taken), groups>>
  /\ \A g \in DOMAIN groups : groups[g] \cap ids = {}

RegistryInv == TypeOK /\ IndexMatches /\ NothingDangles /\ BatchCanBeTakenBack

-----------------------------------------------------------------------------
(* Functions as finite maps.                                               *)

(* Retaining all of the keys of a map changes nothing. *)
LEMMA RetainAll ==
  ASSUME NEW f, NEW S, f = [x \in DOMAIN f |-> f[x]], DOMAIN f \subseteq S
  PROVE  Retain(f, S) = f
<1>1. DOMAIN f \cap S = DOMAIN f
  OBVIOUS
<1> QED BY <1>1 DEF Retain

(* A key added and left out again. *)
LEMMA ExtendThenRetain ==
  ASSUME NEW f, NEW x, NEW y, NEW S, NEW T, x \notin DOMAIN f, T = S \ {x}
  PROVE  Retain(Extend(f, x, y), T) = Retain(f, S)
<1>1. (DOMAIN f \cup {x}) \cap T = DOMAIN f \cap S
  OBVIOUS
<1>2. DOMAIN Extend(f, x, y) = DOMAIN f \cup {x}
  BY DEF Extend
<1>3. \A z \in DOMAIN f \cap S : Extend(f, x, y)[z] = f[z]
  BY DEF Extend
<1> QED BY <1>1, <1>2, <1>3 DEF Retain

-----------------------------------------------------------------------------
(* The two ways the bots change.                                           *)

(* Succ stays within the ids. *)
LEMMA SuccInIds == ASSUME NEW i \in Ids PROVE Succ(i) \in Ids
BY LimitsAssumption DEF Succ, Ids

(* A bot accepted under a free id keeps all but the batch's bookkeeping. *)
LEMMA InsertKeeps ==
  ASSUME TypeOK, IndexMatches, NothingDangles,
         NEW id \in Ids, NEW u \in Usernames, NEW s \in Servers,
         NEW p \in Proxies \cup {NoProxy},
         id \notin DOMAIN bots, SpecOk(u, s, p, TRUE), Insert(id, u, s, p),
         UNCHANGED <<servers, profiles, groups>>
  PROVE  /\ DOMAIN bots' = DOMAIN bots \cup {id}
         /\ DOMAIN bots' \subseteq Ids /\ \A i \in DOMAIN bots' : bots'[i] \in BotDef
         /\ bots' = [i \in DOMAIN bots' |-> bots'[i]]
         /\ DOMAIN names' \subseteq Usernames /\ \A v \in DOMAIN names' : names'[v] \in Ids
         /\ names' = [v \in DOMAIN names' |-> names'[v]]
         /\ next' \in Ids
         /\ IndexMatches'
         /\ NothingDangles'
<1> DEFINE b == [username |-> u, server |-> s, proxy |-> p]
<1>1. /\ DOMAIN bots' = DOMAIN bots \cup {id} /\ bots'[id] = b
      /\ \A i \in DOMAIN bots : bots'[i] = bots[i]
      /\ bots' = [i \in DOMAIN bots' |-> bots'[i]]
  BY DEF Insert, Extend
<1>2. /\ DOMAIN names' = DOMAIN names \cup {u} /\ names'[u] = id
      /\ \A v \in DOMAIN names : names'[v] = names[v]
      /\ names' = [v \in DOMAIN names' |-> names'[v]]
  BY DEF Insert, SpecOk, Extend
<1>3. b \in BotDef
  BY DEF BotDef
<1>4. /\ DOMAIN bots' \subseteq Ids /\ \A i \in DOMAIN bots' : bots'[i] \in BotDef
      /\ DOMAIN names' \subseteq Usernames /\ \A v \in DOMAIN names' : names'[v] \in Ids
  BY <1>1, <1>2, <1>3 DEF TypeOK
<1>5. next' \in Ids
  BY SuccInIds DEF Insert, TypeOK
<1>6. IndexMatches'
  <2>1. /\ u \notin DOMAIN names
        /\ \A i \in DOMAIN bots :
             bots[i].username \in DOMAIN names /\ names[bots[i].username] = i
        /\ \A v \in DOMAIN names : names[v] \in DOMAIN bots /\ bots[names[v]].username = v
    BY DEF IndexMatches, SpecOk
  <2>2. \A i \in DOMAIN bots' :
          bots'[i].username \in DOMAIN names' /\ names'[bots'[i].username] = i
    BY <1>1, <1>2, <2>1
  <2>3. \A v \in DOMAIN names' : names'[v] \in DOMAIN bots' /\ bots'[names'[v]].username = v
    BY <1>1, <1>2, <2>1
  <2> QED BY <2>2, <2>3 DEF IndexMatches
<1>7. NothingDangles'
  BY <1>1 DEF NothingDangles, SpecOk
<1> QED BY <1>1, <1>2, <1>4, <1>5, <1>6, <1>7

(* Taking the batch back keeps all, and restores what was settled. *)
LEMMA RemoveKeeps ==
  ASSUME RegistryInv, remove_bots(ids), UNCHANGED <<servers, profiles, groups, settled>>,
         ids' = {}
  PROVE  /\ DOMAIN bots' \subseteq Ids /\ \A i \in DOMAIN bots' : bots'[i] \in BotDef
         /\ bots' = [i \in DOMAIN bots' |-> bots'[i]]
         /\ DOMAIN names' \subseteq Usernames /\ \A v \in DOMAIN names' : names'[v] \in Ids
         /\ names' = [v \in DOMAIN names' |-> names'[v]]
         /\ IndexMatches'
         /\ NothingDangles'
         /\ BatchCanBeTakenBack'
<1>1. /\ DOMAIN bots' = DOMAIN bots \cap (Ids \ ids)
      /\ \A i \in DOMAIN bots' : bots'[i] = bots[i]
      /\ bots' = [i \in DOMAIN bots' |-> bots'[i]]
  BY DEF remove_bots, Retain
<1>2. /\ DOMAIN names' = DOMAIN names \cap (Usernames \ Taken)
      /\ \A v \in DOMAIN names' : names'[v] = names[v]
      /\ names' = [v \in DOMAIN names' |-> names'[v]]
  BY DEF remove_bots, Taken, Retain
<1>3. /\ DOMAIN bots' \subseteq Ids /\ \A i \in DOMAIN bots' : bots'[i] \in BotDef
      /\ DOMAIN names' \subseteq Usernames /\ \A v \in DOMAIN names' : names'[v] \in Ids
  BY Zenon, <1>1, <1>2 DEF RegistryInv, TypeOK, remove_bots
<1>4. ASSUME NEW i \in DOMAIN bots'
      PROVE  bots'[i].username \in DOMAIN names' /\ names'[bots'[i].username] = i
  <2>1. i \in DOMAIN bots /\ i \notin ids /\ bots'[i] = bots[i]
    BY <1>1
  <2>2. bots[i].username \in DOMAIN names /\ names[bots[i].username] = i
    BY <2>1 DEF RegistryInv, IndexMatches
  <2>3. bots[i].username \notin Taken
    BY <2>1, <2>2 DEF Taken, RegistryInv, IndexMatches, BatchCanBeTakenBack
  <2> QED BY <1>2, <2>1, <2>2, <2>3 DEF RegistryInv, TypeOK
<1>5. ASSUME NEW v \in DOMAIN names'
      PROVE  names'[v] \in DOMAIN bots' /\ bots'[names'[v]].username = v
  <2>1. v \in DOMAIN names /\ v \notin Taken /\ names'[v] = names[v]
    BY <1>2
  <2>2. names[v] \in DOMAIN bots /\ bots[names[v]].username = v
    BY <2>1 DEF RegistryInv, IndexMatches
  <2>3. names[v] \notin ids
    BY <2>1, <2>2 DEF Taken
  <2> QED BY <1>1, <2>1, <2>2, <2>3 DEF RegistryInv, TypeOK
<1>6. IndexMatches'
  BY <1>4, <1>5 DEF IndexMatches
<1>7. NothingDangles'
  BY <1>1 DEF RegistryInv, TypeOK, NothingDangles, BatchCanBeTakenBack
<1>8. BatchCanBeTakenBack'
  <2>1. Retain(bots', Ids \ {}) = bots'
    BY <1>1, <1>3, RetainAll
  <2>2. Taken' = {}
    BY DEF Taken
  <2>3. Retain(names', Usernames \ {}) = names'
    BY <1>2, <1>3, RetainAll
  <2>4. settled' = <<bots', names', groups'>>
    BY DEF RegistryInv, BatchCanBeTakenBack, remove_bots, Taken
  <2> QED BY <2>1, <2>2, <2>3, <2>4 DEF BatchCanBeTakenBack
<1> QED BY <1>1, <1>2, <1>3, <1>6, <1>7, <1>8

(* With no batch in progress, settling makes the invariant's last part. *)
LEMMA SettledIdle ==
  ASSUME ids' = {}, settled' = <<bots', names', groups'>>,
         DOMAIN bots' \subseteq Ids, bots' = [i \in DOMAIN bots' |-> bots'[i]],
         DOMAIN names' \subseteq Usernames, names' = [v \in DOMAIN names' |-> names'[v]]
  PROVE  BatchCanBeTakenBack'
<1>1. Retain(bots', Ids \ {}) = bots'
  BY RetainAll
<1>2. Taken' = {}
  BY DEF Taken
<1>3. Retain(names', Usernames \ {}) = names'
  BY RetainAll
<1> QED BY <1>1, <1>2, <1>3 DEF BatchCanBeTakenBack

-----------------------------------------------------------------------------
(* Every call keeps the invariant.                                         *)

(* A call that ends under a free id has been given one it may use. *)
LEMMA FreeIsFree == ASSUME NEW id \in Ids, FirstFree(id) PROVE id \notin DOMAIN bots
BY DEF FirstFree, Free

(* NoRequest is a request. *)
LEMMA NoRequestType == NoRequest \in Request
<1>1. PICK g \in Groups, s \in Servers : TRUE
  BY NamesAssumption
<1>2. [group |-> g, server |-> s, proxy |-> NoProxy] \in Request
  BY <1>1 DEF Request
<1> QED BY <1>2 DEF NoRequest

(* The initial state satisfies the invariant. *)
LEMMA InitIInv == RegistryInit => RegistryInv
<1> SUFFICES ASSUME RegistryInit PROVE RegistryInv
  OBVIOUS
<1>1. TypeOK
  <2>1. <<>> \in Seq(Usernames)
    OBVIOUS
  <2>2. todo \in Seq(Usernames) /\ request \in Request /\ next \in Ids
    BY <2>1, NoRequestType, LimitsAssumption DEF RegistryInit, Ids
  <2>3. /\ DOMAIN bots = {} /\ bots = [i \in DOMAIN bots |-> bots[i]]
        /\ DOMAIN names = {} /\ names = [i \in DOMAIN names |-> names[i]]
        /\ DOMAIN groups = {} /\ groups = [i \in DOMAIN groups |-> groups[i]]
    BY DEF RegistryInit, Empty
  <2> QED BY Zenon, <2>2, <2>3, ProxiesAssumption DEF RegistryInit, TypeOK
<1>2. IndexMatches /\ NothingDangles
  BY DEF RegistryInit, IndexMatches, NothingDangles, Empty
<1>3. BatchCanBeTakenBack
  <2>1. Taken = {}
    BY DEF RegistryInit, Taken
  <2>2. Retain(bots, Ids \ {}) = bots
    BY DEF RegistryInit, Empty, Retain
  <2>3. Retain(names, Usernames \ {}) = names
    BY DEF RegistryInit, Empty, Retain
  <2> QED BY <2>1, <2>2, <2>3 DEF RegistryInit, BatchCanBeTakenBack, Empty
<1> QED BY <1>1, <1>2, <1>3 DEF RegistryInv

(* add_server. *)
LEMMA AddServerKeeps ==
  ASSUME RegistryInv, NEW s \in Servers, NEW valid \in BOOLEAN, add_server(s, valid)
  PROVE  RegistryInv'
<1>1. TypeOK'
  BY DEF RegistryInv, TypeOK, add_server, batchVars
<1>2. IndexMatches' /\ NothingDangles'
  BY DEF RegistryInv, IndexMatches, NothingDangles, add_server
<1>3. BatchCanBeTakenBack'
  BY DEF RegistryInv, BatchCanBeTakenBack, Taken, add_server, batchVars
<1> QED BY <1>1, <1>2, <1>3 DEF RegistryInv

(* A bot inserted outside a batch. *)
LEMMA InsertAloneKeeps ==
  ASSUME RegistryInv, NEW id \in Ids, NEW u \in Usernames, NEW s \in Servers,
         NEW p \in Proxies \cup {NoProxy}, step = "idle",
         id \notin DOMAIN bots, SpecOk(u, s, p, TRUE), Insert(id, u, s, p),
         result' = "Ok", Settle,
         UNCHANGED <<servers, profiles, groups, batchVars, frozen>>
  PROVE  RegistryInv'
<1>1. /\ DOMAIN bots' \subseteq Ids /\ \A i \in DOMAIN bots' : bots'[i] \in BotDef
      /\ bots' = [i \in DOMAIN bots' |-> bots'[i]]
      /\ DOMAIN names' \subseteq Usernames /\ \A v \in DOMAIN names' : names'[v] \in Ids
      /\ names' = [v \in DOMAIN names' |-> names'[v]]
      /\ next' \in Ids
      /\ IndexMatches' /\ NothingDangles'
  BY Zenon, InsertKeeps DEF RegistryInv
<1>2. TypeOK'
  BY <1>1 DEF RegistryInv, TypeOK, batchVars
<1>3. BatchCanBeTakenBack'
  BY <1>1, SettledIdle DEF RegistryInv, BatchCanBeTakenBack, Settle, batchVars
<1> QED BY <1>1, <1>2, <1>3 DEF RegistryInv

(* A refusal outside a batch moves at most next_auto_id. *)
LEMMA RefusalKeeps ==
  ASSUME RegistryInv, next' \in Ids, result' = "Err",
         UNCHANGED <<servers, profiles, bots, names, groups, batchVars, frozen, settled>>
  PROVE  RegistryInv'
<1>1. TypeOK'
  BY DEF RegistryInv, TypeOK, batchVars
<1>2. IndexMatches' /\ NothingDangles'
  BY DEF RegistryInv, IndexMatches, NothingDangles
<1>3. BatchCanBeTakenBack'
  BY DEF RegistryInv, BatchCanBeTakenBack, Taken, batchVars
<1> QED BY <1>1, <1>2, <1>3 DEF RegistryInv

(* add_bot with the id left to the builder. *)
LEMMA AddBotKeeps ==
  ASSUME RegistryInv, NEW u \in Usernames, NEW s \in Servers, NEW p \in Proxies \cup {NoProxy},
         NEW valid \in BOOLEAN, add_bot(u, s, p, valid)
  PROVE  RegistryInv'
<1>0. step = "idle" /\ UNCHANGED <<servers, profiles, groups, batchVars, frozen>>
  BY DEF add_bot
<1>1. CASE SpecOk(u, s, p, valid) /\ result' = "Ok" /\ Settle
           /\ \E id \in Ids : FirstFree(id) /\ Insert(id, u, s, p)
  <2>1. PICK id \in Ids : FirstFree(id) /\ Insert(id, u, s, p)
    BY <1>1
  <2>2. SpecOk(u, s, p, TRUE)
    BY <1>1 DEF SpecOk
  <2> QED BY Zenon, <1>0, <1>1, <2>1, <2>2, FreeIsFree, InsertAloneKeeps
<1>2. CASE /\ next' = IF SpecOk(u, s, p, valid) THEN MaxId ELSE next
           /\ result' = "Err" /\ UNCHANGED <<bots, names, settled>>
  <2>1. next' \in Ids
    BY <1>2, LimitsAssumption DEF RegistryInv, TypeOK, Ids
  <2> QED BY <1>0, <1>2, <2>1, RefusalKeeps
<1> QED BY <1>1, <1>2 DEF add_bot

(* add_bot with an id of the script's. *)
LEMMA AddBotWithIdKeeps ==
  ASSUME RegistryInv, NEW id \in Ids, NEW u \in Usernames, NEW s \in Servers,
         NEW p \in Proxies \cup {NoProxy}, NEW valid \in BOOLEAN,
         add_bot_with_id(id, u, s, p, valid)
  PROVE  RegistryInv'
<1>0. step = "idle" /\ UNCHANGED <<servers, profiles, groups, batchVars, frozen>>
  BY DEF add_bot_with_id
<1>1. CASE SpecOk(u, s, p, valid) /\ id \notin DOMAIN bots
  <2>1. Insert(id, u, s, p) /\ result' = "Ok" /\ Settle
    BY <1>1 DEF add_bot_with_id
  <2>2. SpecOk(u, s, p, TRUE)
    BY <1>1 DEF SpecOk
  <2> QED BY Zenon, <1>0, <1>1, <2>1, <2>2, InsertAloneKeeps
<1>2. CASE ~(SpecOk(u, s, p, valid) /\ id \notin DOMAIN bots)
  <2>1. result' = "Err" /\ UNCHANGED <<bots, names, next, settled>>
    BY <1>2 DEF add_bot_with_id
  <2>2. next' \in Ids
    BY <2>1 DEF RegistryInv, TypeOK
  <2> QED BY <1>0, <2>1, <2>2, RefusalKeeps
<1> QED BY <1>1, <1>2

(* add_group up to its loop. *)
LEMMA AddGroupKeeps ==
  ASSUME RegistryInv, NEW r \in Request, NEW us \in Seq(Usernames), add_group(r, us)
  PROVE  RegistryInv'
<1>0. UNCHANGED <<builderVars, frozen, settled>> /\ ids = {} /\ step = "idle"
  BY DEF add_group, RegistryInv, BatchCanBeTakenBack
<1>1. ids' = {} /\ todo' \in Seq(Usernames) /\ request' \in Request
      /\ step' \in {"idle", "adding"} /\ result' \in {"Ok", "Err"}
  BY <1>0 DEF add_group, RegistryInv, TypeOK
<1>2. TypeOK'
  BY <1>0, <1>1 DEF RegistryInv, TypeOK, builderVars
<1>3. IndexMatches' /\ NothingDangles'
  BY <1>0 DEF RegistryInv, IndexMatches, NothingDangles, builderVars
<1>4. BatchCanBeTakenBack'
  BY <1>0, <1>1 DEF RegistryInv, BatchCanBeTakenBack, Taken, builderVars
<1> QED BY <1>2, <1>3, <1>4 DEF RegistryInv

(* What the end of the call leaves of its arguments. *)
LEMMA IdleType ==
  ASSUME Idle
  PROVE  step' = "idle" /\ ids' = {} /\ todo' \in Seq(Usernames) /\ request' \in Request
<1>1. <<>> \in Seq(Usernames)
  OBVIOUS
<1> QED BY <1>1, NoRequestType DEF Idle

(* A rollback, wherever it happens. *)
LEMMA RollbackKeeps ==
  ASSUME RegistryInv, remove_bots(ids), next' \in Ids, Idle, result' = "Err",
         UNCHANGED <<servers, profiles, groups, frozen, settled>>
  PROVE  RegistryInv'
<1>1. step' = "idle" /\ ids' = {} /\ todo' \in Seq(Usernames) /\ request' \in Request
  BY IdleType
<1>2. /\ DOMAIN bots' \subseteq Ids /\ \A i \in DOMAIN bots' : bots'[i] \in BotDef
      /\ bots' = [i \in DOMAIN bots' |-> bots'[i]]
      /\ DOMAIN names' \subseteq Usernames /\ \A v \in DOMAIN names' : names'[v] \in Ids
      /\ names' = [v \in DOMAIN names' |-> names'[v]]
      /\ IndexMatches' /\ NothingDangles' /\ BatchCanBeTakenBack'
  BY <1>1, RemoveKeeps
<1>3. TypeOK'
  BY <1>1, <1>2 DEF RegistryInv, TypeOK
<1> QED BY <1>2, <1>3 DEF RegistryInv

(* One pass of the loop of add_group. *)
LEMMA AddNextKeeps ==
  ASSUME RegistryInv, NEW valid \in BOOLEAN, AddNext(valid)
  PROVE  RegistryInv'
<1> DEFINE u == Head(todo)
<1> DEFINE ok == SpecOk(Head(todo), request.server, request.proxy, valid)
<1>0. /\ UNCHANGED <<servers, profiles, groups, frozen, settled>>
      /\ step = "adding" /\ todo \in Seq(Usernames) /\ todo # <<>>
  BY DEF AddNext, RegistryInv, TypeOK
<1>1. u \in Usernames /\ Tail(todo) \in Seq(Usernames)
  BY ONLY <1>0
<1>2. request.server \in Servers /\ request.proxy \in Proxies \cup {NoProxy}
  BY DEF RegistryInv, TypeOK, Request
<1>3. CASE /\ ok
           /\ \E id \in Ids : /\ FirstFree(id)
                             /\ Insert(id, u, request.server, request.proxy)
                             /\ ids' = ids \cup {id}
           /\ todo' = Tail(todo)
           /\ UNCHANGED <<step, request, result>>
  <2>1. PICK id \in Ids : /\ FirstFree(id)
                          /\ Insert(id, u, request.server, request.proxy)
                          /\ ids' = ids \cup {id}
    BY <1>3
  <2>2. id \notin DOMAIN bots
    BY <2>1, FreeIsFree
  <2>3. SpecOk(u, request.server, request.proxy, TRUE) /\ u \notin DOMAIN names
    BY <1>3 DEF SpecOk
  <2>4. /\ DOMAIN bots' = DOMAIN bots \cup {id}
        /\ DOMAIN bots' \subseteq Ids /\ \A i \in DOMAIN bots' : bots'[i] \in BotDef
        /\ bots' = [i \in DOMAIN bots' |-> bots'[i]]
        /\ DOMAIN names' \subseteq Usernames /\ \A v \in DOMAIN names' : names'[v] \in Ids
        /\ names' = [v \in DOMAIN names' |-> names'[v]]
        /\ next' \in Ids
        /\ IndexMatches' /\ NothingDangles'
    BY Zenon, <1>0, <1>1, <1>2, <2>1, <2>2, <2>3, InsertKeeps DEF RegistryInv
  <2>5. TypeOK'
    BY <1>0, <1>1, <1>3, <2>1, <2>4 DEF RegistryInv, TypeOK
  <2>6. Taken' = Taken \cup {u}
    <3>1. bots'[id].username = u /\ \A i \in ids : bots'[i] = bots[i]
      BY <2>1, <2>2 DEF Insert, Extend, RegistryInv, BatchCanBeTakenBack
    <3> QED BY Zenon, <2>1, <3>1 DEF Taken
  <2>7. Retain(bots', Ids \ ids') = Retain(bots, Ids \ ids)
    <3>1. Ids \ ids' = (Ids \ ids) \ {id}
      BY <2>1
    <3> QED BY <2>1, <2>2, <3>1, ExtendThenRetain DEF Insert
  <2>8. Retain(names', Usernames \ Taken') = Retain(names, Usernames \ Taken)
    <3>1. Usernames \ Taken' = (Usernames \ Taken) \ {u}
      BY <2>6
    <3> QED BY <2>1, <2>3, <3>1, ExtendThenRetain DEF Insert
  <2>9. BatchCanBeTakenBack'
    <3>1. step' = "adding" /\ ids' \subseteq DOMAIN bots'
      BY <1>0, <1>3, <2>1, <2>4 DEF RegistryInv, BatchCanBeTakenBack
    <3>2. \A g \in DOMAIN groups' : groups'[g] \cap ids' = {}
      BY <1>0, <2>1, <2>2 DEF RegistryInv, BatchCanBeTakenBack, NothingDangles
    <3> QED BY <1>0, <2>7, <2>8, <3>1, <3>2 DEF RegistryInv, BatchCanBeTakenBack
  <2> QED BY <2>4, <2>5, <2>9 DEF RegistryInv
<1>4. CASE /\ remove_bots(ids)
           /\ next' = IF ok THEN MaxId ELSE next
           /\ Idle /\ result' = "Err"
  <2>1. next' \in Ids
    BY <1>4, LimitsAssumption DEF RegistryInv, TypeOK, Ids
  <2> QED BY <1>0, <1>4, <2>1, RollbackKeeps
<1> QED BY <1>3, <1>4 DEF AddNext

(* The end of add_group: the group itself, or a rollback. *)
LEMMA FinishGroupKeeps ==
  ASSUME RegistryInv, NEW valid \in BOOLEAN, FinishGroup(valid)
  PROVE  RegistryInv'
<1>0. Idle /\ UNCHANGED <<servers, profiles, next, frozen>>
  BY DEF FinishGroup
<1>1. step' = "idle" /\ ids' = {} /\ todo' \in Seq(Usernames) /\ request' \in Request
  BY <1>0, IdleType
<1>2. CASE GroupOk(valid)
  <2>1. /\ groups' = Extend(groups, request.group, ids)
        /\ UNCHANGED <<bots, names>> /\ result' = "Ok" /\ Settle
    BY <1>2 DEF FinishGroup
  <2>2. ids \subseteq DOMAIN bots /\ ids \subseteq Ids /\ request.group \in Groups
    BY DEF RegistryInv, TypeOK, BatchCanBeTakenBack, Request
  <2>3. /\ DOMAIN groups' = DOMAIN groups \cup {request.group}
        /\ \A g \in DOMAIN groups' : groups'[g] \in {ids, groups[g]}
        /\ \A g \in DOMAIN groups' : g \notin DOMAIN groups => groups'[g] = ids
        /\ groups' = [g \in DOMAIN groups' |-> groups'[g]]
    BY <2>1 DEF Extend
  <2>4. TypeOK'
    BY <1>0, <1>1, <2>1, <2>2, <2>3 DEF RegistryInv, TypeOK
  <2>5. IndexMatches' /\ NothingDangles'
    BY <1>0, <2>1, <2>2, <2>3 DEF RegistryInv, IndexMatches, NothingDangles
  <2>6. BatchCanBeTakenBack'
    BY <1>1, <2>1, SettledIdle DEF RegistryInv, TypeOK, Settle
  <2> QED BY <2>4, <2>5, <2>6 DEF RegistryInv
<1>3. CASE ~GroupOk(valid)
  <2>1. remove_bots(ids) /\ result' = "Err" /\ UNCHANGED <<groups, settled>>
    BY <1>3 DEF FinishGroup
  <2>2. next' \in Ids
    BY <1>0 DEF RegistryInv, TypeOK
  <2> QED BY <1>0, <2>1, <2>2, RollbackKeeps
<1> QED BY <1>2, <1>3

(* connect_all. *)
LEMMA ConnectAllKeeps == ASSUME RegistryInv, TakeRegistry PROVE RegistryInv'
<1>1. /\ DOMAIN bots' = {} /\ bots' = [i \in DOMAIN bots' |-> bots'[i]]
      /\ DOMAIN names' = {} /\ names' = [i \in DOMAIN names' |-> names'[i]]
      /\ DOMAIN groups' = {} /\ groups' = [i \in DOMAIN groups' |-> groups'[i]]
  BY DEF TakeRegistry, Empty
<1>2. /\ servers' = {} /\ profiles' = {} /\ next' \in Ids
      /\ result' = "Ok" /\ frozen' = TRUE /\ UNCHANGED batchVars /\ ids' = {}
      /\ settled' = <<bots', names', groups'>>
  BY LimitsAssumption DEF TakeRegistry, Ids, batchVars, Settle, RegistryInv, BatchCanBeTakenBack
<1>3. TypeOK'
  BY <1>1, <1>2 DEF RegistryInv, TypeOK, batchVars
<1>4. IndexMatches' /\ NothingDangles'
  BY <1>1 DEF IndexMatches, NothingDangles
<1>5. BatchCanBeTakenBack'
  BY <1>1, <1>2, SettledIdle
<1> QED BY <1>3, <1>4, <1>5 DEF RegistryInv

(* A batch of usernames is a sequence of usernames. *)
LEMMA BatchesType == ASSUME NEW us \in Batches PROVE us \in Seq(Usernames)
BY LimitsAssumption DEF Batches

(* Every step keeps the invariant. *)
LEMMA NextIInv == RegistryInv /\ [RegistryNext]_registryVars => RegistryInv'
<1> SUFFICES ASSUME RegistryInv, [RegistryNext]_registryVars PROVE RegistryInv'
  OBVIOUS
<1>1. CASE UNCHANGED registryVars
  <2>1. UNCHANGED <<builderVars, batchVars, result, frozen, settled>>
    BY <1>1 DEF registryVars
  <2>2. TypeOK'
    BY <2>1 DEF RegistryInv, TypeOK, builderVars, batchVars
  <2>3. IndexMatches' /\ NothingDangles' /\ BatchCanBeTakenBack'
    BY <2>1 DEF RegistryInv, IndexMatches, NothingDangles, BatchCanBeTakenBack, Taken,
                builderVars, batchVars
  <2> QED BY <2>2, <2>3 DEF RegistryInv
<1>2. ASSUME NEW valid \in BOOLEAN, NEW s \in Servers, add_server(s, valid) PROVE RegistryInv'
  BY <1>2, AddServerKeeps
<1>3. ASSUME NEW valid \in BOOLEAN, NEW u \in Usernames, NEW s \in Servers,
             NEW p \in Proxies \cup {NoProxy}, add_bot(u, s, p, valid)
      PROVE  RegistryInv'
  BY <1>3, AddBotKeeps
<1>4. ASSUME NEW valid \in BOOLEAN, NEW u \in Usernames, NEW s \in Servers,
             NEW p \in Proxies \cup {NoProxy}, NEW id \in Ids,
             add_bot_with_id(id, u, s, p, valid)
      PROVE  RegistryInv'
  BY <1>4, AddBotWithIdKeeps
<1>5. ASSUME NEW valid \in BOOLEAN, AddNext(valid) PROVE RegistryInv'
  BY <1>5, AddNextKeeps
<1>6. ASSUME NEW valid \in BOOLEAN, FinishGroup(valid) PROVE RegistryInv'
  BY <1>6, FinishGroupKeeps
<1>7. ASSUME NEW r \in Request, NEW us \in Batches, add_group(r, us) PROVE RegistryInv'
  BY <1>7, BatchesType, AddGroupKeeps
<1>8. CASE TakeRegistry
  BY <1>8, ConnectAllKeeps
<1> QED BY <1>1, <1>2, <1>3, <1>4, <1>5, <1>6, <1>7, <1>8 DEF RegistryNext

(* The inductive invariant holds in every reachable state. *)
LEMMA Invariance == RegistrySpec => []RegistryInv
BY InitIInv, NextIInv, PTL DEF RegistrySpec

-----------------------------------------------------------------------------
(* For every set of names and every limit, bot ids and the id counter stay *)
(* within u32 through every sequence of configuration calls.               *)
THEOREM Typing == RegistrySpec => []TypeOK
<1>1. RegistryInv => TypeOK
  BY DEF RegistryInv
<1> QED BY <1>1, Invariance, PTL

(* username_to_id is the inverse of the bots' usernames in every reachable *)
(* state, the ones after a rollback of add_group included.                 *)
THEOREM IndexIsInverse == RegistrySpec => []IndexMatches
<1>1. RegistryInv => IndexMatches
  BY DEF RegistryInv
<1> QED BY <1>1, Invariance, PTL

(* The registry that connect_all hands to the runtime has no dangling      *)
(* server, proxy profile or group member.                                  *)
THEOREM RegistryIsSound == RegistrySpec => []NothingDangles
<1>1. RegistryInv => NothingDangles
  BY DEF RegistryInv
<1> QED BY <1>1, Invariance, PTL

(* A configuration call that fails leaves bots, names and groups as the    *)
(* last successful call left them, wherever in add_group it fails.         *)
THEOREM CallsAreAtomic == RegistrySpec => []AllOrNothing
<1>1. RegistryInv => AllOrNothing
  <2> SUFFICES ASSUME RegistryInv, step = "idle" PROVE settled = <<bots, names, groups>>
    BY DEF AllOrNothing
  <2>1. ids = {} /\ Taken = {}
    BY DEF RegistryInv, BatchCanBeTakenBack, Taken
  <2>2. Retain(bots, Ids \ {}) = bots
    BY RetainAll DEF RegistryInv, TypeOK
  <2>3. Retain(names, Usernames \ {}) = names
    BY RetainAll DEF RegistryInv, TypeOK
  <2> QED BY <2>1, <2>2, <2>3 DEF RegistryInv, BatchCanBeTakenBack
<1> QED BY <1>1, Invariance, PTL

-----------------------------------------------------------------------------
(* MAX_BOTS, MAX_GROUPS and MAX_BOTS_PER_GROUP hold of the whole builder,  *)
(* in the middle of add_group and after a rollback too.                    *)
LimitsAreKept ==
  /\ Cardinality(DOMAIN bots) <= MaxBots
  /\ Cardinality(DOMAIN groups) <= MaxGroups
  /\ \A g \in DOMAIN groups : Cardinality(groups[g]) <= MaxBotsPerGroup

(* What makes the limits inductive: add_group checks the size of its batch *)
(* once, before the loop, so the bots it has added and the names it has    *)
(* left make up a group that is small enough.                              *)
BatchInv ==
  /\ IsFiniteSet(ids) /\ Cardinality(ids) + Len(todo) <= MaxBotsPerGroup
  /\ step = "idle" => todo = <<>>

LimitsInv ==
  /\ LimitsAreKept /\ BatchInv
  /\ IsFiniteSet(DOMAIN bots) /\ IsFiniteSet(DOMAIN groups)
  /\ \A g \in DOMAIN groups : IsFiniteSet(groups[g])

(* A batch of no bots and no names fits. *)
LEMMA NoBatch ==
  ASSUME ids' = {}, todo' = <<>>
  PROVE  BatchInv'
<1>1. IsFiniteSet({}) /\ Cardinality({}) = 0
  BY Zenon, FS_EmptySet
<1>2. Len(<<>>) = 0 /\ 0 + 0 <= MaxBotsPerGroup
  BY LimitsAssumption
<1> QED BY <1>1, <1>2 DEF BatchInv

(* Bots that only go, or one that comes after the check, keep the limit. *)
LEMMA BotsKeepLimit ==
  ASSUME LimitsInv,
         \/ DOMAIN bots' \subseteq DOMAIN bots
         \/ \E id \in Ids : /\ DOMAIN bots' = DOMAIN bots \cup {id}
                            /\ Cardinality(DOMAIN bots) < MaxBots
  PROVE  IsFiniteSet(DOMAIN bots') /\ Cardinality(DOMAIN bots') <= MaxBots
<1>1. /\ IsFiniteSet(DOMAIN bots) /\ Cardinality(DOMAIN bots) \in Nat
      /\ Cardinality(DOMAIN bots) <= MaxBots /\ MaxBots \in Nat
  BY Zenon, FS_CardinalityType, LimitsAssumption DEF LimitsInv, LimitsAreKept
<1>2. CASE DOMAIN bots' \subseteq DOMAIN bots
  <2>1. /\ IsFiniteSet(DOMAIN bots')
        /\ Cardinality(DOMAIN bots') <= Cardinality(DOMAIN bots)
    BY Zenon, <1>1, <1>2, FS_Subset
  <2>2. Cardinality(DOMAIN bots') \in Nat
    BY Zenon, <2>1, FS_CardinalityType
  <2> QED BY <1>1, <2>1, <2>2
<1>3. ASSUME NEW id \in Ids, DOMAIN bots' = DOMAIN bots \cup {id},
             Cardinality(DOMAIN bots) < MaxBots
      PROVE  IsFiniteSet(DOMAIN bots') /\ Cardinality(DOMAIN bots') <= MaxBots
  <2>1. /\ IsFiniteSet(DOMAIN bots \cup {id})
        /\ Cardinality(DOMAIN bots \cup {id}) =
             IF id \in DOMAIN bots THEN Cardinality(DOMAIN bots)
                                   ELSE Cardinality(DOMAIN bots) + 1
    BY Zenon, <1>1, FS_AddElement
  <2> QED BY <1>1, <1>3, <2>1
<1> QED BY Zenon, <1>2, <1>3

(* A step that leaves the groups alone keeps the limits if it keeps the    *)
(* batch small enough and adds a bot only after the check.                 *)
LEMMA SameGroups ==
  ASSUME LimitsInv, BatchInv', groups' = groups,
         \/ DOMAIN bots' \subseteq DOMAIN bots
         \/ \E id \in Ids : /\ DOMAIN bots' = DOMAIN bots \cup {id}
                            /\ Cardinality(DOMAIN bots) < MaxBots
  PROVE  LimitsInv'
<1>1. IsFiniteSet(DOMAIN bots') /\ Cardinality(DOMAIN bots') <= MaxBots
  BY Zenon, BotsKeepLimit
<1> QED BY Zenon, <1>1 DEF LimitsInv, LimitsAreKept

(* Every call keeps the limits. *)
LEMMA LimitsStep == RegistryInv /\ LimitsInv /\ [RegistryNext]_registryVars => LimitsInv'
<1> SUFFICES ASSUME RegistryInv, LimitsInv, [RegistryNext]_registryVars PROVE LimitsInv'
  OBVIOUS
<1>0. ASSUME ids' = ids, todo' = todo, step' = step
      PROVE  BatchInv'
  BY Zenon, <1>0 DEF LimitsInv, BatchInv
<1>1. CASE UNCHANGED registryVars
  <2>1. UNCHANGED <<bots, groups, ids, todo, step>>
    BY Zenon, <1>1 DEF registryVars, builderVars, batchVars
  <2> QED BY Zenon, <1>0, <2>1, SameGroups
<1>2. ASSUME NEW valid \in BOOLEAN, NEW s \in Servers, add_server(s, valid)
      PROVE  LimitsInv'
  <2>1. UNCHANGED <<bots, groups, ids, todo, step>>
    BY Zenon, <1>2 DEF add_server, batchVars
  <2> QED BY Zenon, <1>0, <2>1, SameGroups
<1>3. ASSUME NEW valid, NEW u, NEW s, NEW p, SpecOk(u, s, p, valid),
             NEW id \in Ids, Insert(id, u, s, p)
      PROVE  DOMAIN bots' = DOMAIN bots \cup {id} /\ Cardinality(DOMAIN bots) < MaxBots
  BY Zenon, <1>3 DEF SpecOk, Insert, Extend
<1>4. ASSUME NEW valid \in BOOLEAN, NEW u \in Usernames, NEW s \in Servers,
             NEW p \in Proxies \cup {NoProxy},
             add_bot(u, s, p, valid) \/ \E id \in Ids : add_bot_with_id(id, u, s, p, valid)
      PROVE  LimitsInv'
  <2>1. UNCHANGED <<groups, ids, todo, step>>
    BY Zenon, <1>4 DEF add_bot, add_bot_with_id, batchVars
  <2>2. \/ bots' = bots
        \/ SpecOk(u, s, p, valid) /\ \E id \in Ids : Insert(id, u, s, p)
    BY Zenon, <1>4 DEF add_bot, add_bot_with_id
  <2>3. \/ DOMAIN bots' \subseteq DOMAIN bots
        \/ \E id \in Ids : /\ DOMAIN bots' = DOMAIN bots \cup {id}
                           /\ Cardinality(DOMAIN bots) < MaxBots
    <3>1. CASE bots' = bots
      BY Zenon, <3>1
    <3>2. ASSUME SpecOk(u, s, p, valid), NEW id \in Ids, Insert(id, u, s, p)
          PROVE  DOMAIN bots' = DOMAIN bots \cup {id} /\ Cardinality(DOMAIN bots) < MaxBots
      BY Zenon, <1>3, <3>2
    <3> QED BY Zenon, <2>2, <3>1, <3>2
  <2>4. BatchInv' /\ groups' = groups
    BY Zenon, <1>0, <2>1
  <2> QED BY Zenon, <2>3, <2>4, SameGroups
<1>5. ASSUME NEW r \in Request, NEW us \in Batches, add_group(r, us)
      PROVE  LimitsInv'
  <2>1. bots' = bots /\ groups' = groups
    BY Zenon, <1>5 DEF add_group, builderVars
  <2>2. CASE Len(us) > MaxBotsPerGroup
    BY Zenon, <1>0, <1>5, <2>1, <2>2, SameGroups DEF add_group
  <2>3. CASE ~ (Len(us) > MaxBotsPerGroup)
    <3>1. step' = "adding" /\ ids' = {} /\ todo' = us
      BY Zenon, <1>5, <2>3 DEF add_group
    <3>2. Len(us) \in Nat
      <4>1. us \in Seq(Usernames)
        BY Zenon, BatchesType
      <4> QED BY <4>1
    <3>3. IsFiniteSet({}) /\ Cardinality({}) = 0
      BY Zenon, FS_EmptySet
    <3>4. 0 + Len(us) <= MaxBotsPerGroup
      BY <2>3, <3>2, LimitsAssumption
    <3>5. BatchInv'
      BY <3>1, <3>3, <3>4 DEF BatchInv
    <3> QED BY Zenon, <2>1, <3>5, SameGroups
  <2> QED BY Zenon, <2>2, <2>3
<1>6. ASSUME remove_bots(ids), Idle, groups' = groups
      PROVE  LimitsInv'
  <2>1. DOMAIN bots' \subseteq DOMAIN bots
    BY Zenon, <1>6 DEF remove_bots, Retain
  <2>2. BatchInv'
    BY Zenon, <1>6, NoBatch DEF Idle
  <2> QED BY Zenon, <1>6, <2>1, <2>2, SameGroups
<1>7. ASSUME NEW valid \in BOOLEAN, AddNext(valid)
      PROVE  LimitsInv'
  <2>1. /\ step = "adding" /\ todo # <<>> /\ todo \in Seq(Usernames) /\ groups' = groups
        /\ IsFiniteSet(ids) /\ Cardinality(ids) + Len(todo) <= MaxBotsPerGroup
    BY Zenon, <1>7 DEF AddNext, LimitsInv, BatchInv, RegistryInv, TypeOK
  <2>2. ASSUME NEW id \in Ids, ids' = ids \cup {id}, todo' = Tail(todo), step' = step,
               SpecOk(Head(todo), request.server, request.proxy, valid),
               Insert(id, Head(todo), request.server, request.proxy)
        PROVE  LimitsInv'
    <3>1. /\ IsFiniteSet(ids \cup {id}) /\ Cardinality(ids) \in Nat
          /\ Cardinality(ids \cup {id}) = IF id \in ids THEN Cardinality(ids)
                                                        ELSE Cardinality(ids) + 1
      BY Zenon, <2>1, FS_AddElement, FS_CardinalityType
    <3>2. Len(todo') = Len(todo) - 1 /\ Len(todo) \in Nat
      BY <2>1, <2>2
    <3>3. Cardinality(ids') + Len(todo') <= MaxBotsPerGroup
      BY <2>1, <2>2, <3>1, <3>2, LimitsAssumption
    <3>4. step' # "idle"
      BY <2>1, <2>2
    <3>5. BatchInv'
      BY Zenon, <2>2, <3>1, <3>3, <3>4 DEF BatchInv
    <3> QED BY Zenon, <1>3, <2>1, <2>2, <3>5, SameGroups
  <2>3. CASE remove_bots(ids) /\ Idle
    BY Zenon, <1>6, <2>1, <2>3
  <2> QED BY Zenon, <1>7, <2>2, <2>3 DEF AddNext
<1>8. ASSUME NEW valid \in BOOLEAN, FinishGroup(valid)
      PROVE  LimitsInv'
  <2>1. CASE GroupOk(valid)
    <3> DEFINE g == request.group
    <3>1. /\ groups' = Extend(groups, g, ids) /\ bots' = bots /\ Idle
          /\ Cardinality(DOMAIN groups) < MaxGroups
      BY Zenon, <1>8, <2>1 DEF FinishGroup, GroupOk
    <3>2. /\ DOMAIN groups' = DOMAIN groups \cup {g}
          /\ \A h \in DOMAIN groups' : groups'[h] = ids \/ (h \in DOMAIN groups /\ groups'[h] = groups[h])
      BY <3>1 DEF Extend
    <3>3. /\ IsFiniteSet(ids) /\ Cardinality(ids) \in Nat /\ Len(todo) \in Nat
          /\ Cardinality(ids) + Len(todo) <= MaxBotsPerGroup
      <4>1. todo \in Seq(Usernames)
        BY Zenon DEF RegistryInv, TypeOK
      <4>2. Len(todo) \in Nat
        BY <4>1
      <4> QED BY Zenon, <4>2, FS_CardinalityType DEF LimitsInv, BatchInv
    <3>4. Cardinality(ids) <= MaxBotsPerGroup
      BY <3>3, LimitsAssumption
    <3>5. /\ IsFiniteSet(DOMAIN groups \cup {g}) /\ Cardinality(DOMAIN groups) \in Nat
          /\ Cardinality(DOMAIN groups \cup {g}) = IF g \in DOMAIN groups
                                                  THEN Cardinality(DOMAIN groups)
                                                  ELSE Cardinality(DOMAIN groups) + 1
      <4>1. IsFiniteSet(DOMAIN groups)
        BY Zenon DEF LimitsInv
      <4> QED BY Zenon, <4>1, FS_AddElement, FS_CardinalityType
    <3>6. Cardinality(DOMAIN groups \cup {g}) <= MaxGroups
      BY <3>1, <3>5, LimitsAssumption
    <3>7. BatchInv'
      BY Zenon, <3>1, NoBatch DEF Idle
    <3>8. \A h \in DOMAIN groups' : IsFiniteSet(groups'[h]) /\ Cardinality(groups'[h]) <= MaxBotsPerGroup
      BY Zenon, <3>2, <3>3, <3>4 DEF LimitsInv, LimitsAreKept
    <3> QED BY Zenon, <3>1, <3>2, <3>5, <3>6, <3>7, <3>8 DEF LimitsInv, LimitsAreKept
  <2>2. CASE ~GroupOk(valid)
    BY Zenon, <1>6, <1>8, <2>2 DEF FinishGroup
  <2> QED BY Zenon, <2>1, <2>2
<1>9. CASE TakeRegistry
  <2>1. DOMAIN bots' = {} /\ DOMAIN groups' = {}
    BY <1>9 DEF TakeRegistry, Empty
  <2>2. IsFiniteSet({}) /\ Cardinality({}) = 0
    BY Zenon, FS_EmptySet
  <2>3. 0 <= MaxBots /\ 0 <= MaxGroups
    BY LimitsAssumption
  <2>4. BatchInv'
    BY Zenon, <1>0, <1>9 DEF TakeRegistry, batchVars
  <2> QED BY Zenon, <2>1, <2>2, <2>3, <2>4 DEF LimitsInv, LimitsAreKept
<1> QED BY Zenon, <1>1, <1>2, <1>4, <1>5, <1>7, <1>8, <1>9 DEF RegistryNext

(* No sequence of configuration calls, failed batches included, takes the  *)
(* builder past MAX_BOTS, MAX_GROUPS or MAX_BOTS_PER_GROUP.                *)
THEOREM LimitsAlwaysKept == RegistrySpec => []LimitsAreKept
<1>1. RegistryInit => LimitsInv
  <2> SUFFICES ASSUME RegistryInit PROVE LimitsInv
    OBVIOUS
  <2>1. DOMAIN bots = {} /\ DOMAIN groups = {} /\ ids = {} /\ todo = <<>>
    BY DEF RegistryInit, Empty
  <2>2. IsFiniteSet({}) /\ Cardinality({}) = 0
    BY Zenon, FS_EmptySet
  <2>3. 0 <= MaxBots /\ 0 <= MaxGroups /\ 0 + Len(<<>>) <= MaxBotsPerGroup
    BY LimitsAssumption
  <2> QED BY Zenon, <2>1, <2>2, <2>3 DEF LimitsInv, LimitsAreKept, BatchInv
<1>2. LimitsInv => LimitsAreKept
  BY Zenon DEF LimitsInv
<1> QED BY <1>1, <1>2, LimitsStep, Invariance, PTL DEF RegistrySpec

-----------------------------------------------------------------------------
(***************************************************************************)
(* The life of a swarm.                                                    *)
(***************************************************************************)

Locations == {"running", "reporting", "barrier", "failing", "reported", "done"}
Gone == {"reported", "done"}
Starting == {"collecting", "registry", "publishing"}
Failing == {"aborting", "cleanup", "failed"}
Started == {"running", "stopped"} \cup Stages
Errors == [kind : {"none", "WorkerFailed", "Worker", "StartupTimeout", "Script"},
           worker : Workers]

TypeInv ==
  /\ pc \in [Workers -> Locations]
  /\ base \in [Workers -> {"script", "loop"}]
  /\ registry \in {"unsent", "sent"}
  /\ reports \in Seq(Workers \X {"ReachedBarrier", "Failed"})
  /\ barrier \in {"none", "started", "aborted"}
  /\ started \subseteq Workers
  /\ supervisors \in [Bots -> {"none", "running", "stopping", "ended"}]
  /\ phase \in Starting \cup Failing \cup Started
  /\ reached \subseteq Workers
  /\ error \in Errors
  /\ elapsed \subseteq {"startup", "cleanup", "shutdown"}

\* What each phase of the host means for the barrier, the bots and the error.
PhaseInv ==
  /\ phase \in Starting \cup {"aborting"} => barrier = "none"
  /\ phase \in {"cleanup", "failed"} => barrier = "aborted"
  /\ phase \in Started => barrier = "started"
  /\ phase \in Failing <=> error # NoError
  /\ phase \in Failing \cup {"collecting", "registry"} =>
       \A b \in Bots : supervisors[b] = "none"
  /\ phase \in {"registry", "publishing"} => reached = Workers
  /\ phase = "failed" /\ "cleanup" \notin elapsed => AllDone

\* What the channels and the barrier are evidence of.
EvidenceInv ==
  /\ pc[Coordinator] \in {"reporting", "barrier"} => registry = "sent"
  /\ started # {} => barrier = "started"
  /\ barrier = "none" => \A w \in reached : pc[w] = "barrier"
  /\ \A i \in 1..Len(reports) :
       /\ reports[i][2] = "Failed" => pc[reports[i][1]] \in Gone
       /\ reports[i][2] = "ReachedBarrier" /\ barrier = "none" =>
            pc[reports[i][1]] = "barrier"

IInv == TypeInv /\ PhaseInv /\ EvidenceInv

\* The invariant holds before the runtime starts.
LEMMA InitInv == Init => IInv
BY CoordinatorAssumption
   DEF Init, IInv, TypeInv, PhaseInv, EvidenceInv, Locations, Starting, Failing, Started,
       Stages, Errors, NoError

-----------------------------------------------------------------------------
(* The workers.                                                            *)

\* A worker that reports appends to the channel or, if nobody receives,
\* leaves it as it is.
LEMMA ReportInv ==
  ASSUME IInv, NEW w \in Workers, NEW l \in Locations,
         pc[w] # "barrier" \/ barrier # "none", pc[w] \notin Gone,
         NEW what \in {"ReachedBarrier", "Failed"}, Report(w, what),
         Goto(w, l),
         what = "Failed" => l = "reported",
         what = "ReachedBarrier" => l = "barrier" /\ pc[w] = "reporting",
         UNCHANGED <<base, registry, barrier, started, shutdown, supervisors, hostVars>>
  PROVE  IInv'
<1> USE DEF IInv, hostVars, Goto
<1>1. pc' \in [Workers -> Locations]
  BY DEF TypeInv
<1>2. reports' \in Seq(Workers \X {"ReachedBarrier", "Failed"})
  BY DEF TypeInv, Report
<1>3. TypeInv'
  BY <1>1, <1>2 DEF TypeInv
<1>4. PhaseInv'
  BY DEF PhaseInv, TypeInv, AllDone, NoError, Gone
<1>5. \A v \in Workers : /\ pc[v] \in Gone => pc'[v] \in Gone
                         /\ barrier = "none" /\ pc[v] = "barrier" => pc'[v] = "barrier"
  BY Zenon DEF TypeInv
<1>6. ASSUME NEW i \in 1..Len(reports')
      PROVE  /\ reports'[i][2] = "Failed" => pc'[reports'[i][1]] \in Gone
             /\ reports'[i][2] = "ReachedBarrier" /\ barrier = "none" =>
                  pc'[reports'[i][1]] = "barrier"
  <2>1. CASE i \in 1..Len(reports) /\ reports'[i] = reports[i]
    <3>1. reports[i][1] \in Workers
      BY <2>1 DEF TypeInv
    <3> QED BY <1>5, <2>1, <3>1 DEF EvidenceInv
  <2>2. CASE reports'[i] = <<w, what>>
    BY <2>2 DEF TypeInv, Gone
  <2>3. \/ i \in 1..Len(reports) /\ reports'[i] = reports[i]
        \/ reports'[i] = <<w, what>>
    BY DEF Report, TypeInv
  <2> QED BY <2>1, <2>2, <2>3
<1>7. pc'[Coordinator] \in {"reporting", "barrier"} => registry = "sent"
  BY CoordinatorAssumption DEF EvidenceInv, TypeInv
<1>8. barrier = "none" => \A v \in reached : pc'[v] = "barrier"
  BY Zenon, <1>5 DEF EvidenceInv, TypeInv
<1>9. EvidenceInv'
  BY <1>6, <1>7, <1>8 DEF EvidenceInv
<1> QED BY <1>3, <1>4, <1>9

\* A worker that moves on without a report, from where no report says it is.
LEMMA MoveInv ==
  ASSUME IInv, NEW w \in Workers, NEW l \in Locations, Goto(w, l),
         pc[w] \in Gone => l \in Gone, pc[w] # "done",
         pc[w] # "barrier" \/ barrier # "none",
         w = Coordinator /\ l \in {"reporting", "barrier"} => registry' = "sent",
         registry' \in {"sent", registry},
         base' \in [Workers -> {"script", "loop"}],
         started' \subseteq Workers, started' # {} => barrier = "started",
         UNCHANGED <<reports, barrier, shutdown, supervisors, hostVars>>
  PROVE  IInv'
<1> USE DEF IInv, hostVars, Goto
<1>1. TypeInv'
  BY Zenon DEF TypeInv
<1>2. PhaseInv'
  BY DEF PhaseInv, TypeInv, AllDone, NoError
<1>3. \A v \in Workers : /\ pc[v] \in Gone => pc'[v] \in Gone
                         /\ barrier = "none" /\ pc[v] = "barrier" => pc'[v] = "barrier"
  BY DEF TypeInv
<1>4. \A i \in 1..Len(reports) : reports[i][1] \in Workers
  BY DEF TypeInv
<1>5. \A i \in 1..Len(reports) :
        /\ reports[i][2] = "Failed" => pc'[reports[i][1]] \in Gone
        /\ reports[i][2] = "ReachedBarrier" /\ barrier = "none" =>
             pc'[reports[i][1]] = "barrier"
  BY <1>3, <1>4 DEF EvidenceInv
<1>6. pc'[Coordinator] \in {"reporting", "barrier"} => registry' = "sent"
  BY CoordinatorAssumption DEF EvidenceInv, TypeInv
<1>7. barrier = "none" => \A v \in reached : pc'[v] = "barrier"
  BY <1>3 DEF EvidenceInv, TypeInv
<1>8. EvidenceInv'
  BY <1>5, <1>6, <1>7 DEF EvidenceInv
<1> QED BY <1>1, <1>2, <1>8

\* A step that leaves the threads and the channels alone, and of the bots only
\* those that run.
LEMMA BotsInv ==
  ASSUME IInv, supervisors' \in [Bots -> {"none", "running", "stopping", "ended"}],
         \A b \in Bots : supervisors[b] = "none" => supervisors'[b] = "none",
         UNCHANGED <<pc, base, registry, reports, barrier, started, phase, reached,
                     error, elapsed>>
  PROVE  IInv'
<1>1. TypeInv'
  BY DEF IInv, TypeInv
<1>2. PhaseInv'
  BY Zenon DEF IInv, PhaseInv, AllDone, NoError
<1>3. EvidenceInv'
  BY DEF IInv, EvidenceInv
<1> QED BY <1>1, <1>2, <1>3 DEF IInv

\* Asking every bot to stop starts none.
LEMMA StopRequestedType ==
  ASSUME TypeInv
  PROVE  /\ StopRequested \in [Bots -> {"none", "running", "stopping", "ended"}]
         /\ \A b \in Bots : supervisors[b] = "none" => StopRequested[b] = "none"
BY DEF TypeInv, StopRequested

\* Every step of a worker thread keeps the invariant.
LEMMA WorkerInv ==
  ASSUME IInv, NEW w \in Workers,
         \/ connect_all(w) \/ Released(w) \/ ScriptReturns(w) \/ Fails(w)
         \/ ReportsFailure(w) \/ FailedThreadEnds(w) \/ disconnect_all(w) \/ stop(w) \/ SpawnAction(w)
         \/ ActionEnds(w) \/ LoopExits(w)
  PROVE  IInv'
<1>1. CASE connect_all(w)
  <2>1. CASE pc[w] = "running"
    <3>1. Goto(w, "reporting") /\ SendRegistry(w)
      BY <1>1, <2>1 DEF connect_all
    <3>2. registry' \in {"sent", registry} /\ (w = Coordinator => registry' = "sent")
      BY <3>1 DEF SendRegistry, IInv, TypeInv
    <3> QED BY Zenon, <1>1, <2>1, <3>1, <3>2, MoveInv
            DEF connect_all, IInv, TypeInv, EvidenceInv, Locations, Gone
  <2>2. CASE pc[w] = "reporting"
    <3>1. Report(w, "ReachedBarrier") /\ Goto(w, "barrier")
      BY Zenon, <1>1, <2>2 DEF connect_all
    <3> QED BY <1>1, <2>2, <3>1, ReportInv DEF connect_all, Locations, Gone
  <2> QED BY Zenon, <1>1, <2>1, <2>2 DEF connect_all
<1>2. CASE Released(w)
  <2>1. PICK l \in {"running", "failing"} : Goto(w, l)
    BY Zenon, <1>2 DEF Released
  <2>2. /\ started' \subseteq Workers /\ (started' # {} => barrier = "started")
        /\ barrier # "none" /\ pc[w] = "barrier"
    BY Zenon, <1>2 DEF Released, IInv, TypeInv, EvidenceInv
  <2> QED BY Zenon, <1>2, <2>1, <2>2, MoveInv DEF Released, IInv, TypeInv, Locations, Gone
<1>3. CASE ScriptReturns(w)
  <2>1. base' \in [Workers -> {"script", "loop"}]
    BY <1>3 DEF ScriptReturns, IInv, TypeInv
  <2>2. UNCHANGED <<pc, registry, reports, barrier, started, supervisors, hostVars>>
    BY Zenon, <1>3 DEF ScriptReturns
  <2> QED BY Zenon, <2>1, <2>2 DEF IInv, TypeInv, PhaseInv, EvidenceInv, AllDone, NoError, hostVars
<1>4. CASE Fails(w)
  BY Zenon, <1>4, MoveInv DEF Fails, IInv, TypeInv, EvidenceInv, Locations, Gone
<1>5. CASE ReportsFailure(w)
  BY Zenon, <1>5, ReportInv DEF ReportsFailure, Locations, Gone
<1>6. CASE disconnect_all(w) \/ stop(w)
  <2>1. supervisors' \in {supervisors, StopRequested}
    BY Zenon, <1>6 DEF disconnect_all, stop
  <2> QED BY <1>6, <2>1, StopRequestedType, BotsInv
          DEF disconnect_all, stop, IInv, TypeInv, workerVars, hostVars
<1>7. CASE SpawnAction(w) \/ ActionEnds(w)
  BY Zenon, <1>7, BotsInv DEF SpawnAction, ActionEnds, IInv, TypeInv, hostVars
<1>8. CASE LoopExits(w)
  BY Zenon, <1>8, MoveInv DEF LoopExits, IInv, TypeInv, EvidenceInv, Locations, Gone
<1>9. CASE FailedThreadEnds(w)
  BY Zenon, <1>9, MoveInv DEF FailedThreadEnds, IInv, TypeInv, EvidenceInv, Locations, Gone
<1> QED BY Zenon, <1>1, <1>2, <1>3, <1>4, <1>5, <1>6, <1>7, <1>8, <1>9

-----------------------------------------------------------------------------
(* The host.                                                               *)

\* The first step of a startup that fails.
LEMMA AbortInv ==
  ASSUME IInv, NEW e \in Errors, e # NoError, Abort(e),
         phase \in {"collecting", "registry"},
         elapsed' \subseteq {"startup", "cleanup", "shutdown"},
         reports' = reports \/ (reports # <<>> /\ reports' = Tail(reports)),
         UNCHANGED <<pc, base, registry, barrier, started, supervisors, reached>>
  PROVE  IInv'
<1> USE DEF IInv, Abort
<1>1. /\ reports' \in Seq(Workers \X {"ReachedBarrier", "Failed"})
      /\ \A i \in 1..Len(reports') : \E j \in 1..Len(reports) : reports'[i] = reports[j]
  <2>1. CASE reports' = reports
    BY <2>1 DEF TypeInv
  <2>2. CASE reports # <<>> /\ reports' = Tail(reports)
    <3>1. /\ Tail(reports) \in Seq(Workers \X {"ReachedBarrier", "Failed"})
          /\ Len(Tail(reports)) = Len(reports) - 1 /\ Len(reports) \in Nat
          /\ \A i \in 1..Len(Tail(reports)) : Tail(reports)[i] = reports[i + 1]
      BY <2>2 DEF TypeInv
    <3>2. \A i \in 1..Len(Tail(reports)) : i + 1 \in 1..Len(reports)
      BY <3>1
    <3> QED BY Zenon, <2>2, <3>1, <3>2
  <2> QED BY <2>1, <2>2
<1>2. TypeInv'
  BY <1>1 DEF TypeInv, Failing
<1>3. PhaseInv'
  BY Zenon DEF PhaseInv, Starting, Failing, Started, Stages, NoError
<1>4. EvidenceInv'
  BY <1>1 DEF EvidenceInv
<1> QED BY <1>2, <1>3, <1>4

\* Every error the host reports is one, and is not the absence of one.
LEMMA ErrorTypes ==
  /\ \A w \in Workers : Failed(w) \in Errors /\ Failed(w) # NoError
  /\ \A kind \in {"Worker", "StartupTimeout", "Script"} :
       Other(kind) \in Errors /\ Other(kind) # NoError
BY CoordinatorAssumption DEF Errors, Failed, Other, NoError

\* Collecting a startup report keeps the invariant: the first failure is kept.
LEMMA CollectReportInv ==
  ASSUME IInv, CollectReport
  PROVE  IInv'
<1> DEFINE r == Head(reports)
<1>1. /\ reports # <<>> /\ reports' = Tail(reports) /\ phase = "collecting"
      /\ UNCHANGED <<pc, base, registry, barrier, started, supervisors, elapsed>>
  BY DEF CollectReport, Collecting, hostOnly, workerVars
<1>2. /\ r \in Workers \X {"ReachedBarrier", "Failed"} /\ r = reports[1]
      /\ 1 \in 1..Len(reports)
  BY <1>1 DEF IInv, TypeInv
<1> HIDE DEF r
<1>3. r[1] \in Workers
  BY Zenon, <1>2
<1>4. CASE r[2] = "Failed"
  <2>1. Abort(Failed(r[1])) /\ UNCHANGED reached
    BY <1>4 DEF CollectReport, r
  <2> QED BY Zenon, <1>1, <1>3, <2>1, ErrorTypes, AbortInv DEF IInv, TypeInv
<1>5. CASE r[2] = "ReachedBarrier"
  <2>1. /\ reached' = reached \cup {r[1]} /\ UNCHANGED error
        /\ phase' = IF reached' = Workers THEN "registry" ELSE phase
    BY <1>5 DEF CollectReport, r
  <2>2. /\ reports' \in Seq(Workers \X {"ReachedBarrier", "Failed"})
        /\ \A i \in 1..Len(reports') : \E j \in 1..Len(reports) : reports'[i] = reports[j]
    <3>1. /\ Tail(reports) \in Seq(Workers \X {"ReachedBarrier", "Failed"})
          /\ Len(Tail(reports)) = Len(reports) - 1 /\ Len(reports) \in Nat
          /\ \A i \in 1..Len(Tail(reports)) : Tail(reports)[i] = reports[i + 1]
      BY <1>1 DEF IInv, TypeInv
    <3>2. \A i \in 1..Len(Tail(reports)) : i + 1 \in 1..Len(reports)
      BY <3>1
    <3> QED BY <1>1, <3>1, <3>2
  <2>3. TypeInv'
    BY Zenon, <1>1, <1>3, <2>1, <2>2 DEF IInv, TypeInv, Starting
  <2>4. PhaseInv'
    BY <1>1, <2>1 DEF IInv, PhaseInv, Starting, Failing, Started, Stages, NoError
  <2>5. barrier = "none" => pc[r[1]] = "barrier"
    BY Zenon, <1>2, <1>5 DEF IInv, EvidenceInv
  <2>6. EvidenceInv'
    BY <1>1, <2>1, <2>2, <2>5 DEF IInv, EvidenceInv
  <2> QED BY <2>3, <2>4, <2>6 DEF IInv
<1> QED BY <1>2, <1>4, <1>5

\* Every other step of the host keeps the invariant.
LEMMA HostInv ==
  ASSUME IInv, Host \/ StartupTimeout \/ Shutdown \/ ShutdownTimeout
  PROVE  IInv'
<1> USE DEF hostOnly, workerVars, Collecting
<1>1. CASE CollectReport
  BY Zenon, <1>1, CollectReportInv
<1>2. CASE ReportsClosed
  BY Zenon, <1>2, ErrorTypes, AbortInv DEF ReportsClosed, IInv, TypeInv
<1>3. CASE \E w \in Workers : CollectJoin(w)
  BY Zenon, <1>3, ErrorTypes, AbortInv DEF CollectJoin, IInv, TypeInv
<1>4. CASE StartupTimeout
  BY <1>4, ErrorTypes, AbortInv DEF StartupTimeout, IInv, TypeInv
<1>5. CASE SpawnBots
  <2>1. CASE registry = "sent"
    <3>1. /\ supervisors' \in [Bots -> {"none", "running"}] /\ phase = "registry"
          /\ phase' = "publishing"
          /\ UNCHANGED <<pc, base, registry, reports, barrier, started, reached, error,
                         elapsed>>
      BY <1>5, <2>1 DEF SpawnBots
    <3>2. TypeInv'
      BY <3>1 DEF IInv, TypeInv, Starting
    <3>3. PhaseInv'
      BY Zenon, <3>1 DEF IInv, PhaseInv, Starting, Failing, Started, Stages, NoError
    <3>4. EvidenceInv'
      BY Zenon, <3>1 DEF IInv, EvidenceInv
    <3> QED BY <3>2, <3>3, <3>4 DEF IInv
  <2>2. CASE registry # "sent"
    BY Zenon, <1>5, <2>2, ErrorTypes, AbortInv DEF SpawnBots, IInv, TypeInv
  <2> QED BY <2>1, <2>2
<1>6. CASE publish
  <2>1. /\ phase = "publishing" /\ phase' = "running" /\ barrier' = "started"
        /\ UNCHANGED <<pc, base, registry, reports, started, supervisors, reached, error,
                       elapsed>>
    BY <1>6 DEF publish, IInv, PhaseInv, Starting
  <2>2. TypeInv'
    BY <2>1 DEF IInv, TypeInv, Started
  <2>3. PhaseInv'
    BY Zenon, <2>1 DEF IInv, PhaseInv, Starting, Failing, Started, Stages, NoError
  <2>4. EvidenceInv'
    BY Zenon, <2>1 DEF IInv, EvidenceInv
  <2> QED BY <2>2, <2>3, <2>4 DEF IInv
<1>7. CASE abort_startup
  <2>1. /\ phase = "aborting" /\ phase' = "cleanup" /\ barrier' = "aborted"
        /\ barrier = "none"
        /\ UNCHANGED <<pc, base, registry, reports, started, supervisors, reached, error,
                       elapsed>>
    BY <1>7 DEF abort_startup, IInv, PhaseInv
  <2>2. TypeInv'
    BY <2>1 DEF IInv, TypeInv, Failing
  <2>3. PhaseInv'
    BY Zenon, <2>1 DEF IInv, PhaseInv, Starting, Failing, Started, Stages, NoError
  <2>4. EvidenceInv'
    BY <2>1 DEF IInv, EvidenceInv
  <2> QED BY <2>2, <2>3, <2>4 DEF IInv
<1>8. CASE Cleaned
  <2>1. /\ phase = "cleanup" /\ phase' = "failed"
        /\ "cleanup" \notin elapsed' => AllDone
        /\ elapsed' \subseteq {"startup", "cleanup", "shutdown"}
        /\ UNCHANGED <<pc, base, registry, reports, barrier, started, supervisors, reached,
                       error>>
    BY Zenon, <1>8 DEF Cleaned, IInv, TypeInv
  <2>2. TypeInv'
    BY Zenon, <2>1 DEF IInv, TypeInv, Failing
  <2>3. PhaseInv'
    BY Zenon, <2>1 DEF IInv, PhaseInv, Starting, Failing, Started, Stages, NoError, AllDone
  <2>4. EvidenceInv'
    BY <2>1 DEF IInv, EvidenceInv
  <2> QED BY <2>2, <2>3, <2>4 DEF IInv
<1>9. CASE Shutdown \/ ShutdownTimeout \/ JoinTasks
  <2>1. /\ phase \in {"running"} \cup Stages /\ phase' \in Stages \cup {"stopped"}
        /\ elapsed' \subseteq {"startup", "cleanup", "shutdown"}
        /\ UNCHANGED <<pc, base, registry, reports, barrier, started, reached, error>>
    BY Zenon, <1>9 DEF Shutdown, ShutdownTimeout, JoinTasks, Stage, Stages, IInv, TypeInv
  <2>2. supervisors' \in [Bots -> {"none", "running", "stopping", "ended"}]
    BY <1>9, StopRequestedType DEF Shutdown, ShutdownTimeout, JoinTasks, IInv, TypeInv
  <2>3. TypeInv'
    BY Zenon, <2>1, <2>2 DEF IInv, TypeInv, Started
  <2>4. PhaseInv'
    BY Zenon, <2>1 DEF IInv, PhaseInv, Starting, Failing, Started, Stages, NoError
  <2>5. EvidenceInv'
    BY Zenon, <2>1 DEF IInv, EvidenceInv
  <2> QED BY <2>3, <2>4, <2>5 DEF IInv
<1>10. CASE \E w \in Workers : WaitActions(w)
  BY <1>10, BotsInv DEF WaitActions, IInv, TypeInv
<1> QED BY <1>1, <1>2, <1>3, <1>4, <1>5, <1>6, <1>7, <1>8, <1>9, <1>10 DEF Host

-----------------------------------------------------------------------------
\* Every step keeps the invariant.
LEMMA StepInv == IInv /\ [Next]_vars => IInv'
<1> SUFFICES ASSUME IInv, [Next]_vars PROVE IInv'
  OBVIOUS
<1>1. CASE \E b \in Bots : SupervisorEnds(b)
  BY Zenon, <1>1, BotsInv DEF SupervisorEnds, IInv, TypeInv, workerVars, hostVars
<1>2. CASE UNCHANGED vars
  BY Zenon, <1>2, BotsInv DEF vars, workerVars, hostVars, IInv, TypeInv
<1> QED BY Zenon, <1>1, <1>2, WorkerInv, HostInv DEF Next

\* The invariant holds in every reachable state.
LEMMA Invariant == Spec => []IInv
BY InitInv, StepInv, PTL DEF Spec

-----------------------------------------------------------------------------
(* The properties.                                                         *)

\* FailedStartLeavesNothing, for any number of workers and bots and wherever
\* run_swarm gives up.
THEOREM StartIsAllOrNothing == Spec => []FailedStartLeavesNothing
<1>1. IInv => FailedStartLeavesNothing
  BY Zenon DEF IInv, PhaseInv, EvidenceInv, FailedStartLeavesNothing, Failing, Starting, Started
<1> QED BY <1>1, Invariant, PTL

\* BotsWaitForWorkers: no bot is spawned, and nothing published, unless every
\* worker stands at the barrier and the registry is there, however reports,
\* failures and the startup deadline interleave.
THEOREM BotsAlwaysWait == Spec => []BotsWaitForWorkers
<1>1. IInv => BotsWaitForWorkers
  <2> SUFFICES ASSUME IInv, phase \in {"registry", "publishing"}
               PROVE  registry = "sent" /\ \A w \in Workers : pc[w] = "barrier"
    BY DEF BotsWaitForWorkers
  <2>1. \A w \in Workers : pc[w] = "barrier"
    BY DEF IInv, PhaseInv, EvidenceInv, Starting
  <2> QED BY <2>1, CoordinatorAssumption DEF IInv, EvidenceInv
<1> QED BY <1>1, Invariant, PTL

\* BlamesTheCulprit, for any number of workers: whoever is blamed has reported
\* a failure of its own, or is gone.
THEOREM BlameIsRight == Spec => BlamesTheCulprit
<1>1. ASSUME IInv, [Next]_vars, error'.kind = "WorkerFailed", error = NoError
      PROVE  pc[error'.worker] \in Gone
  <2>1. error' # error
    BY <1>1 DEF NoError
  <2>2. CASE CollectReport
    <3> DEFINE r == Head(reports)
    <3>1. reports # <<>> /\ (r[2] = "Failed" => error' = Failed(r[1]))
      BY <2>1, <2>2 DEF CollectReport, Abort
    <3>2. r[2] = "Failed"
      BY <2>1, <2>2 DEF CollectReport
    <3>3. r = reports[1] /\ 1 \in 1..Len(reports)
      BY <1>1, <3>1 DEF IInv, TypeInv
    <3>4. pc[r[1]] \in Gone
      BY <1>1, <3>2, <3>3 DEF IInv, EvidenceInv
    <3> QED BY <3>1, <3>2, <3>4 DEF Failed
  <2>3. CASE \E w \in Workers : CollectJoin(w)
    BY <2>3 DEF CollectJoin, Abort, Failed, Gone
  <2>4. CASE ReportsClosed \/ StartupTimeout \/ SpawnBots
    BY <1>1, <2>1, <2>4 DEF ReportsClosed, StartupTimeout, SpawnBots, Abort, Other
  <2>5. \/ CollectReport \/ (\E w \in Workers : CollectJoin(w))
        \/ ReportsClosed \/ StartupTimeout \/ SpawnBots
    BY Zenon, <1>1, <2>1 DEF Next, Host, vars, hostVars, workerVars, connect_all, Released,
       ScriptReturns, Fails, ReportsFailure, FailedThreadEnds, disconnect_all, stop, SpawnAction,
       ActionEnds, LoopExits, SupervisorEnds, publish, abort_startup, Cleaned,
       JoinTasks, WaitActions, Shutdown, ShutdownTimeout
  <2> QED BY <2>2, <2>3, <2>4, <2>5
<1>2. IInv /\ [Next]_vars =>
        [error'.kind = "WorkerFailed" /\ error = NoError =>
           pc[error'.worker] \in {"reported", "done"}]_vars
  BY <1>1 DEF Gone
<1> QED BY <1>2, Invariant, PTL DEF Spec, BlamesTheCulprit
=============================================================================
