------------------------------- MODULE Registry -------------------------------
(***************************************************************************)
(* The configuration of a swarm: SwarmRegistryBuilder                      *)
(* (src/src/lua/registry.rs) under the script calls that fill it           *)
(* (src/src/lua/api/swarm.rs): add_server, add_bot, add_group, which adds  *)
(* its bots one by one and takes them back if it fails, and connect_all,   *)
(* which freezes the registry and leaves an empty builder behind.          *)
(*                                                                         *)
(* Server, proxy, group and user names are values; whether a name or a     *)
(* label is empty or too long is left open (valid).  One pass of the loop  *)
(* of add_group is a step, and nothing else happens between two passes.    *)
(* A definition named after another one, _ and a few words is that         *)
(* definition with a mistake in it.                                        *)
(***************************************************************************)
EXTENDS Naturals, Sequences, FiniteSets

CONSTANTS
  Servers,          \* server names the script uses
  Proxies,          \* proxy profile ids the script uses
  ProxyProfileIds,  \* the ones the host registered
  NoProxy,
  Usernames,
  Groups,
  MaxId,            \* u32::MAX
  MaxBots,          \* MAX_BOTS
  MaxGroups,        \* MAX_GROUPS
  MaxBotsPerGroup   \* MAX_BOTS_PER_GROUP

ASSUME LimitsAssumption ==
  MaxId \in Nat /\ MaxBots \in Nat /\ MaxGroups \in Nat /\ MaxBotsPerGroup \in Nat
ASSUME NamesAssumption == Groups # {} /\ Servers # {}
ASSUME ProxiesAssumption == ProxyProfileIds \subseteq Proxies /\ NoProxy \notin Proxies

Ids == 0..MaxId
BotDef == [username : Usernames, server : Servers, proxy : Proxies \cup {NoProxy}]
Request == [group : Groups, server : Servers, proxy : Proxies \cup {NoProxy}]
NoRequest == CHOOSE r \in Request : TRUE

VARIABLES
  servers,   \* names of the servers defined
  profiles,  \* proxy_profile_ids
  bots,      \* bot id to BotDef
  names,     \* username_to_id
  groups,    \* group name to its bot ids
  next,      \* next_auto_id
  step,      \* whether add_group is in its loop
  request,   \* the arguments of add_group
  todo,      \* usernames add_group has yet to add
  ids,       \* ids it has added
  result,    \* what the last call returned
  frozen,    \* a registry has been handed to the runtime
  settled    \* history: bots, names and groups after the last call that succeeded

builderVars == <<servers, profiles, bots, names, groups, next>>
batchVars == <<step, request, todo, ids>>
registryVars == <<builderVars, batchVars, result, frozen, settled>>

Empty == [x \in {} |-> x]
Retain(f, S) == [x \in DOMAIN f \cap S |-> f[x]]
Extend(f, x, y) == [z \in DOMAIN f \cup {x} |-> IF z = x THEN y ELSE f[z]]

RegistryInit ==
  /\ servers = {}
  /\ profiles = ProxyProfileIds
  /\ bots = Empty /\ names = Empty /\ groups = Empty
  /\ next = 0
  /\ step = "idle"
  /\ request = NoRequest
  /\ todo = <<>>
  /\ ids = {}
  /\ result = "Ok"
  /\ frozen = FALSE
  /\ settled = <<bots, names, groups>>

Settle == settled' = <<bots', names', groups'>>

-----------------------------------------------------------------------------
(* The builder.                                                            *)

SpecOk_AnyServer(u, s, p, valid) ==
  /\ valid
  /\ p = NoProxy \/ p \in profiles
  /\ u \notin DOMAIN names
  /\ Cardinality(DOMAIN bots) < MaxBots

SpecOk(u, s, p, valid) ==
  /\ valid
  /\ s \in servers
  /\ p = NoProxy \/ p \in profiles
  /\ u \notin DOMAIN names
  /\ Cardinality(DOMAIN bots) < MaxBots

(* checked_add and saturating_add. *)
Succ(i) == IF i < MaxId THEN i + 1 ELSE MaxId

Free == {i \in Ids : i >= next /\ i \notin DOMAIN bots}

Insert(id, u, s, p) ==
  /\ bots' = Extend(bots, id, [username |-> u, server |-> s, proxy |-> p])
  /\ names' = Extend(names, u, id)
  /\ next' = IF next > Succ(id) THEN next ELSE Succ(id)

(* allocate_id takes the first free id from next_auto_id on. *)
FirstFree(id) == id \in Free /\ \A i \in Free : id <= i

add_server(s, valid) ==
  /\ step = "idle"
  /\ IF valid /\ s \notin servers
     THEN servers' = servers \cup {s} /\ result' = "Ok"
     ELSE result' = "Err" /\ UNCHANGED servers
  /\ UNCHANGED <<profiles, bots, names, groups, next, batchVars, frozen, settled>>

(* A search that finds no free id has moved next_auto_id to its end. *)
add_bot(u, s, p, valid) ==
  /\ step = "idle"
  /\ UNCHANGED <<servers, profiles, groups, batchVars, frozen>>
  /\ LET ok == SpecOk(u, s, p, valid) IN
     \/ /\ ok
        /\ \E id \in Ids : FirstFree(id) /\ Insert(id, u, s, p)
        /\ result' = "Ok" /\ Settle
     \/ /\ ok => Free = {}
        /\ next' = IF ok THEN MaxId ELSE next
        /\ result' = "Err"
        /\ UNCHANGED <<bots, names, settled>>

add_bot_with_id(id, u, s, p, valid) ==
  /\ step = "idle"
  /\ UNCHANGED <<servers, profiles, groups, batchVars, frozen>>
  /\ IF SpecOk(u, s, p, valid) /\ id \notin DOMAIN bots
     THEN Insert(id, u, s, p) /\ result' = "Ok" /\ Settle
     ELSE result' = "Err" /\ UNCHANGED <<bots, names, next, settled>>

-----------------------------------------------------------------------------
(* swarm:add_group.                                                        *)

(* The loop is entered with the usernames prefix0, prefix1, ... *)
add_group(r, us) ==
  /\ step = "idle"
  /\ IF Len(us) > MaxBotsPerGroup
     THEN result' = "Err" /\ UNCHANGED <<step, request, todo, ids>>
     ELSE step' = "adding" /\ request' = r /\ todo' = us /\ ids' = {} /\ UNCHANGED result
  /\ UNCHANGED <<builderVars, frozen, settled>>

Idle == step' = "idle" /\ request' = NoRequest /\ todo' = <<>> /\ ids' = {}

remove_bots_KeepNames(S) ==
  /\ bots' = Retain(bots, Ids \ S)
  /\ UNCHANGED names

(* remove_bot for each id of S. *)
remove_bots(S) ==
  /\ bots' = Retain(bots, Ids \ S)
  /\ names' = Retain(names, Usernames \ {bots[i].username : i \in S})

AddNext(valid) ==
  LET ok == SpecOk(Head(todo), request.server, request.proxy, valid) IN
  /\ step = "adding"
  /\ todo # <<>>
  /\ \/ /\ ok
        /\ \E id \in Ids :
             /\ FirstFree(id)
             /\ Insert(id, Head(todo), request.server, request.proxy)
             /\ ids' = ids \cup {id}
        /\ todo' = Tail(todo)
        /\ UNCHANGED <<step, request, result>>
     \/ /\ ok => Free = {}
        /\ remove_bots(ids)
        /\ next' = IF ok THEN MaxId ELSE next
        /\ Idle /\ result' = "Err"
  /\ UNCHANGED <<servers, profiles, groups, frozen, settled>>

GroupOk(valid) ==
  /\ valid
  /\ request.group \notin DOMAIN groups
  /\ Cardinality(DOMAIN groups) < MaxGroups
  /\ ids \subseteq DOMAIN bots

FinishGroup_NoRollback(valid) ==
  /\ step = "adding"
  /\ todo = <<>>
  /\ Idle
  /\ UNCHANGED <<servers, profiles, bots, names, next, frozen>>
  /\ IF GroupOk(valid)
     THEN groups' = Extend(groups, request.group, ids) /\ result' = "Ok" /\ Settle
     ELSE result' = "Err" /\ UNCHANGED <<groups, settled>>

(* Every bot is there: the group itself is added, or all is taken back. *)
FinishGroup(valid) ==
  /\ step = "adding"
  /\ todo = <<>>
  /\ Idle
  /\ IF GroupOk(valid)
     THEN /\ groups' = Extend(groups, request.group, ids)
          /\ UNCHANGED <<bots, names>>
          /\ result' = "Ok" /\ Settle
     ELSE /\ remove_bots(ids)
          /\ result' = "Err"
          /\ UNCHANGED <<groups, settled>>
  /\ UNCHANGED <<servers, profiles, next, frozen>>

-----------------------------------------------------------------------------
(* connect_all: mem::take leaves SwarmRegistryBuilder::default(), and the  *)
(* runtime gets the first registry only.                                   *)
TakeRegistry ==
  /\ step = "idle"
  /\ frozen' = TRUE
  /\ servers' = {} /\ profiles' = {}
  /\ bots' = Empty /\ names' = Empty /\ groups' = Empty
  /\ next' = 0
  /\ result' = "Ok" /\ Settle
  /\ UNCHANGED batchVars

Batches == UNION {[1..n -> Usernames] : n \in 0..(MaxBotsPerGroup + 1)}
Distinct(us) == \A i, j \in DOMAIN us : us[i] = us[j] => i = j

RegistryNext ==
  \/ \E valid \in BOOLEAN :
       \/ \E s \in Servers : add_server(s, valid)
       \/ \E u \in Usernames, s \in Servers, p \in Proxies \cup {NoProxy} :
            add_bot(u, s, p, valid) \/ \E id \in Ids : add_bot_with_id(id, u, s, p, valid)
       \/ AddNext(valid)
       \/ FinishGroup(valid)
  \/ \E r \in Request, us \in Batches : Distinct(us) /\ add_group(r, us)
  \/ TakeRegistry

RegistrySpec == RegistryInit /\ [][RegistryNext]_registryVars

-----------------------------------------------------------------------------
(* Types; bot ids and next_auto_id keep within u32.                        *)
TypeOK ==
  /\ servers \subseteq Servers
  /\ profiles \subseteq Proxies
  /\ DOMAIN bots \subseteq Ids /\ \A i \in DOMAIN bots : bots[i] \in BotDef
  /\ bots = [i \in DOMAIN bots |-> bots[i]]
  /\ DOMAIN names \subseteq Usernames /\ \A u \in DOMAIN names : names[u] \in Ids
  /\ names = [u \in DOMAIN names |-> names[u]]
  /\ DOMAIN groups \subseteq Groups /\ \A g \in DOMAIN groups : groups[g] \in SUBSET Ids
  /\ groups = [g \in DOMAIN groups |-> groups[g]]
  /\ next \in Ids
  /\ step \in {"idle", "adding"}
  /\ request \in Request
  /\ todo \in Seq(Usernames)
  /\ ids \subseteq Ids
  /\ result \in {"Ok", "Err"}
  /\ frozen \in BOOLEAN

(* username_to_id is the inverse of the bots' usernames, through every     *)
(* rollback: no two bots share a name, and a name freed is free.           *)
IndexMatches ==
  /\ \A i \in DOMAIN bots :
       bots[i].username \in DOMAIN names /\ names[bots[i].username] = i
  /\ \A u \in DOMAIN names : names[u] \in DOMAIN bots /\ bots[names[u]].username = u

(* What the builder holds, and connect_all hands to the runtime, has no    *)
(* dangling reference: servers, proxy profiles and group members exist,    *)
(* after a rollback too.  spawn_all_bots unwraps on the strength of it.    *)
NothingDangles ==
  /\ \A i \in DOMAIN bots :
       bots[i].server \in servers /\ bots[i].proxy \in profiles \cup {NoProxy}
  /\ \A g \in DOMAIN groups : groups[g] \subseteq DOMAIN bots

(* A call that fails, add_group in the middle of its bots included, leaves *)
(* bots, names and groups as they were.                                    *)
AllOrNothing == step = "idle" => settled = <<bots, names, groups>>
=============================================================================
