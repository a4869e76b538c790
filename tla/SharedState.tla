----------------------------- MODULE SharedState -----------------------------
(***************************************************************************)
(* swarm.shared, the key/value store of src/src/lua/api/shared.rs that all *)
(* Lua workers share: get, set, and update, which reads a value under the  *)
(* store's mutex, runs a Lua function without it and then compares and     *)
(* swaps on the version it read, a bounded number of times.                *)
(*                                                                         *)
(* A step is one critical section of the mutex.  A value is the set of the *)
(* writes it incorporates: set writes a fresh one alone, an updater adds a *)
(* fresh one to the value it was given.                                    *)
(*                                                                         *)
(* As in Supervisor, a definition named after another one, _ and a few     *)
(* words is that definition with a mistake in it.                          *)
(***************************************************************************)
EXTENDS Naturals, FiniteSets

CONSTANTS
  Workers,           \* the Lua workers; each runs one script call at a time
  Keys,              \* keys the scripts use
  LongKeys,          \* the ones over MAX_KEY_LEN bytes
  UpdateKeys,        \* the ones the scripts write with update only
  MaxStoreKeys,      \* MAX_STORE_KEYS
  MaxUpdateRetries,  \* MAX_UPDATE_RETRIES
  MaxWrites          \* bound: writes in one behaviour

ASSUME KeysAssumption ==
  LongKeys \subseteq Keys /\ UpdateKeys \subseteq Keys
ASSUME LimitsAssumption ==
  MaxStoreKeys \in Nat /\ MaxUpdateRetries \in Nat \ {0} /\ MaxWrites \in Nat

VARIABLES
  store,   \* the map: keys present to Versioned records
  pc,      \* "idle", or where in update the worker is
  key,     \* the key of that update
  got,     \* what read_for_update returned, and whether the key was there
  tries,   \* failed compare_and_swap calls of that update
  start,   \* history: the version its first read returned
  result,  \* what the worker's last set or update returned
  writes   \* history: writes made so far, the supply of fresh values

vars == <<store, pc, key, got, tries, start, result, writes>>
callVars == <<pc, key, got, tries, start>>

Nil == {}
Value == SUBSET (1..MaxWrites)
Versioned == [value : Value, version : Nat]
Read == [value : Value, version : Nat, present : BOOLEAN]

SharedStateError == {"StoreFull", "KeyTooLong", "UpdateContention", "Value"}

Present(k) == k \in DOMAIN store
VersionOf(k) == IF Present(k) THEN store[k].version ELSE 0
ValueOf(k) == IF Present(k) THEN store[k].value ELSE Nil

Full(k) == ~ Present(k) /\ Cardinality(DOMAIN store) >= MaxStoreKeys

(* HashMap::insert. *)
Insert(k, v, n) ==
  store' = [j \in DOMAIN store \cup {k} |->
              IF j = k THEN [value |-> v, version |-> n] ELSE store[j]]

Init ==
  /\ store = [k \in {} |-> [value |-> Nil, version |-> 0]]
  /\ pc = [w \in Workers |-> "idle"]
  /\ key \in [Workers -> Keys]
  /\ got = [w \in Workers |-> [value |-> Nil, version |-> 0, present |-> FALSE]]
  /\ tries = [w \in Workers |-> 0]
  /\ start = [w \in Workers |-> 0]
  /\ result = [w \in Workers |-> "Ok"]
  /\ writes = 0

Return(w, r) == result' = [result EXCEPT ![w] = r]

-----------------------------------------------------------------------------
SetIf(w, k, short, room, version) ==
  \/ /\ ~ short
     /\ Return(w, "KeyTooLong")
     /\ UNCHANGED <<store, writes>>
  \/ /\ short
     /\ ~ room
     /\ Return(w, "StoreFull")
     /\ UNCHANGED <<store, writes>>
  \/ /\ short
     /\ room
     /\ writes < MaxWrites
     /\ writes' = writes + 1
     /\ Insert(k, {writes'}, version)
     /\ Return(w, "Ok")

NextVersion(k) == IF Present(k) THEN store[k].version + 1 ELSE 0

(* shared:set(k, v), also from inside an updater: a fresh key starts at    *)
(* version 0.                                                              *)
set(w, k) ==
  /\ SetIf(w, k, k \notin LongKeys, ~ Full(k), NextVersion(k))
  /\ UNCHANGED callVars

(* shared:set with a value that cannot be shared: the conversion refuses   *)
(* it before the store is looked at.                                       *)
SetUnshareable(w) ==
  /\ Return(w, "Value")
  /\ UNCHANGED <<store, callVars, writes>>

(* shared:update(k, fn) is called. *)
update(w, k) ==
  /\ pc[w] = "idle"
  /\ pc' = [pc EXCEPT ![w] = "read"]
  /\ key' = [key EXCEPT ![w] = k]
  /\ tries' = [tries EXCEPT ![w] = 0]
  /\ start' = [start EXCEPT ![w] = VersionOf(k)]
  /\ UNCHANGED <<store, got, result, writes>>

(* An absent key reads as nil at version 0. *)
read_for_update(w) ==
  /\ pc[w] = "read"
  /\ got' = [got EXCEPT ![w] = [value   |-> ValueOf(key[w]),
                                version |-> VersionOf(key[w]),
                                present |-> Present(key[w])]]
  /\ pc' = [pc EXCEPT ![w] = "updater"]
  /\ UNCHANGED <<store, key, tries, start, result, writes>>

(* The updater raises an error or returns a value that is not shareable.   *)
UpdaterFails(w) ==
  /\ pc[w] = "updater"
  /\ pc' = [pc EXCEPT ![w] = "idle"]
  /\ Return(w, "Value")
  /\ UNCHANGED <<store, key, got, tries, start, writes>>

GiveUp(w, e) ==
  /\ pc' = [pc EXCEPT ![w] = "idle"]
  /\ Return(w, e)
  /\ UNCHANGED <<store, writes>>

SwapIf(w, current) ==
  LET k == key[w] IN
  /\ pc[w] = "updater"
  /\ \/ /\ k \in LongKeys
        /\ GiveUp(w, "KeyTooLong")
        /\ UNCHANGED tries
     \/ /\ k \notin LongKeys
        /\ ~ current
        /\ tries' = [tries EXCEPT ![w] = @ + 1]
        /\ IF tries'[w] < MaxUpdateRetries
           THEN /\ pc' = [pc EXCEPT ![w] = "read"]
                /\ UNCHANGED <<store, result, writes>>
           ELSE GiveUp(w, "UpdateContention")
     \/ /\ k \notin LongKeys
        /\ current
        /\ Full(k)
        /\ GiveUp(w, "StoreFull")
        /\ UNCHANGED tries
     \/ /\ k \notin LongKeys
        /\ current
        /\ ~ Full(k)
        /\ writes < MaxWrites
        /\ writes' = writes + 1
        /\ Insert(k, got[w].value \cup {writes'}, got[w].version + 1)
        /\ pc' = [pc EXCEPT ![w] = "idle"]
        /\ Return(w, "Ok")
        /\ UNCHANGED tries
  /\ UNCHANGED <<key, got, start>>

compare_and_swap_Blind(w) == SwapIf(w, TRUE)
compare_and_swap_Spurious(w) == SwapIf(w, VersionOf(key[w]) > got[w].version)

(* The updater has returned: write its value if the version is the one it  *)
(* was given, else try again, MAX_UPDATE_RETRIES times in all.             *)
compare_and_swap(w) == SwapIf(w, VersionOf(key[w]) = got[w].version)

Step(w) ==
  \/ \E k \in Keys \ UpdateKeys : set(w, k)
  \/ SetUnshareable(w)
  \/ \E k \in Keys : update(w, k)
  \/ read_for_update(w)
  \/ UpdaterFails(w)
  \/ compare_and_swap(w)

Next == \E w \in Workers : Step(w)

Spec == Init /\ [][Next]_vars

-----------------------------------------------------------------------------
(* Every variable has its type; in particular no key over the length limit *)
(* is ever stored.                                                         *)
TypeOK ==
  /\ DOMAIN store \subseteq Keys \ LongKeys
  /\ store \in [DOMAIN store -> Versioned]
  /\ pc \in [Workers -> {"idle", "read", "updater"}]
  /\ key \in [Workers -> Keys]
  /\ got \in [Workers -> Read]
  /\ tries \in [Workers -> Nat]
  /\ start \in [Workers -> Nat]
  /\ result \in [Workers -> SharedStateError \cup {"Ok"}]
  /\ writes \in 0..MaxWrites

(* A compare_and_swap of w writes the store in this step. *)
Swaps(w) ==
  /\ pc[w] = "updater"
  /\ pc'[w] = "idle"
  /\ store' # store

(* An update of a key that was there when it was read, or that no script  *)
(* writes with set, overwrites exactly the value its updater was given: no *)
(* write that lands while the Lua function runs is lost.                   *)
UpdatesAreAtomic ==
  [][\A w \in Workers :
       Swaps(w) /\ (got[w].present \/ key[w] \in UpdateKeys)
         => ValueOf(key[w]) = got[w].value]_vars

(* The same for every key, one that was absent included: the documented    *)
(* "Atomic read-modify-write".                                             *)
UpdateIsAtomic ==
  [][\A w \in Workers : Swaps(w) => ValueOf(key[w]) = got[w].value]_vars

(* Each failed compare_and_swap is the doing of a write of another call to *)
(* the same key during this update, so that an update gives up with        *)
(* contention only after MAX_UPDATE_RETRIES such writes.                   *)
FailuresAreOthersWrites ==
  \A w \in Workers :
    pc[w] # "idle" => tries[w] + start[w] <= VersionOf(key[w])

(* A key is never removed and its version never goes back, so that a       *)
(* version read before can be compared with one read later.                *)
VersionsOnlyGrow ==
  [][\A k \in DOMAIN store :
       k \in DOMAIN store' /\ store[k].version <= store'[k].version]_vars

(* set and compare_and_swap both refuse a key that would exceed            *)
(* MAX_STORE_KEYS, whichever of two racing writers comes first.            *)
StoreIsBounded == Cardinality(DOMAIN store) <= MaxStoreKeys
=============================================================================
