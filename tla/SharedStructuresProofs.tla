----------------------- MODULE SharedStructuresProofs -----------------------
(***************************************************************************)
(* Proofs about the two structures that threads share under a mutex: the   *)
(* store behind swarm.shared, and the queue of three lanes between the bots *)
(* and a worker.  Neither knows of the other; a definition or a lemma belongs *)
(* to one of them.                                                         *)
(*                                                                         *)
(* SharedState, for any number of workers, keys, retries and writes: while an *)
(* updater runs, the version of its key is at least the one it read, and a *)
(* version it still has shows the value that was read.                     *)
(*                                                                         *)
(* QueueContract, for any capacities, any number of bots and names and any *)
(* number of pushes: the inductive invariant says where every envelope that *)
(* was pushed can be, lane by lane, and that within what a script sees in  *)
(* order the delivered ones come before the waiting ones: the batch that   *)
(* drain_ready joins from the three lanes then keeps every order.          *)
(***************************************************************************)
EXTENDS SharedState, QueueContract, FiniteSetTheorems, TLAPS

(* What an update knows of its key between its read and its swap. *)
ReadIsCurrent(w) ==
  LET k == key[w] IN
  /\ tries[w] + start[w] <= got[w].version
  /\ got[w].version <= VersionOf(k)
  /\ got[w].present =>
       /\ Present(k)
       /\ store[k].version = got[w].version => store[k].value = got[w].value
  /\ ~ got[w].present => got[w].value = Nil /\ got[w].version = 0

Reads ==
  \A w \in Workers :
    /\ pc[w] = "read" => tries[w] + start[w] <= VersionOf(key[w])
    /\ pc[w] = "updater" => ReadIsCurrent(w)

(* compare_and_swap never leaves a key at version 0; only set does. *)
UpdatedOnly == \A k \in UpdateKeys : Present(k) => store[k].version > 0

Bounded == IsFiniteSet(DOMAIN store) /\ StoreIsBounded

IInv == TypeOK /\ Reads /\ UpdatedOnly /\ Bounded

(* A write of k by set or compare_and_swap. *)
Wrote(k, v, n) ==
  /\ k \in Keys \ LongKeys
  /\ ~ Full(k)
  /\ v \in Value
  /\ n \in Nat
  /\ Insert(k, v, n)

(* The types survive HashMap::insert, other keys are untouched. *)
LEMMA InsertLemma ==
  ASSUME TypeOK, NEW k, NEW v, NEW n, Wrote(k, v, n)
  PROVE  /\ DOMAIN store' = DOMAIN store \cup {k}
         /\ DOMAIN store' \subseteq Keys \ LongKeys
         /\ store' \in [DOMAIN store' -> Versioned]
         /\ store'[k] = [value |-> v, version |-> n]
         /\ \A j \in DOMAIN store : j # k => store'[j] = store[j]
         /\ \A j : j # k => (VersionOf(j)' = VersionOf(j)
                              /\ Present(j)' = Present(j))
         /\ VersionOf(k)' = n
         /\ Present(k)'
<1>1. DOMAIN store' = DOMAIN store \cup {k}
  BY DEF Wrote, Insert
<1>2. \A j \in DOMAIN store' :
        store'[j] = IF j = k THEN [value |-> v, version |-> n] ELSE store[j]
  BY DEF Wrote, Insert
<1>3. store' = [j \in DOMAIN store' |-> store'[j]]
  BY <1>1, <1>2 DEF Wrote, Insert
<1>4. DOMAIN store' \subseteq Keys \ LongKeys
  BY <1>1 DEF Wrote, TypeOK
<1>5. \A j \in DOMAIN store' : store'[j] \in Versioned
  BY <1>1, <1>2 DEF Wrote, TypeOK, Versioned
<1>6. store' \in [DOMAIN store' -> Versioned]
  BY <1>3, <1>5
<1>7. store'[k] = [value |-> v, version |-> n]
  BY <1>1, <1>2
<1>8. \A j : j # k => (VersionOf(j)' = VersionOf(j) /\ Present(j)' = Present(j))
  BY <1>1, <1>2 DEF VersionOf, Present
<1>9. VersionOf(k)' = n /\ Present(k)'
  BY <1>1, <1>7 DEF VersionOf, Present
<1> QED BY <1>1, <1>2, <1>4, <1>6, <1>7, <1>8, <1>9

(* HashMap::insert after the StoreFull test keeps the store bounded. *)
LEMMA InsertBounded ==
  ASSUME TypeOK, Bounded, NEW k, NEW v, NEW n, Wrote(k, v, n)
  PROVE  Bounded'
<1>1. DOMAIN store' = DOMAIN store \cup {k}
  BY Zenon, InsertLemma
<1>2. IsFiniteSet(DOMAIN store')
  BY <1>1, FS_AddElement DEF Bounded
<1>3. Cardinality(DOMAIN store) \in Nat
  BY FS_CardinalityType DEF Bounded
<1>4. CASE k \in DOMAIN store
  <2>1. DOMAIN store' = DOMAIN store
    BY <1>1, <1>4
  <2> QED BY <2>1 DEF Bounded, StoreIsBounded
<1>5. CASE k \notin DOMAIN store
  <2>1. Cardinality(DOMAIN store') = Cardinality(DOMAIN store) + 1
    BY <1>1, <1>5, FS_AddElement DEF Bounded
  <2>2. ~ (Cardinality(DOMAIN store) >= MaxStoreKeys)
    BY <1>5 DEF Wrote, Full, Present
  <2> QED BY <1>2, <1>3, <2>1, <2>2, LimitsAssumption DEF Bounded, StoreIsBounded
<1> QED BY <1>4, <1>5

ReadsOf(w) ==
  /\ pc[w] = "read" => tries[w] + start[w] <= VersionOf(key[w])
  /\ pc[w] = "updater" => ReadIsCurrent(w)

SameCall(w) ==
  /\ pc'[w] = pc[w]
  /\ key'[w] = key[w]
  /\ got'[w] = got[w]
  /\ tries'[w] = tries[w]
  /\ start'[w] = start[w]

(* What a worker inside update knows of its key survives every write of a  *)
(* newer version, and the creation of a key it found absent.               *)
LEMMA WriteKeepsReads ==
  ASSUME TypeOK, NEW k, NEW v, NEW n, Wrote(k, v, n),
         VersionOf(k) <= n, Present(k) => VersionOf(k) < n,
         NEW w \in Workers, ReadsOf(w), SameCall(w)
  PROVE  ReadsOf(w)'
<1>1. CASE key[w] # k
  <2>1. VersionOf(key[w])' = VersionOf(key[w]) /\ Present(key[w])' = Present(key[w])
    BY Zenon, <1>1, InsertLemma DEF SameCall, VersionOf, Present
  <2>2. Present(key[w]) => store'[key[w]] = store[key[w]]
    BY Zenon, <1>1, InsertLemma DEF Present
  <2> QED BY <2>1, <2>2 DEF ReadsOf, ReadIsCurrent, SameCall, VersionOf, Present
<1>2. CASE key[w] = k
  <2>1. /\ VersionOf(k)' = n
        /\ Present(k)'
        /\ store'[k] = [value |-> v, version |-> n]
    BY Zenon, InsertLemma
  <2>2. n \in Nat /\ VersionOf(k) \in Nat
    BY DEF Wrote, TypeOK, Versioned, VersionOf, Present
  <2>3. got[w] \in Read /\ tries[w] \in Nat /\ start[w] \in Nat
    BY DEF TypeOK
  <2>4. pc[w] = "read" => tries[w] + start[w] <= n
    BY <1>2, <2>2, <2>3 DEF ReadsOf
  <2>5. CASE pc[w] = "updater"
    <3>1. ReadIsCurrent(w)
      BY <2>5 DEF ReadsOf
    <3>2. got[w].version <= VersionOf(k) /\ tries[w] + start[w] <= got[w].version
      BY <1>2, <3>1 DEF ReadIsCurrent
    <3>3. got[w].version \in Nat
      BY <2>3 DEF Read
    <3>4. got[w].version <= n
      BY <2>2, <3>2, <3>3
    <3>5. got[w].present => got[w].version < n
      BY <1>2, <2>2, <3>1, <3>2, <3>3 DEF ReadIsCurrent
    <3>6. ReadIsCurrent(w)'
      BY <1>2, <2>1, <2>2, <3>1, <3>2, <3>3, <3>4, <3>5 DEF ReadIsCurrent, SameCall
    <3> QED BY <2>5, <3>6 DEF ReadsOf, SameCall
  <2> QED BY <1>2, <2>1, <2>4, <2>5 DEF ReadsOf, SameCall
<1> QED BY <1>1, <1>2

(* A step that does not touch the store keeps what is known of it. *)
LEMMA QuietKeepsReads ==
  ASSUME store' = store, NEW w \in Workers, ReadsOf(w), SameCall(w)
  PROVE  ReadsOf(w)'
BY DEF ReadsOf, ReadIsCurrent, SameCall, VersionOf, Present

(* Reads, UpdatedOnly and Bounded only speak of the store and the calls. *)
LEMMA QuietStep ==
  ASSUME UpdatedOnly, Bounded, store' = store
  PROVE  UpdatedOnly' /\ Bounded'
BY DEF UpdatedOnly, Bounded, StoreIsBounded, Present

(* Every step keeps the types. *)
LEMMA TypeStep ==
  ASSUME TypeOK, Next
  PROVE  TypeOK'
<1> USE DEF TypeOK, Versioned, Read, SharedStateError, callVars, Return
<1>1. ASSUME NEW w \in Workers, NEW k \in Keys, set(w, k)
      PROVE  TypeOK'
  <2> DEFINE n == IF Present(k) THEN store[k].version + 1 ELSE 0
  <2>1. n \in Nat
    BY DEF Present
  <2>2. CASE store' = store /\ writes' = writes
    BY <1>1, <2>2 DEF set, SetIf, NextVersion
  <2>3. CASE ~ (store' = store /\ writes' = writes)
    <3>1. /\ writes' = writes + 1
          /\ writes < MaxWrites
          /\ Wrote(k, {writes'}, n)
      BY <1>1, <2>1, <2>3, LimitsAssumption DEF set, SetIf, NextVersion, Wrote, Value
    <3>2. /\ DOMAIN store' \subseteq Keys \ LongKeys
          /\ store' \in [DOMAIN store' -> Versioned]
      BY Zenon, <3>1, InsertLemma
    <3>3. writes' \in 0..MaxWrites
      BY <3>1, LimitsAssumption
    <3> QED BY <1>1, <3>2, <3>3 DEF set, SetIf, NextVersion
  <2> QED BY <2>2, <2>3
<1>2. ASSUME NEW w \in Workers, NEW k \in Keys, update(w, k)
      PROVE  TypeOK'
  <2>1. VersionOf(k) \in Nat
    BY DEF VersionOf, Present
  <2> QED BY <1>2, <2>1 DEF update
<1>3. ASSUME NEW w \in Workers, read_for_update(w)
      PROVE  TypeOK'
  <2>1. VersionOf(key[w]) \in Nat /\ ValueOf(key[w]) \in Value
    BY DEF VersionOf, ValueOf, Present, Value, Nil
  <2>2. Present(key[w]) \in BOOLEAN
    BY DEF Present
  <2> QED BY <1>3, <2>1, <2>2 DEF read_for_update
<1>4. ASSUME NEW w \in Workers, UpdaterFails(w)
      PROVE  TypeOK'
  BY <1>4 DEF UpdaterFails
<1>5. ASSUME NEW w \in Workers, SetUnshareable(w)
      PROVE  TypeOK'
  BY <1>5 DEF SetUnshareable
<1>6. ASSUME NEW w \in Workers, compare_and_swap(w)
      PROVE  TypeOK'
  <2>1. CASE store' = store /\ writes' = writes
    <3>1. /\ \E p \in {"idle", "read"} : pc' = [pc EXCEPT ![w] = p]
          /\ \/ tries' = tries
             \/ tries' = [tries EXCEPT ![w] = @ + 1]
          /\ \/ result' = result
             \/ \E e \in SharedStateError \cup {"Ok"} :
                  result' = [result EXCEPT ![w] = e]
          /\ UNCHANGED <<key, got, start>>
      BY <1>6 DEF compare_and_swap, SwapIf, GiveUp
    <3>2. pc' \in [Workers -> {"idle", "read", "updater"}]
      BY <3>1
    <3>3. tries' \in [Workers -> Nat]
      BY <3>1
    <3>4. result' \in [Workers -> SharedStateError \cup {"Ok"}]
      BY Zenon, <3>1
    <3> QED BY <2>1, <3>1, <3>2, <3>3, <3>4
  <2>2. CASE ~ (store' = store /\ writes' = writes)
    <3>1. /\ writes' = writes + 1
          /\ writes < MaxWrites
          /\ Wrote(key[w], got[w].value \cup {writes'}, got[w].version + 1)
      BY <1>6, <2>2, LimitsAssumption
      DEF compare_and_swap, SwapIf, GiveUp, Wrote, Value
    <3>2. /\ DOMAIN store' \subseteq Keys \ LongKeys
          /\ store' \in [DOMAIN store' -> Versioned]
      BY Zenon, <3>1, InsertLemma
    <3>3. writes' \in 0..MaxWrites
      BY <3>1, LimitsAssumption
    <3>4. /\ pc' = [pc EXCEPT ![w] = "idle"]
          /\ result' = [result EXCEPT ![w] = "Ok"]
          /\ UNCHANGED <<key, got, start, tries>>
      BY <1>6, <2>2 DEF compare_and_swap, SwapIf, GiveUp
    <3> QED BY <3>2, <3>3, <3>4
  <2> QED BY <2>1, <2>2
<1> QED BY <1>1, <1>2, <1>3, <1>4, <1>5, <1>6 DEF Next, Step

(* The two ways a step writes the store. *)
SetWrites(w, k) ==
  /\ \A u \in Workers : SameCall(u)
  /\ k \in Keys \ UpdateKeys
  /\ \E v : Wrote(k, v, IF Present(k) THEN store[k].version + 1 ELSE 0)

SwapWrites(w) ==
  /\ pc[w] = "updater"
  /\ pc'[w] = "idle"
  /\ \A u \in Workers \ {w} : SameCall(u)
  /\ VersionOf(key[w]) = got[w].version
  /\ \E v : Wrote(key[w], v, got[w].version + 1)

(* Every step is one of the two writes or leaves the store alone. *)
LEMMA StepKinds ==
  ASSUME TypeOK, Next
  PROVE  \/ \E w \in Workers, k \in Keys : SetWrites(w, k)
         \/ \E w \in Workers : SwapWrites(w)
         \/ store' = store
<1> USE DEF TypeOK
<1>1. ASSUME NEW w \in Workers, NEW k \in Keys \ UpdateKeys, set(w, k),
             store' # store
      PROVE  SetWrites(w, k)
  <2> DEFINE n == IF Present(k) THEN store[k].version + 1 ELSE 0
  <2>1. n \in Nat
    BY DEF Present, Versioned
  <2>2. Wrote(k, {writes'}, n)
    BY <1>1, <2>1, LimitsAssumption DEF set, SetIf, NextVersion, Wrote, Value
  <2>3. \A u \in Workers : SameCall(u)
    BY <1>1 DEF set, callVars, SameCall
  <2> QED BY <2>2, <2>3 DEF SetWrites
<1>2. ASSUME NEW w \in Workers, compare_and_swap(w), store' # store
      PROVE  SwapWrites(w)
  <2>1. /\ pc[w] = "updater"
        /\ pc' = [pc EXCEPT ![w] = "idle"]
        /\ UNCHANGED <<key, got, start, tries>>
        /\ VersionOf(key[w]) = got[w].version
        /\ writes' = writes + 1
        /\ writes < MaxWrites
        /\ ~ Full(key[w])
        /\ key[w] \notin LongKeys
        /\ Insert(key[w], got[w].value \cup {writes'}, got[w].version + 1)
    BY <1>2 DEF compare_and_swap, SwapIf, GiveUp
  <2>2. Wrote(key[w], got[w].value \cup {writes'}, got[w].version + 1)
    BY <2>1, LimitsAssumption DEF Wrote, Value, Read
  <2>3. \A u \in Workers \ {w} : SameCall(u)
    BY <2>1 DEF SameCall
  <2>4. pc'[w] = "idle"
    BY <2>1
  <2> QED BY <2>1, <2>2, <2>3, <2>4 DEF SwapWrites
<1> QED BY <1>1, <1>2 DEF Next, Step, update, read_for_update, UpdaterFails, SetUnshareable

(* A write is of a version newer than what was there, or creates the key. *)
LEMMA NewerVersions ==
  ASSUME TypeOK, NEW w \in Workers, NEW k \in Keys,
         SetWrites(w, k) \/ (SwapWrites(w) /\ k = key[w])
  PROVE  \E v, n : /\ Wrote(k, v, n)
                   /\ VersionOf(k) <= n
                   /\ Present(k) => VersionOf(k) < n
                   /\ k \in UpdateKeys => n > 0
<1>1. VersionOf(k) \in Nat
  BY DEF TypeOK, Versioned, VersionOf, Present
<1>2. CASE SetWrites(w, k)
  BY <1>1, <1>2 DEF SetWrites, VersionOf
<1>3. CASE SwapWrites(w) /\ k = key[w]
  BY <1>1, <1>3 DEF SwapWrites
<1> QED BY <1>2, <1>3

\* A write keeps UpdatedOnly when it leaves no update key at version 0.
LEMMA WriteKeepsUpdatedOnly ==
  ASSUME TypeOK, UpdatedOnly, NEW k, NEW v, NEW n, Wrote(k, v, n),
         k \in UpdateKeys => n > 0
  PROVE  UpdatedOnly'
<1> SUFFICES ASSUME NEW j \in UpdateKeys, Present(j)'
             PROVE  store'[j].version > 0
  BY DEF UpdatedOnly
<1>1. CASE j = k
  <2>1. store'[k] = [value |-> v, version |-> n]
    BY Zenon, InsertLemma
  <2> QED BY <1>1, <2>1
<1>2. CASE j # k
  <2>1. Present(j) /\ store'[j] = store[j]
    BY Zenon, <1>2, InsertLemma DEF Present
  <2> QED BY <2>1 DEF UpdatedOnly
<1> QED BY <1>1, <1>2

(* Reads in steps that leave the store alone. *)
LEMMA ReadsQuiet ==
  ASSUME TypeOK, Reads, Next, store' = store
  PROVE  Reads'
<1> SUFFICES ASSUME NEW u \in Workers PROVE ReadsOf(u)'
  BY DEF Reads, ReadsOf
<1>0. ReadsOf(u)
  BY DEF Reads, ReadsOf
<1>1. ASSUME NEW w \in Workers, NEW k \in Keys, set(w, k)
      PROVE  SameCall(u)
  BY <1>1 DEF set, callVars, SameCall
<1>2. ASSUME NEW w \in Workers, NEW k \in Keys, update(w, k)
      PROVE  ReadsOf(u)'
  <2>1. CASE u = w
    <3>1. pc'[u] = "read" /\ tries'[u] = 0 /\ start'[u] = VersionOf(k) /\ key'[u] = k
      BY <1>2, <2>1 DEF update, TypeOK
    <3>2. VersionOf(k) \in Nat /\ VersionOf(key[u])' = VersionOf(k)
      BY <3>1 DEF TypeOK, Versioned, VersionOf, Present
    <3> QED BY <3>1, <3>2 DEF ReadsOf
  <2>2. CASE u # w
    BY <1>0, <1>2, <2>2, QuietKeepsReads DEF update, SameCall, TypeOK
  <2> QED BY <2>1, <2>2
<1>3. ASSUME NEW w \in Workers, read_for_update(w)
      PROVE  ReadsOf(u)'
  <2>1. CASE u = w
    <3>1. /\ got'[u] = [value   |-> ValueOf(key[u]),
                        version |-> VersionOf(key[u]),
                        present |-> Present(key[u])]
          /\ pc'[u] = "updater"
          /\ tries[u] + start[u] <= VersionOf(key[u])
          /\ UNCHANGED <<key, tries, start>>
      BY <1>0, <1>3, <2>1 DEF read_for_update, ReadsOf, TypeOK
    <3>2. VersionOf(key[u]) \in Nat
      BY DEF TypeOK, Versioned, VersionOf, Present
    <3>3. /\ got'[u].value = ValueOf(key[u])
          /\ got'[u].version = VersionOf(key[u])
          /\ got'[u].present = Present(key[u])
      BY <3>1
    <3>4. VersionOf(key[u])' = VersionOf(key[u]) /\ Present(key[u])' = Present(key[u])
      BY <3>1 DEF VersionOf, Present
    <3>5. CASE Present(key[u])
      BY <3>1, <3>2, <3>3, <3>4, <3>5 DEF ReadIsCurrent, ReadsOf, VersionOf, ValueOf
    <3>6. CASE ~ Present(key[u])
      BY <3>1, <3>2, <3>3, <3>4, <3>6 DEF ReadIsCurrent, ReadsOf, VersionOf, ValueOf
    <3> QED BY <3>5, <3>6
  <2>2. CASE u # w
    BY <1>0, <1>3, <2>2, QuietKeepsReads DEF read_for_update, SameCall, TypeOK
  <2> QED BY <2>1, <2>2
<1>4. ASSUME NEW w \in Workers, UpdaterFails(w)
      PROVE  ReadsOf(u)'
  <2>1. CASE u = w
    BY <1>4, <2>1 DEF UpdaterFails, ReadsOf, TypeOK
  <2>2. CASE u # w
    BY <1>0, <1>4, <2>2, QuietKeepsReads DEF UpdaterFails, SameCall, TypeOK
  <2> QED BY <2>1, <2>2
<1>5. ASSUME NEW w \in Workers, SetUnshareable(w)
      PROVE  ReadsOf(u)'
  BY <1>0, <1>5, QuietKeepsReads DEF SetUnshareable, callVars, SameCall, TypeOK
<1>6. ASSUME NEW w \in Workers, compare_and_swap(w)
      PROVE  ReadsOf(u)'
  <2>1. /\ pc[w] = "updater"
        /\ UNCHANGED <<key, got, start>>
        /\ \/ /\ pc' = [pc EXCEPT ![w] = "idle"]
              /\ \/ tries' = tries
                 \/ tries' = [tries EXCEPT ![w] = @ + 1]
           \/ /\ pc' = [pc EXCEPT ![w] = "read"]
              /\ tries' = [tries EXCEPT ![w] = @ + 1]
              /\ ~ (VersionOf(key[w]) = got[w].version)
    BY <1>6 DEF compare_and_swap, SwapIf, GiveUp
  <2>2. CASE u # w
    BY <1>0, <2>1, <2>2, QuietKeepsReads DEF SameCall, TypeOK
  <2>3. CASE u = w /\ pc'[u] = "idle"
    BY <2>3 DEF ReadsOf
  <2>4. CASE u = w /\ pc'[u] # "idle"
    <3>1. pc'[u] = "read" /\ tries'[u] = tries[u] + 1 /\ VersionOf(key[u]) # got[u].version
      BY <2>1, <2>4 DEF TypeOK
    <3>2. /\ VersionOf(key[u]) \in Nat
          /\ got[u].version \in Nat
          /\ tries[u] \in Nat
          /\ start[u] \in Nat
      BY DEF TypeOK, Versioned, Read, VersionOf, Present
    <3>3. /\ tries[u] + start[u] <= got[u].version
          /\ got[u].version <= VersionOf(key[u])
      BY <1>0, <2>1, <2>4 DEF ReadsOf, ReadIsCurrent
    <3>4. tries'[u] + start[u] <= VersionOf(key[u])
      BY <3>1, <3>2, <3>3
    <3>5. VersionOf(key[u])' = VersionOf(key[u])
      BY <2>1 DEF VersionOf, Present
    <3> QED BY <2>1, <3>1, <3>4, <3>5 DEF ReadsOf
  <2> QED BY <2>2, <2>3, <2>4
<1> QED BY <1>0, <1>1, <1>2, <1>3, <1>4, <1>5, <1>6, QuietKeepsReads DEF Next, Step

-----------------------------------------------------------------------------
(* The inductive invariant holds initially and every step keeps it. *)
THEOREM Inductive == Spec => []IInv
<1>1. Init => IInv
  <2> SUFFICES ASSUME Init PROVE IInv
    OBVIOUS
  <2>1. DOMAIN store = {}
    BY DEF Init
  <2>2. TypeOK
    BY <2>1, LimitsAssumption
    DEF Init, TypeOK, Versioned, Read, Value, Nil, SharedStateError
  <2>3. Reads /\ UpdatedOnly
    BY <2>1 DEF Init, Reads, UpdatedOnly, Present
  <2>4. Bounded
    BY <2>1, FS_EmptySet, LimitsAssumption DEF Bounded, StoreIsBounded
  <2> QED BY <2>2, <2>3, <2>4 DEF IInv
<1>2. IInv /\ [Next]_vars => IInv'
  <2> SUFFICES ASSUME IInv, [Next]_vars PROVE IInv'
    OBVIOUS
  <2> USE DEF IInv
  <2>1. CASE Next /\ store' = store
    BY <2>1, TypeStep, ReadsQuiet, QuietStep
  <2>2. ASSUME Next, NEW w \in Workers, NEW k \in Keys, SetWrites(w, k)
        PROVE  IInv'
    <3>1. PICK v, n : /\ Wrote(k, v, n)
                      /\ VersionOf(k) <= n
                      /\ Present(k) => VersionOf(k) < n
                      /\ k \in UpdateKeys => n > 0
      BY <2>2, NewerVersions
    <3>2. ASSUME NEW u \in Workers PROVE ReadsOf(u)'
      BY <2>2, <3>1, WriteKeepsReads DEF SetWrites, Reads, ReadsOf
    <3>3. UpdatedOnly' /\ Bounded'
      BY <3>1, WriteKeepsUpdatedOnly, InsertBounded
    <3> QED BY <2>2, <3>2, <3>3, TypeStep DEF Reads, ReadsOf
  <2>3. ASSUME Next, NEW w \in Workers, SwapWrites(w)
        PROVE  IInv'
    <3>0. key[w] \in Keys
      BY DEF TypeOK
    <3>1. PICK v, n : /\ Wrote(key[w], v, n)
                      /\ VersionOf(key[w]) <= n
                      /\ Present(key[w]) => VersionOf(key[w]) < n
                      /\ key[w] \in UpdateKeys => n > 0
      BY <2>3, <3>0, NewerVersions
    <3>2. ASSUME NEW u \in Workers PROVE ReadsOf(u)'
      <4>1. CASE u = w
        BY <2>3, <4>1 DEF SwapWrites, ReadsOf
      <4>2. CASE u # w
        <5>1. SameCall(u) /\ ReadsOf(u)
          BY <2>3, <4>2 DEF SwapWrites, Reads, ReadsOf
        <5> QED BY <3>1, <5>1, WriteKeepsReads
      <4> QED BY <4>1, <4>2
    <3>3. UpdatedOnly' /\ Bounded'
      BY <3>1, WriteKeepsUpdatedOnly, InsertBounded
    <3> QED BY <2>3, <3>2, <3>3, TypeStep DEF Reads, ReadsOf
  <2>4. CASE UNCHANGED vars
    BY <2>4 DEF vars, TypeOK, Reads, ReadIsCurrent, UpdatedOnly, Bounded,
                StoreIsBounded, Present, VersionOf
  <2> QED BY <2>1, <2>2, <2>3, <2>4, StepKinds
<1> QED BY <1>1, <1>2, PTL DEF Spec

(* The types of SharedState, key lengths included, for every script. *)
THEOREM TypeCorrect == Spec => []TypeOK
<1>1. IInv => TypeOK
  BY DEF IInv
<1> QED BY <1>1, Inductive, PTL

(* The store never holds more than MAX_STORE_KEYS keys. *)
THEOREM BoundedStore == Spec => []StoreIsBounded
<1>1. IInv => StoreIsBounded
  BY DEF IInv, Bounded
<1> QED BY <1>1, Inductive, PTL

(* An update fails its swap at most once per write of another call. *)
THEOREM ContentionIsReal == Spec => []FailuresAreOthersWrites
<1>1. IInv => FailuresAreOthersWrites
  <2> SUFFICES ASSUME IInv, NEW w \in Workers, pc[w] # "idle"
               PROVE  tries[w] + start[w] <= VersionOf(key[w])
    BY DEF FailuresAreOthersWrites
  <2>1. CASE pc[w] = "read"
    BY <2>1 DEF IInv, Reads
  <2>2. CASE pc[w] = "updater"
    <3>1. /\ tries[w] + start[w] <= got[w].version
          /\ got[w].version <= VersionOf(key[w])
      BY <2>2 DEF IInv, Reads, ReadIsCurrent
    <3>2. /\ tries[w] \in Nat
          /\ start[w] \in Nat
          /\ got[w].version \in Nat
          /\ VersionOf(key[w]) \in Nat
      BY DEF IInv, TypeOK, Read, Versioned, VersionOf, Present
    <3> QED BY <3>1, <3>2
  <2> QED BY <2>1, <2>2 DEF IInv, TypeOK
<1> QED BY <1>1, Inductive, PTL

(* No write is lost to an update of a key that was present when it was     *)
(* read, or that is never written with set.                                *)
THEOREM AtomicUpdates == Spec => UpdatesAreAtomic
<1>1. IInv /\ [Next]_vars =>
        [\A w \in Workers :
           Swaps(w) /\ (got[w].present \/ key[w] \in UpdateKeys)
             => ValueOf(key[w]) = got[w].value]_vars
  <2> SUFFICES ASSUME IInv, Next, NEW w \in Workers, Swaps(w),
                      got[w].present \/ key[w] \in UpdateKeys
               PROVE  ValueOf(key[w]) = got[w].value
    OBVIOUS
  <2>1. ASSUME NEW u \in Workers, NEW k \in Keys, SetWrites(u, k)
        PROVE  FALSE
    BY <2>1 DEF SetWrites, SameCall, Swaps
  <2>2. ASSUME NEW u \in Workers, SwapWrites(u)
        PROVE  u = w
    BY <2>2 DEF SwapWrites, SameCall, Swaps
  <2>3. SwapWrites(w)
    BY <2>1, <2>2, StepKinds DEF IInv, Swaps
  <2>4. VersionOf(key[w]) = got[w].version /\ ReadIsCurrent(w)
    BY <2>3 DEF SwapWrites, IInv, Reads
  <2>5. CASE got[w].present
    BY <2>4, <2>5 DEF ReadIsCurrent, VersionOf, ValueOf
  <2>6. CASE ~ got[w].present
    <3>1. got[w].version = 0 /\ got[w].value = Nil /\ key[w] \in UpdateKeys
      BY <2>4, <2>6 DEF ReadIsCurrent
    <3>2. ~ Present(key[w])
      BY <2>4, <3>1 DEF IInv, UpdatedOnly, VersionOf
    <3> QED BY <3>1, <3>2 DEF ValueOf
  <2> QED BY <2>5, <2>6
<1> QED BY <1>1, Inductive, PTL DEF Spec, UpdatesAreAtomic

(* Keys stay and versions only grow. *)
THEOREM MonotoneVersions == Spec => VersionsOnlyGrow
<1>1. IInv /\ [Next]_vars =>
        [\A k \in DOMAIN store :
           k \in DOMAIN store' /\ store[k].version <= store'[k].version]_vars
  <2> SUFFICES ASSUME IInv, Next, NEW j \in DOMAIN store
               PROVE  j \in DOMAIN store' /\ store[j].version <= store'[j].version
    OBVIOUS
  <2>0. store[j].version \in Nat /\ VersionOf(j) = store[j].version /\ Present(j)
    BY DEF IInv, TypeOK, Versioned, VersionOf, Present
  <2>1. ASSUME NEW k, NEW v, NEW n, Wrote(k, v, n), Present(k) => VersionOf(k) < n
        PROVE  j \in DOMAIN store' /\ store[j].version <= store'[j].version
    <3>1. /\ j \in DOMAIN store'
          /\ store'[k] = [value |-> v, version |-> n]
          /\ j # k => store'[j] = store[j]
      BY Zenon, <2>1, InsertLemma DEF IInv
    <3>2. n \in Nat
      BY <2>1 DEF Wrote
    <3> QED BY <2>0, <2>1, <3>1, <3>2
  <2>2. ASSUME NEW w \in Workers, NEW k \in Keys,
               SetWrites(w, k) \/ (SwapWrites(w) /\ k = key[w])
        PROVE  j \in DOMAIN store' /\ store[j].version <= store'[j].version
    BY <2>1, <2>2, NewerVersions DEF IInv
  <2>3. \A w \in Workers : key[w] \in Keys
    BY DEF IInv, TypeOK
  <2>4. CASE store' = store
    BY <2>0, <2>4
  <2> QED BY <2>2, <2>3, <2>4, StepKinds DEF IInv
<1> QED BY <1>1, Inductive, PTL DEF Spec, VersionsOnlyGrow

-----------------------------------------------------------------------------
(***************************************************************************)
(* The queue.  Its invariant, QueueInv, says lane by lane what the lanes,  *)
(* the history of pushes and what was delivered have to do with each other. *)
(***************************************************************************)

QueueType ==
  /\ q = [high |-> q.high, order |-> q.order, slots |-> q.slots, low |-> q.low,
          lostHigh |-> q.lostHigh, lostLow |-> q.lostLow]
  /\ q.high \in Seq(Envelope) /\ q.low \in Seq(Envelope)
  /\ q.order \in Seq(Bots \X Names)
  /\ q.slots = [k \in DOMAIN q.slots |-> q.slots[k]]
  /\ DOMAIN q.slots \subseteq Bots \X Names
  /\ \A k \in DOMAIN q.slots : q.slots[k] \in Envelope

TypeInv ==
  /\ QueueType
  /\ pushes \in Seq(Envelope) /\ delivered \in Seq(Envelope)
  /\ \A n \in 1..Len(pushes) : pushes[n].id = n
  /\ refused \subseteq 1..Len(pushes) /\ IsFiniteSet(refused)
  /\ \A n \in refused : pushes[n].lane = "High"
  /\ q.lostHigh = Cardinality(refused)

\* An envelope that push accepted, as it was pushed.
IsPush(e, ps, no) == e.id \in 1..Len(ps) \ no /\ e = ps[e.id]

\* The lanes hold what belongs to them, and order lists the keys of the slots.
LaneInv ==
  /\ \A i \in 1..Len(delivered) : IsPush(delivered[i], pushes, refused)
  /\ \A i \in 1..Len(q.high) : IsPush(q.high[i], pushes, refused) /\ q.high[i].lane = "High"
  /\ \A i \in 1..Len(q.low) : IsPush(q.low[i], pushes, refused) /\ q.low[i].lane = "Low"
  /\ \A k \in DOMAIN q.slots :
       /\ IsPush(q.slots[k], pushes, refused) /\ q.slots[k].lane = "Coalescible"
       /\ Key(q.slots[k]) = k /\ IsLatest(q.slots[k].id, Sent(pushes, k))
  /\ \A i \in 1..Len(q.order) : q.order[i] \in DOMAIN q.slots
  /\ \A i, j \in 1..Len(q.order) : q.order[i] = q.order[j] => i = j
  /\ \A k \in DOMAIN q.slots : \E i \in 1..Len(q.order) : q.order[i] = k

\* Each lane is in order, and what waits is newer than what was delivered.
OrderInv ==
  /\ DeliveredInOrder
  /\ \A i, j \in 1..Len(q.high) : i < j => q.high[i].id < q.high[j].id
  /\ \A i, j \in 1..Len(q.low) : i < j => q.low[i].id < q.low[j].id
  /\ \A i \in 1..Len(delivered) :
       /\ delivered[i].lane = "High" =>
            \A j \in 1..Len(q.high) : delivered[i].id < q.high[j].id
       /\ delivered[i].lane = "Low" =>
            \A j \in 1..Len(q.low) : delivered[i].id < q.low[j].id
       /\ delivered[i].lane = "Coalescible" =>
            \A k \in DOMAIN q.slots :
              Key(delivered[i]) = k => delivered[i].id < q.slots[k].id

\* Nothing critical that was accepted, and no latest state, is missing.
CompleteInv ==
  /\ \A n \in 1..Len(pushes) \ refused :
       pushes[n].lane = "High" =>
         \/ \E i \in 1..Len(delivered) : delivered[i] = pushes[n]
         \/ \E i \in 1..Len(q.high) : q.high[i] = pushes[n]
  /\ \A k \in Bots \X Names : \A n \in Sent(pushes, k) :
       k \notin DOMAIN q.slots /\ IsLatest(n, Sent(pushes, k)) =>
         \E i \in 1..Len(delivered) : delivered[i] = pushes[n]

QueueInv == TypeInv /\ LaneInv /\ OrderInv /\ CompleteInv

\* The invariant holds of the empty queue.
LEMMA InitInv == QueueInit => QueueInv
<1> SUFFICES ASSUME QueueInit PROVE QueueInv
  OBVIOUS
<1> USE DEF QueueInit, EmptyQueue
<1>1. /\ q.high = <<>> /\ q.order = <<>> /\ q.low = <<>> /\ q.lostHigh = 0
      /\ DOMAIN q.slots = {} /\ q.slots = [k \in {} |-> 0]
  OBVIOUS
<1>2. TypeInv
  BY <1>1, FS_EmptySet DEF TypeInv, QueueType
<1>3. LaneInv /\ OrderInv
  BY <1>1 DEF LaneInv, OrderInv, DeliveredInOrder
<1>4. CompleteInv
  BY <1>1 DEF CompleteInv, Sent
<1> QED BY <1>2, <1>3, <1>4 DEF QueueInv

-----------------------------------------------------------------------------
(* push.                                                                   *)

\* What Push does with an envelope of its own.
PushOf(e) ==
  /\ e.id = Len(pushes) + 1
  /\ q' = push(q, e).queue
  /\ pushes' = Append(pushes, e)
  /\ refused' = IF push(q, e).outcome = "CriticalOverflow"
                THEN refused \cup {e.id} ELSE refused
  /\ delivered' = delivered

\* What a push leaves of the history, whatever the lane.
LEMMA PushedHistory ==
  ASSUME QueueInv, NEW e \in Envelope, PushOf(e)
  PROVE  /\ e.id = Len(pushes) + 1 /\ delivered' = delivered
         /\ refused \subseteq refused' /\ refused' \subseteq refused \cup {e.id}
         /\ pushes' \in Seq(Envelope) /\ Len(pushes') = Len(pushes) + 1
         /\ Len(pushes) \in Nat /\ pushes'[Len(pushes) + 1] = e
         /\ \A n \in 1..Len(pushes) : pushes'[n] = pushes[n]
         /\ \A n \in 1..Len(pushes') : pushes'[n].id = n
         /\ \A f \in Envelope : IsPush(f, pushes, refused) => IsPush(f, pushes', refused') /\ f.id < e.id
         /\ e.id \notin refused' => IsPush(e, pushes', refused')
         /\ \A k \in Bots \X Names :
              Sent(pushes', k) = IF e.lane = "Coalescible" /\ Key(e) = k
                         THEN Sent(pushes, k) \cup {e.id} ELSE Sent(pushes, k)
<1> USE DEF QueueInv, TypeInv, PushOf
<1>0. /\ e.id = Len(pushes) + 1 /\ delivered' = delivered
      /\ refused \subseteq refused' /\ refused' \subseteq refused \cup {e.id}
  OBVIOUS
<1>1. /\ pushes' \in Seq(Envelope) /\ Len(pushes') = Len(pushes) + 1
      /\ Len(pushes) \in Nat /\ pushes'[Len(pushes) + 1] = e
      /\ \A n \in 1..Len(pushes) : pushes'[n] = pushes[n]
  OBVIOUS
<1>2. 1..Len(pushes') = 1..Len(pushes) \cup {e.id}
  BY <1>1
<1>3. \A n \in 1..Len(pushes') : pushes'[n].id = n
  BY <1>1, <1>2
<1>4. ASSUME NEW f \in Envelope, IsPush(f, pushes, refused)
      PROVE  IsPush(f, pushes', refused') /\ f.id < e.id
  BY <1>1, <1>2, <1>4 DEF IsPush
<1>5. e.id \notin refused' => IsPush(e, pushes', refused')
  BY <1>1, <1>2 DEF IsPush
<1>6. ASSUME NEW k \in Bots \X Names
      PROVE  Sent(pushes', k) = IF e.lane = "Coalescible" /\ Key(e) = k
                        THEN Sent(pushes, k) \cup {e.id} ELSE Sent(pushes, k)
  BY <1>1, <1>2 DEF Sent
<1> QED BY Zenon, <1>0, <1>1, <1>3, <1>4, <1>5, <1>6

\* A push into the high lane keeps the invariant, whichever path it takes.
LEMMA PushHighInv ==
  ASSUME QueueInv, NEW e \in Envelope, e.lane = "High", PushOf(e)
  PROVE  QueueInv'
<1> DEFINE full == Len(q.high) >= HighCapacity
<1>0. /\ refused' = IF full THEN refused \cup {e.id} ELSE refused
      /\ q' = IF full THEN [q EXCEPT !.lostHigh = @ + 1]
                      ELSE [q EXCEPT !.high = Append(@, e)]
  BY DEF PushOf, push, push_High, Pushed
<1>1. /\ q'.high = IF full THEN q.high ELSE Append(q.high, e)
      /\ q'.lostHigh = IF full THEN q.lostHigh + 1 ELSE q.lostHigh
      /\ q'.order = q.order /\ q'.slots = q.slots /\ q'.low = q.low
  <2>1. q = [high |-> q.high, order |-> q.order, slots |-> q.slots, low |-> q.low,
             lostHigh |-> q.lostHigh, lostLow |-> q.lostLow]
    BY DEF QueueInv, TypeInv, QueueType
  <2> QED BY <1>0, <2>1
<1>10. q' = [high |-> q'.high, order |-> q'.order, slots |-> q'.slots, low |-> q'.low,
            lostHigh |-> q'.lostHigh, lostLow |-> q'.lostLow]
  <2>1. q = [high |-> q.high, order |-> q.order, slots |-> q.slots, low |-> q.low,
             lostHigh |-> q.lostHigh, lostLow |-> q.lostLow]
    BY DEF QueueInv, TypeInv, QueueType
  <2> QED BY Zenon, <1>0, <2>1
<1> HIDE DEF full
<1>2. /\ e.id = Len(pushes) + 1 /\ delivered' = delivered
      /\ refused \subseteq refused' /\ refused' \subseteq refused \cup {e.id}
      /\ pushes' \in Seq(Envelope) /\ Len(pushes') = Len(pushes) + 1
      /\ Len(pushes) \in Nat /\ pushes'[Len(pushes) + 1] = e
      /\ \A n \in 1..Len(pushes) : pushes'[n] = pushes[n]
      /\ \A n \in 1..Len(pushes') : pushes'[n].id = n
      /\ \A f \in Envelope : IsPush(f, pushes, refused) => IsPush(f, pushes', refused') /\ f.id < e.id
      /\ e.id \notin refused' => IsPush(e, pushes', refused')
  BY Zenon, PushedHistory
<1>3. \A k \in Bots \X Names : Sent(pushes', k) = Sent(pushes, k)
  BY PushedHistory
<1>4. /\ q.high \in Seq(Envelope) /\ q'.high \in Seq(Envelope)
      /\ \A i \in 1..Len(q.high) : q.high[i] \in Envelope
      /\ \A i \in 1..Len(q.low) : q.low[i] \in Envelope
      /\ \A i \in 1..Len(delivered) : delivered[i] \in Envelope
      /\ \A i \in 1..Len(q'.high) :
           \/ i \in 1..Len(q.high) /\ q'.high[i] = q.high[i]
           \/ ~full /\ i = Len(q.high) + 1 /\ q'.high[i] = e
      /\ \A i \in 1..Len(q.high) : i \in 1..Len(q'.high) /\ q'.high[i] = q.high[i]
      /\ Len(q.high) \in Nat
      /\ ~full => Len(q.high) + 1 \in 1..Len(q'.high) /\ q'.high[Len(q.high) + 1] = e
  BY <1>1 DEF QueueInv, TypeInv, QueueType
<1>5. e.id \notin refused /\ (full <=> e.id \in refused')
  BY <1>0, <1>2 DEF QueueInv, TypeInv
<1>6. TypeInv'
  <2>1. QueueType'
    BY <1>1, <1>4, <1>10 DEF QueueInv, TypeInv, QueueType
  <2>2. /\ IsFiniteSet(refused') /\ q'.lostHigh = Cardinality(refused')
    <3>1. q.lostHigh = Cardinality(refused) /\ IsFiniteSet(refused)
      BY DEF QueueInv, TypeInv
    <3>2. full => /\ IsFiniteSet(refused \cup {e.id})
                  /\ Cardinality(refused \cup {e.id}) = Cardinality(refused) + 1
      BY <1>5, <3>1, FS_AddElement
    <3> QED BY <1>0, <1>1, <3>1, <3>2
  <2>3. refused' \subseteq 1..Len(pushes') /\ \A n \in refused' : pushes'[n].lane = "High"
    BY <1>0, <1>2 DEF QueueInv, TypeInv
  <2> QED BY <1>2, <2>1, <2>2, <2>3 DEF QueueInv, TypeInv
<1>7. LaneInv'
  <2>1. \A i \in 1..Len(delivered) : IsPush(delivered[i], pushes', refused')
    BY <1>2, <1>4 DEF QueueInv, LaneInv
  <2>2. ASSUME NEW i \in 1..Len(q'.high)
        PROVE  IsPush(q'.high[i], pushes', refused') /\ q'.high[i].lane = "High"
    <3>1. CASE i \in 1..Len(q.high) /\ q'.high[i] = q.high[i]
      <4>1. /\ q.high[i] \in Envelope /\ IsPush(q.high[i], pushes, refused)
            /\ q.high[i].lane = "High"
        BY Zenon, <1>4, <3>1 DEF QueueInv, LaneInv
      <4> QED BY Zenon, <1>2, <3>1, <4>1
    <3>2. CASE ~full /\ i = Len(q.high) + 1 /\ q'.high[i] = e
      BY Zenon, <1>2, <1>5, <3>2
    <3> QED BY <1>4, <3>1, <3>2
  <2>3. \A i \in 1..Len(q.low) : IsPush(q.low[i], pushes', refused') /\ q.low[i].lane = "Low"
    BY <1>2, <1>4 DEF QueueInv, LaneInv
  <2>4. \A k \in DOMAIN q.slots :
          /\ IsPush(q.slots[k], pushes', refused') /\ q.slots[k].lane = "Coalescible"
          /\ Key(q.slots[k]) = k /\ IsLatest(q.slots[k].id, Sent(pushes', k))
    BY <1>2, <1>3 DEF QueueInv, LaneInv, TypeInv, QueueType
  <2>5. /\ \A i \in 1..Len(q.order) : q.order[i] \in DOMAIN q.slots
        /\ \A i, j \in 1..Len(q.order) : q.order[i] = q.order[j] => i = j
        /\ \A k \in DOMAIN q.slots : \E i \in 1..Len(q.order) : q.order[i] = k
    BY DEF QueueInv, LaneInv
  <2> QED BY <1>1, <1>2, <2>1, <2>2, <2>3, <2>4, <2>5 DEF LaneInv
<1>8. OrderInv'
  <2>0. \A i \in 1..Len(q.high) : q.high[i].id < e.id
    BY Zenon, <1>2, <1>4 DEF QueueInv, LaneInv
  <2>1. ASSUME NEW i \in 1..Len(q'.high), NEW j \in 1..Len(q'.high), i < j
        PROVE  q'.high[i].id < q'.high[j].id
    <3>1. i \in 1..Len(q.high) /\ q'.high[i] = q.high[i]
      BY <1>4, <2>1
    <3>2. CASE j \in 1..Len(q.high) /\ q'.high[j] = q.high[j]
      <4>1. i < j
        BY <1>4, <2>1
      <4> QED BY <3>1, <3>2, <4>1 DEF QueueInv, OrderInv
    <3>3. CASE q'.high[j] = e
      BY <2>0, <3>1, <3>3
    <3> QED BY <1>4, <3>2, <3>3
  <2>2. \A i \in 1..Len(delivered) :
          delivered[i].lane = "High" =>
            \A j \in 1..Len(q'.high) : delivered[i].id < q'.high[j].id
    BY Zenon, <1>2, <1>4 DEF QueueInv, OrderInv, LaneInv
  <2> QED BY Zenon, <1>1, <1>2, <2>1, <2>2 DEF QueueInv, OrderInv, DeliveredInOrder
<1>9. CompleteInv'
  <2>1. ASSUME NEW n \in 1..Len(pushes') \ refused', pushes'[n].lane = "High"
        PROVE  \/ \E i \in 1..Len(delivered) : delivered[i] = pushes'[n]
               \/ \E i \in 1..Len(q'.high) : q'.high[i] = pushes'[n]
    <3>1. CASE n = Len(pushes) + 1
      BY <1>2, <1>4, <1>5, <2>1, <3>1
    <3>2. CASE n \in 1..Len(pushes)
      BY <1>0, <1>2, <1>4, <2>1, <3>2 DEF QueueInv, CompleteInv
    <3> QED BY <1>2, <3>1, <3>2
  <2>2. \A k \in Bots \X Names : \A n \in Sent(pushes', k) :
          k \notin DOMAIN q.slots /\ IsLatest(n, Sent(pushes', k)) =>
            \E i \in 1..Len(delivered) : delivered[i] = pushes'[n]
    BY <1>2, <1>3 DEF QueueInv, CompleteInv, Sent
  <2> QED BY <1>1, <1>2, <2>1, <2>2 DEF CompleteInv
<1> QED BY <1>6, <1>7, <1>8, <1>9 DEF QueueInv

\* A push into the low lane keeps the invariant, whichever path it takes.
LEMMA PushLowInv ==
  ASSUME QueueInv, NEW e \in Envelope, e.lane = "Low", PushOf(e)
  PROVE  QueueInv'
<1> DEFINE full == Len(q.low) >= LowCapacity
           shift == IF full THEN 1 ELSE 0
<1>1. /\ q'.low = IF full THEN Append(Tail(q.low), e) ELSE Append(q.low, e)
      /\ q'.order = q.order /\ q'.slots = q.slots /\ q'.high = q.high
      /\ q'.lostHigh = q.lostHigh
  <2>1. q = [high |-> q.high, order |-> q.order, slots |-> q.slots, low |-> q.low,
             lostHigh |-> q.lostHigh, lostLow |-> q.lostLow]
    BY DEF QueueInv, TypeInv, QueueType
  <2>2. q' = IF full THEN [q EXCEPT !.low = Append(Tail(@), e), !.lostLow = @ + 1]
                     ELSE [q EXCEPT !.low = Append(@, e)]
    BY DEF PushOf, push, push_Low, Pushed
  <2> QED BY <2>1, <2>2
<1>10. q' = [high |-> q'.high, order |-> q'.order, slots |-> q'.slots, low |-> q'.low,
            lostHigh |-> q'.lostHigh, lostLow |-> q'.lostLow]
  <2>1. q = [high |-> q.high, order |-> q.order, slots |-> q.slots, low |-> q.low,
             lostHigh |-> q.lostHigh, lostLow |-> q.lostLow]
    BY DEF QueueInv, TypeInv, QueueType
  <2>2. q' = IF full THEN [q EXCEPT !.low = Append(Tail(@), e), !.lostLow = @ + 1]
                     ELSE [q EXCEPT !.low = Append(@, e)]
    BY DEF PushOf, push, push_Low, Pushed
  <2> QED BY Zenon, <2>1, <2>2
<1>2. /\ e.id = Len(pushes) + 1 /\ delivered' = delivered
      /\ refused \subseteq refused' /\ refused' \subseteq refused \cup {e.id}
      /\ pushes' \in Seq(Envelope) /\ Len(pushes') = Len(pushes) + 1
      /\ Len(pushes) \in Nat /\ pushes'[Len(pushes) + 1] = e
      /\ \A n \in 1..Len(pushes) : pushes'[n] = pushes[n]
      /\ \A n \in 1..Len(pushes') : pushes'[n].id = n
      /\ \A f \in Envelope : IsPush(f, pushes, refused) => IsPush(f, pushes', refused') /\ f.id < e.id
      /\ e.id \notin refused' => IsPush(e, pushes', refused')
  BY Zenon, PushedHistory
<1>3. \A k \in Bots \X Names : Sent(pushes', k) = Sent(pushes, k)
  BY PushedHistory
<1>4. /\ q.low \in Seq(Envelope) /\ q'.low \in Seq(Envelope)
      /\ \A i \in 1..Len(q.high) : q.high[i] \in Envelope
      /\ \A i \in 1..Len(q.low) : q.low[i] \in Envelope
      /\ \A i \in 1..Len(delivered) : delivered[i] \in Envelope
      /\ \A i \in 1..Len(q'.low) :
           \/ i + shift \in 1..Len(q.low) /\ q'.low[i] = q.low[i + shift]
           \/ i = Len(q'.low) /\ q'.low[i] = e
      /\ shift \in Nat
  <2>1. q.low \in Seq(Envelope) /\ Len(q.low) \in Nat /\ delivered \in Seq(Envelope)
        /\ q.high \in Seq(Envelope)
    BY DEF QueueInv, TypeInv, QueueType
  <2>2. CASE full
    <3>1. q.low # <<>>
      BY <2>1, <2>2, CapacityAssumption
    <3>2. /\ Tail(q.low) \in Seq(Envelope) /\ Len(Tail(q.low)) = Len(q.low) - 1
          /\ \A i \in 1..Len(Tail(q.low)) : Tail(q.low)[i] = q.low[i + 1]
      BY <2>1, <3>1
    <3>3. /\ q'.low \in Seq(Envelope) /\ Len(q'.low) = Len(q.low)
          /\ q'.low[Len(q.low)] = e
          /\ \A i \in 1..(Len(q.low) - 1) : q'.low[i] = Tail(q.low)[i]
      BY <1>1, <2>1, <2>2, <3>2
    <3> QED BY <2>1, <2>2, <3>2, <3>3
  <2>3. CASE ~full
    <3>1. /\ q'.low \in Seq(Envelope) /\ Len(q'.low) = Len(q.low) + 1
          /\ q'.low[Len(q.low) + 1] = e
          /\ \A i \in 1..Len(q.low) : q'.low[i] = q.low[i]
      BY <1>1, <2>1, <2>3
    <3> QED BY <2>1, <2>3, <3>1
  <2> QED BY <2>2, <2>3
<1> HIDE DEF full, shift
<1>5. e.id \notin refused' /\ refused' = refused
  <2>1. refused' = refused
    BY DEF PushOf, push, push_Low, Pushed
  <2> QED BY <1>2, <2>1 DEF QueueInv, TypeInv
<1>6. TypeInv'
  <2>1. QueueType'
    BY Zenon, <1>1, <1>4, <1>10 DEF QueueInv, TypeInv, QueueType
  <2>2. refused' \subseteq 1..Len(pushes') /\ \A n \in refused' : pushes'[n].lane = "High"
    <3>1. refused \subseteq 1..Len(pushes) /\ \A n \in refused : pushes[n].lane = "High"
      BY Zenon DEF QueueInv, TypeInv
    <3>2. \A n \in 1..Len(pushes) : n \in 1..Len(pushes')
      <4>1. Len(pushes) \in Nat /\ Len(pushes') = Len(pushes) + 1
        BY Zenon, <1>2
      <4> QED BY <4>1
    <3>3. \A n \in 1..Len(pushes) : pushes'[n] = pushes[n]
      BY Zenon, <1>2
    <3> QED BY Zenon, <1>5, <3>1, <3>2, <3>3
  <2> QED BY <1>1, <1>2, <1>5, <2>1, <2>2 DEF QueueInv, TypeInv
<1>7. LaneInv'
  <2>1. \A i \in 1..Len(delivered) : IsPush(delivered[i], pushes', refused')
    BY Zenon, <1>2, <1>4 DEF QueueInv, LaneInv
  <2>2. \A i \in 1..Len(q.high) : IsPush(q.high[i], pushes', refused') /\ q.high[i].lane = "High"
    BY Zenon, <1>2, <1>4 DEF QueueInv, LaneInv
  <2>3. ASSUME NEW i \in 1..Len(q'.low)
        PROVE  IsPush(q'.low[i], pushes', refused') /\ q'.low[i].lane = "Low"
    <3>1. CASE i + shift \in 1..Len(q.low) /\ q'.low[i] = q.low[i + shift]
      <4>1. /\ q.low[i + shift] \in Envelope /\ IsPush(q.low[i + shift], pushes, refused)
            /\ q.low[i + shift].lane = "Low"
        BY <1>4, <3>1 DEF QueueInv, LaneInv
      <4> QED BY Zenon, <1>2, <3>1, <4>1
    <3>2. CASE i = Len(q'.low) /\ q'.low[i] = e
      BY <1>2, <1>5, <3>2
    <3> QED BY <1>4, <3>1, <3>2
  <2>4. \A k \in DOMAIN q.slots :
          /\ IsPush(q.slots[k], pushes', refused') /\ q.slots[k].lane = "Coalescible"
          /\ Key(q.slots[k]) = k /\ IsLatest(q.slots[k].id, Sent(pushes', k))
    BY <1>2, <1>3 DEF QueueInv, LaneInv, TypeInv, QueueType
  <2>5. /\ \A i \in 1..Len(q.order) : q.order[i] \in DOMAIN q.slots
        /\ \A i, j \in 1..Len(q.order) : q.order[i] = q.order[j] => i = j
        /\ \A k \in DOMAIN q.slots : \E i \in 1..Len(q.order) : q.order[i] = k
    BY DEF QueueInv, LaneInv
  <2>6. /\ q'.high = q.high /\ q'.slots = q.slots /\ q'.order = q.order
        /\ delivered' = delivered
    BY Zenon, <1>1, <1>2
  <2>7. \A k \in DOMAIN q'.slots :
          /\ IsPush(q'.slots[k], pushes', refused') /\ q'.slots[k].lane = "Coalescible"
          /\ Key(q'.slots[k]) = k /\ IsLatest(q'.slots[k].id, Sent(pushes', k))
    BY Zenon, <2>4, <2>6
  <2>8. /\ \A i \in 1..Len(q'.order) : q'.order[i] \in DOMAIN q'.slots
        /\ \A i, j \in 1..Len(q'.order) : q'.order[i] = q'.order[j] => i = j
        /\ \A k \in DOMAIN q'.slots : \E i \in 1..Len(q'.order) : q'.order[i] = k
    BY Zenon, <2>5, <2>6
  <2>9. /\ \A i \in 1..Len(delivered') : IsPush(delivered'[i], pushes', refused')
        /\ \A i \in 1..Len(q'.high) : /\ IsPush(q'.high[i], pushes', refused')
                                     /\ q'.high[i].lane = "High"
    BY Zenon, <2>1, <2>2, <2>6
  <2> QED BY Zenon, <2>3, <2>7, <2>8, <2>9 DEF LaneInv
<1>8. OrderInv'
  <2>0. \A i \in 1..Len(q.low) : q.low[i].id < e.id
    BY Zenon, <1>2, <1>4 DEF QueueInv, LaneInv
  <2>1. ASSUME NEW i \in 1..Len(q'.low), NEW j \in 1..Len(q'.low), i < j
        PROVE  q'.low[i].id < q'.low[j].id
    <3>1. i + shift \in 1..Len(q.low) /\ q'.low[i] = q.low[i + shift]
      BY <1>4, <2>1
    <3>2. CASE j + shift \in 1..Len(q.low) /\ q'.low[j] = q.low[j + shift]
      <4>1. i + shift < j + shift
        BY <1>4, <2>1
      <4> QED BY <3>1, <3>2, <4>1 DEF QueueInv, OrderInv
    <3>3. CASE q'.low[j] = e
      BY <2>0, <3>1, <3>3
    <3> QED BY <1>4, <3>2, <3>3
  <2>2. \A i \in 1..Len(delivered) :
          delivered[i].lane = "Low" =>
            \A j \in 1..Len(q'.low) : delivered[i].id < q'.low[j].id
    <3> SUFFICES ASSUME NEW i \in 1..Len(delivered), delivered[i].lane = "Low",
                        NEW j \in 1..Len(q'.low)
                 PROVE  delivered[i].id < q'.low[j].id
      OBVIOUS
    <3>1. CASE j + shift \in 1..Len(q.low) /\ q'.low[j] = q.low[j + shift]
      BY Zenon, <3>1 DEF QueueInv, OrderInv
    <3>2. CASE q'.low[j] = e
      BY Zenon, <1>2, <1>4, <3>2 DEF QueueInv, LaneInv
    <3> QED BY <1>4, <3>1, <3>2
  <2> QED BY Zenon, <1>1, <1>2, <2>1, <2>2 DEF QueueInv, OrderInv, DeliveredInOrder
<1>9. CompleteInv'
  <2>1. \A n \in 1..Len(pushes') \ refused' : pushes'[n].lane = "High" =>
               \/ \E i \in 1..Len(delivered) : delivered[i] = pushes'[n]
               \/ \E i \in 1..Len(q.high) : q.high[i] = pushes'[n]
    BY <1>2, <1>5 DEF QueueInv, CompleteInv
  <2>2. \A k \in Bots \X Names : \A n \in Sent(pushes', k) :
          k \notin DOMAIN q.slots /\ IsLatest(n, Sent(pushes', k)) =>
            \E i \in 1..Len(delivered) : delivered[i] = pushes'[n]
    BY <1>2, <1>3 DEF QueueInv, CompleteInv, Sent
  <2> QED BY <1>1, <1>2, <2>1, <2>2 DEF CompleteInv
<1> QED BY <1>6, <1>7, <1>8, <1>9 DEF QueueInv

\* A state event takes the slot of its key, at its place in line or a new one.
LEMMA PushCoalescibleInv ==
  ASSUME QueueInv, NEW e \in Envelope, e.lane = "Coalescible", PushOf(e)
  PROVE  QueueInv'
<1> DEFINE ek == Key(e)
           known == ek \in DOMAIN q.slots
<1>0. q' = IF known THEN PutSlot(q, e)
           ELSE [PutSlot(q, e) EXCEPT !.order = Append(@, ek)]
  BY DEF PushOf, push, push_Coalescible, Pushed
<1>1. /\ q'.high = q.high /\ q'.low = q.low /\ q'.lostHigh = q.lostHigh
      /\ q'.order = IF known THEN q.order ELSE Append(q.order, ek)
      /\ q'.slots = [k \in DOMAIN q.slots \cup {ek} |-> IF k = ek THEN e ELSE q.slots[k]]
  <2>1. q = [high |-> q.high, order |-> q.order, slots |-> q.slots, low |-> q.low,
             lostHigh |-> q.lostHigh, lostLow |-> q.lostLow]
    BY DEF QueueInv, TypeInv, QueueType
  <2> QED BY <1>0, <2>1 DEF PutSlot
<1>10. q' = [high |-> q'.high, order |-> q'.order, slots |-> q'.slots, low |-> q'.low,
             lostHigh |-> q'.lostHigh, lostLow |-> q'.lostLow]
  <2>1. q = [high |-> q.high, order |-> q.order, slots |-> q.slots, low |-> q.low,
             lostHigh |-> q.lostHigh, lostLow |-> q.lostLow]
    BY DEF QueueInv, TypeInv, QueueType
  <2> QED BY Zenon, <1>0, <2>1 DEF PutSlot
<1>2. /\ e.id = Len(pushes) + 1 /\ delivered' = delivered
      /\ pushes' \in Seq(Envelope) /\ Len(pushes') = Len(pushes) + 1
      /\ Len(pushes) \in Nat /\ pushes'[Len(pushes) + 1] = e
      /\ \A n \in 1..Len(pushes) : pushes'[n] = pushes[n]
      /\ \A n \in 1..Len(pushes') : pushes'[n].id = n
      /\ \A f \in Envelope : IsPush(f, pushes, refused) => IsPush(f, pushes', refused') /\ f.id < e.id
      /\ e.id \notin refused' => IsPush(e, pushes', refused')
  BY PushedHistory
<1>3. \A k \in Bots \X Names :
        Sent(pushes', k) = IF k = ek THEN Sent(pushes, k) \cup {e.id} ELSE Sent(pushes, k)
  BY PushedHistory
<1>4. /\ ek \in Bots \X Names
      /\ \A i \in 1..Len(q.high) : q.high[i] \in Envelope
      /\ \A i \in 1..Len(q.low) : q.low[i] \in Envelope
      /\ \A i \in 1..Len(delivered) : delivered[i] \in Envelope
      /\ \A k \in DOMAIN q.slots : k \in Bots \X Names /\ q.slots[k] \in Envelope
  <2>1. ek \in Bots \X Names
    BY DEF Envelope, Key
  <2> QED BY <2>1 DEF QueueInv, TypeInv, QueueType
<1>5. e.id \notin refused' /\ refused' = refused
  <2>1. refused' = refused
    BY Zenon DEF PushOf, push, push_Coalescible, Pushed
  <2> QED BY <1>2, <2>1 DEF QueueInv, TypeInv
<1>6. /\ q'.order \in Seq(Bots \X Names) /\ Len(q.order) \in Nat
      /\ \A i \in 1..Len(q.order) : i \in 1..Len(q'.order) /\ q'.order[i] = q.order[i]
      /\ \A i \in 1..Len(q'.order) :
           \/ i \in 1..Len(q.order) /\ q'.order[i] = q.order[i]
           \/ ~known /\ i = Len(q.order) + 1 /\ q'.order[i] = ek
      /\ ~known => Len(q.order) + 1 \in 1..Len(q'.order) /\ q'.order[Len(q.order) + 1] = ek
  <2>1. q.order \in Seq(Bots \X Names) /\ Len(q.order) \in Nat
    BY DEF QueueInv, TypeInv, QueueType
  <2>2. CASE known
    BY <1>1, <2>1, <2>2
  <2>3. CASE ~known
    BY <1>1, <1>4, <2>1, <2>3
  <2> QED BY <2>2, <2>3
<1>7. /\ DOMAIN q'.slots = DOMAIN q.slots \cup {ek} /\ q'.slots[ek] = e
      /\ \A k \in DOMAIN q.slots : k # ek => q'.slots[k] = q.slots[k]
      /\ q'.slots = [k \in DOMAIN q'.slots |-> q'.slots[k]]
  BY <1>1
<1>8. known <=> ek \in DOMAIN q.slots
  OBVIOUS
<1>9. ek = Key(e)
  OBVIOUS
<1> HIDE DEF known, ek
<1>11. TypeInv'
  <2>1. QueueType'
    BY <1>1, <1>4, <1>6, <1>7, <1>10 DEF QueueInv, TypeInv, QueueType
  <2>2. refused' \subseteq 1..Len(pushes') /\ \A n \in refused' : pushes'[n].lane = "High"
    <3>1. refused \subseteq 1..Len(pushes) /\ \A n \in refused : pushes[n].lane = "High"
      BY Zenon DEF QueueInv, TypeInv
    <3>2. \A n \in 1..Len(pushes) : n \in 1..Len(pushes')
      <4>1. Len(pushes) \in Nat /\ Len(pushes') = Len(pushes) + 1
        BY Zenon, <1>2
      <4> QED BY <4>1
    <3>3. \A n \in 1..Len(pushes) : pushes'[n] = pushes[n]
      BY Zenon, <1>2
    <3> QED BY Zenon, <1>5, <3>1, <3>2, <3>3
  <2> QED BY Zenon, <1>1, <1>2, <1>5, <2>1, <2>2 DEF QueueInv, TypeInv
<1>12. LaneInv'
  <2>1. \A i \in 1..Len(delivered) : IsPush(delivered[i], pushes', refused')
    BY <1>2, <1>4 DEF QueueInv, LaneInv
  <2>2. \A i \in 1..Len(q.high) : IsPush(q.high[i], pushes', refused') /\ q.high[i].lane = "High"
    BY Zenon, <1>2, <1>4 DEF QueueInv, LaneInv
  <2>3. \A i \in 1..Len(q.low) : IsPush(q.low[i], pushes', refused') /\ q.low[i].lane = "Low"
    BY Zenon, <1>2, <1>4 DEF QueueInv, LaneInv
  <2>4. ASSUME NEW k \in DOMAIN q'.slots
        PROVE  /\ IsPush(q'.slots[k], pushes', refused') /\ q'.slots[k].lane = "Coalescible"
               /\ Key(q'.slots[k]) = k /\ IsLatest(q'.slots[k].id, Sent(pushes', k))
    <3>1. CASE k = ek
      <4>1. q'.slots[k] = e /\ IsPush(e, pushes', refused')
        BY Zenon, <1>2, <1>5, <1>7, <3>1
      <4>2. Sent(pushes', k) = Sent(pushes, k) \cup {e.id} /\ \A n \in Sent(pushes, k) : n <= e.id
        BY <1>2, <1>3, <1>4, <3>1 DEF Sent
      <4>3. IsLatest(e.id, Sent(pushes', k))
        BY <1>2, <4>2 DEF IsLatest
      <4> QED BY <1>9, <3>1, <4>1, <4>3
    <3>2. CASE k # ek
      <4>1. k \in DOMAIN q.slots /\ q'.slots[k] = q.slots[k]
        BY Zenon, <1>7, <3>2
      <4>2. /\ IsPush(q.slots[k], pushes, refused) /\ q.slots[k].lane = "Coalescible"
            /\ Key(q.slots[k]) = k /\ IsLatest(q.slots[k].id, Sent(pushes, k))
        BY <4>1 DEF QueueInv, LaneInv
      <4>3. Sent(pushes', k) = Sent(pushes, k) /\ q.slots[k] \in Envelope
        BY Zenon, <1>3, <1>4, <3>2, <4>1
      <4> QED BY <1>2, <4>1, <4>2, <4>3
    <3> QED BY <3>1, <3>2
  <2>5. \A i \in 1..Len(q'.order) : q'.order[i] \in DOMAIN q'.slots
    <3>1. \A i \in 1..Len(q.order) : q.order[i] \in DOMAIN q.slots
      BY DEF QueueInv, LaneInv
    <3> QED BY <1>6, <1>7, <3>1
  <2>6. \A i, j \in 1..Len(q'.order) : q'.order[i] = q'.order[j] => i = j
    <3>1. /\ \A i \in 1..Len(q.order) : q.order[i] \in DOMAIN q.slots
          /\ \A i, j \in 1..Len(q.order) : q.order[i] = q.order[j] => i = j
      BY DEF QueueInv, LaneInv
    <3> QED BY <1>6, <1>8, <3>1
  <2>7. \A k \in DOMAIN q'.slots : \E i \in 1..Len(q'.order) : q'.order[i] = k
    <3>1. \A k \in DOMAIN q.slots : \E i \in 1..Len(q.order) : q.order[i] = k
      BY DEF QueueInv, LaneInv
    <3> QED BY <1>6, <1>7, <1>8, <3>1
  <2>8. delivered' = delivered /\ q'.high = q.high /\ q'.low = q.low
    BY Zenon, <1>1, <1>2
  <2> QED BY Zenon, <2>1, <2>2, <2>3, <2>4, <2>5, <2>6, <2>7, <2>8 DEF LaneInv
<1>13. OrderInv'
  <2>1. ASSUME NEW i \in 1..Len(delivered), delivered[i].lane = "Coalescible",
               NEW k \in DOMAIN q'.slots, Key(delivered[i]) = k
        PROVE  delivered[i].id < q'.slots[k].id
    <3>1. CASE k = ek
      <4>1. delivered[i].id < e.id
        BY <1>2, <1>4 DEF QueueInv, LaneInv
      <4> QED BY Zenon, <1>7, <3>1, <4>1
    <3>2. CASE k # ek
      <4>1. k \in DOMAIN q.slots /\ q'.slots[k] = q.slots[k]
        BY Zenon, <1>7, <3>2
      <4>2. delivered[i].id < q.slots[k].id
        BY Zenon, <2>1, <4>1 DEF QueueInv, OrderInv
      <4> QED BY Zenon, <4>1, <4>2
    <3> QED BY <3>1, <3>2
  <2> QED BY Zenon, <1>1, <1>2, <2>1 DEF QueueInv, OrderInv, DeliveredInOrder
<1>14. CompleteInv'
  <2>1. \A n \in 1..Len(pushes') \ refused' : pushes'[n].lane = "High" =>
               \/ \E i \in 1..Len(delivered) : delivered[i] = pushes'[n]
               \/ \E i \in 1..Len(q.high) : q.high[i] = pushes'[n]
    BY <1>2, <1>5 DEF QueueInv, CompleteInv
  <2>2. ASSUME NEW k \in Bots \X Names, NEW n \in Sent(pushes', k),
               k \notin DOMAIN q'.slots, IsLatest(n, Sent(pushes', k))
        PROVE  \E i \in 1..Len(delivered) : delivered[i] = pushes'[n]
    <3>1. k # ek /\ k \notin DOMAIN q.slots
      BY Zenon, <1>7, <2>2
    <3>2. Sent(pushes', k) = Sent(pushes, k)
      BY <1>3, <3>1
    <3>3. n \in 1..Len(pushes)
      BY <3>2 DEF Sent
    <3>4. \E i \in 1..Len(delivered) : delivered[i] = pushes[n]
      BY Zenon, <2>2, <3>1, <3>2 DEF QueueInv, CompleteInv
    <3>5. pushes'[n] = pushes[n]
      BY Zenon, <1>2, <3>3
    <3> QED BY Zenon, <3>4, <3>5
  <2>3. delivered' = delivered /\ q'.high = q.high
    BY Zenon, <1>1, <1>2
  <2> QED BY Zenon, <2>1, <2>2, <2>3 DEF CompleteInv
<1> QED BY <1>11, <1>12, <1>13, <1>14 DEF QueueInv

\* Every item has a lane.
LEMMA PriorityType == ASSUME NEW item \in Items PROVE priority(item) \in Priority
BY ItemsAssumption DEF priority, Priority

\* Every push keeps the invariant.
LEMMA PushInv ==
  ASSUME QueueInv, NEW item \in Items, NEW b \in Bots, Push(item, b)
  PROVE  QueueInv'
<1> DEFINE lane == priority(item)
           e == [lane |-> lane, bot |-> b, name |-> name(item), id |-> Len(pushes) + 1]
<1>1. PushOf(e)
  BY Zenon DEF Push, PushOf
<1>2. lane \in Priority /\ name(item) \in Names
  BY PriorityType DEF Names
<1> HIDE DEF lane
<1>3. e \in Envelope /\ e.lane = lane
  BY <1>2 DEF Envelope, QueueInv, TypeInv
<1> HIDE DEF e
<1> QED BY <1>1, <1>2, <1>3, PushHighInv, PushLowInv, PushCoalescibleInv DEF Priority

-----------------------------------------------------------------------------
(* drain_ready.                                                            *)

\* Concatenation keeps the elements of both sequences in their order.
LEMMA ConcatParts ==
  ASSUME NEW T, NEW s \in Seq(T), NEW t \in Seq(T)
  PROVE  /\ s \o t \in Seq(T) /\ Len(s \o t) = Len(s) + Len(t)
         /\ Len(s) \in Nat /\ Len(t) \in Nat
         /\ \A i \in 1..Len(s) : (s \o t)[i] = s[i]
         /\ \A i \in 1..Len(t) : (s \o t)[Len(s) + i] = t[i]
OBVIOUS

\* What a batch holds, and where each envelope of it came from.
LEMMA BatchParts ==
  ASSUME QueueInv
  PROVE  LET H == Len(q.high)
             S == Len(q.order)
             L == Len(q.low)
         IN  /\ Drained(q) \in Seq(Envelope) /\ Len(Drained(q)) = H + S + L
             /\ H \in Nat /\ S \in Nat /\ L \in Nat
             /\ \A i \in 1..H : Drained(q)[i] = q.high[i]
             /\ \A i \in 1..S : Drained(q)[H + i] = q.slots[q.order[i]]
             /\ \A i \in 1..L : Drained(q)[H + S + i] = q.low[i]
<1> DEFINE H == Len(q.high)
           S == Len(q.order)
           L == Len(q.low)
           A == SlotsInOrder(q)
           B == q.high \o A
           C == B \o q.low
<1>1. /\ q.high \in Seq(Envelope) /\ q.low \in Seq(Envelope)
      /\ q.order \in Seq(Bots \X Names) /\ S \in Nat /\ H \in Nat /\ L \in Nat
  BY DEF QueueInv, TypeInv, QueueType
<1>2. \A i \in 1..S : q.slots[q.order[i]] \in Envelope
  BY Zenon DEF QueueInv, TypeInv, QueueType, LaneInv
<1>3. /\ A \in Seq(Envelope) /\ Len(A) = S
      /\ \A i \in 1..S : A[i] = q.slots[q.order[i]]
  BY <1>1, <1>2 DEF SlotsInOrder
<1>4. Drained(q) = C
  BY DEF Drained
<1> HIDE DEF A
<1>6. /\ B \in Seq(Envelope) /\ Len(B) = H + S
      /\ \A i \in 1..H : B[i] = q.high[i]
      /\ \A i \in 1..S : B[H + i] = A[i]
  <2>0. A \in Seq(Envelope) /\ q.high \in Seq(Envelope)
    BY <1>1, <1>3
  <2>1. Len(B) = H + Len(A) /\ \A i \in 1..Len(A) : B[H + i] = A[i]
    BY <2>0, ConcatParts
  <2>2. B \in Seq(Envelope) /\ \A i \in 1..H : B[i] = q.high[i]
    BY <1>1, <1>3, ConcatParts
  <2> QED BY <1>3, <2>1, <2>2
<1> HIDE DEF B
<1>7. /\ C \in Seq(Envelope) /\ Len(C) = Len(B) + L
      /\ \A i \in 1..Len(B) : C[i] = B[i]
      /\ \A i \in 1..L : C[Len(B) + i] = q.low[i]
  <2>1. B \in Seq(Envelope) /\ q.low \in Seq(Envelope)
    BY <1>1, <1>6
  <2>2. C \in Seq(Envelope) /\ Len(C) = Len(B) + L
    BY <2>1, ConcatParts
  <2>3. /\ \A i \in 1..Len(B) : C[i] = B[i]
        /\ \A i \in 1..L : C[Len(B) + i] = q.low[i]
    BY <2>1, ConcatParts
  <2> QED BY <2>2, <2>3
<1> HIDE DEF C, H, S, L
<1>8. /\ Len(C) = (H + S) + L
      /\ \A i \in 1..(H + S) : C[i] = B[i]
      /\ \A i \in 1..L : C[(H + S) + i] = q.low[i]
  <2>1. Len(B) = H + S
    BY <1>6
  <2> QED BY <1>1, <1>7, <2>1
<1>9. /\ \A i \in 1..H : i \in 1..(H + S)
      /\ \A i \in 1..S : H + i \in 1..(H + S)
  BY <1>1
<1>10. /\ C \in Seq(Envelope) /\ Len(C) = H + S + L
       /\ H \in Nat /\ S \in Nat /\ L \in Nat
       /\ \A i \in 1..H : C[i] = q.high[i]
       /\ \A i \in 1..S : C[H + i] = q.slots[q.order[i]]
       /\ \A i \in 1..L : C[H + S + i] = q.low[i]
  BY <1>1, <1>3, <1>6, <1>7, <1>8, <1>9
<1> QED BY Zenon, <1>4, <1>10 DEF H, S, L

\* drain_ready keeps the invariant: the lanes leave whole, each in its order.
LEMMA DrainInv ==
  ASSUME QueueInv, drain_ready
  PROVE  QueueInv'
<1> DEFINE D == Len(delivered)
           H == Len(q.high)
           S == Len(q.order)
           L == Len(q.low)
<1>1. /\ delivered' = delivered \o Drained(q) /\ pushes' = pushes /\ refused' = refused
      /\ q'.high = <<>> /\ q'.low = <<>> /\ q'.order = <<>> /\ DOMAIN q'.slots = {}
      /\ q'.slots = [k \in {} |-> 0] /\ q'.lostHigh = q.lostHigh
  BY DEF drain_ready, AfterDrain, EmptyQueue
<1>2. q' = [high |-> q'.high, order |-> q'.order, slots |-> q'.slots, low |-> q'.low,
            lostHigh |-> q'.lostHigh, lostLow |-> q'.lostLow]
  BY Zenon DEF drain_ready, AfterDrain, EmptyQueue
<1>3. /\ Drained(q) \in Seq(Envelope) /\ Len(Drained(q)) = H + S + L
      /\ H \in Nat /\ S \in Nat /\ L \in Nat
      /\ \A i \in 1..H : Drained(q)[i] = q.high[i]
      /\ \A i \in 1..S : Drained(q)[H + i] = q.slots[q.order[i]]
      /\ \A i \in 1..L : Drained(q)[H + S + i] = q.low[i]
  BY Zenon, BatchParts
<1>4. /\ delivered' \in Seq(Envelope) /\ Len(delivered') = D + Len(Drained(q)) /\ D \in Nat
      /\ \A i \in 1..D : delivered'[i] = delivered[i]
      /\ \A i \in 1..Len(Drained(q)) : delivered'[D + i] = Drained(q)[i]
  <2>1. delivered \in Seq(Envelope) /\ Drained(q) \in Seq(Envelope)
    BY <1>3 DEF QueueInv, TypeInv
  <2> QED BY <1>1, <2>1, ConcatParts
<1> HIDE DEF D, H, S, L
<1>5. /\ Len(delivered') = D + H + S + L
      /\ \A i \in 1..H : delivered'[D + i] = q.high[i]
      /\ \A i \in 1..S : delivered'[D + H + i] = q.slots[q.order[i]]
      /\ \A i \in 1..L : delivered'[D + H + S + i] = q.low[i]
  <2>1. /\ \A i \in 1..H : i \in 1..Len(Drained(q))
        /\ \A i \in 1..S : H + i \in 1..Len(Drained(q)) /\ D + (H + i) = D + H + i
        /\ \A i \in 1..L : /\ H + S + i \in 1..Len(Drained(q))
                           /\ D + (H + S + i) = D + H + S + i
    BY <1>3, <1>4
  <2>2. Len(delivered') = D + H + S + L
    BY <1>3, <1>4
  <2>3. \A i \in 1..H : delivered'[D + i] = q.high[i]
    BY <1>3, <1>4, <2>1
  <2>4. \A i \in 1..S : delivered'[D + (H + i)] = q.slots[q.order[i]]
    BY <1>3, <1>4, <2>1
  <2>5. \A i \in 1..L : delivered'[D + (H + S + i)] = q.low[i]
    BY Zenon, <1>3, <1>4, <2>1
  <2> QED BY <2>1, <2>2, <2>3, <2>4, <2>5
\* Where an envelope of the longer history comes from.
<1>6. ASSUME NEW i \in 1..Len(delivered')
      PROVE  \/ i \in 1..D /\ delivered'[i] = delivered[i]
             \/ \E a \in 1..H : i = D + a /\ delivered'[i] = q.high[a]
             \/ \E a \in 1..S : i = D + H + a /\ delivered'[i] = q.slots[q.order[a]]
             \/ \E a \in 1..L : i = D + H + S + a /\ delivered'[i] = q.low[a]
  <2>1. CASE i <= D
    BY <1>4, <2>1
  <2>2. CASE D < i /\ i <= D + H
    <3>1. i - D \in 1..H /\ i = D + (i - D)
      BY <1>3, <1>4, <2>2
    <3> QED BY <1>5, <3>1
  <2>3. CASE D + H < i /\ i <= D + H + S
    <3>1. i - (D + H) \in 1..S /\ i = D + H + (i - (D + H))
      BY <1>3, <1>4, <2>3
    <3> QED BY <1>5, <3>1
  <2>4. CASE D + H + S < i
    <3>1. i - (D + H + S) \in 1..L /\ i = D + H + S + (i - (D + H + S))
      BY <1>3, <1>4, <1>5, <2>4
    <3> QED BY <1>5, <3>1
  <2> QED BY <1>3, <1>4, <2>1, <2>2, <2>3, <2>4
<1>7. /\ \A i \in 1..D : IsPush(delivered[i], pushes, refused)
      /\ \A a \in 1..H : IsPush(q.high[a], pushes, refused) /\ q.high[a].lane = "High"
      /\ \A a \in 1..L : IsPush(q.low[a], pushes, refused) /\ q.low[a].lane = "Low"
      /\ \A a \in 1..S : /\ IsPush(q.slots[q.order[a]], pushes, refused)
                         /\ q.slots[q.order[a]].lane = "Coalescible"
                         /\ Key(q.slots[q.order[a]]) = q.order[a]
                         /\ q.order[a] \in DOMAIN q.slots
      /\ \A a, b \in 1..S : q.order[a] = q.order[b] => a = b
  BY Zenon DEF QueueInv, LaneInv, D, H, S, L
<1>8. /\ \A i, j \in 1..D : i < j /\ SameStream(delivered[i], delivered[j])
                            => delivered[i].id < delivered[j].id
      /\ \A a, b \in 1..H : a < b => q.high[a].id < q.high[b].id
      /\ \A a, b \in 1..L : a < b => q.low[a].id < q.low[b].id
      /\ \A i \in 1..D :
           /\ delivered[i].lane = "High" => \A a \in 1..H : delivered[i].id < q.high[a].id
           /\ delivered[i].lane = "Low" => \A a \in 1..L : delivered[i].id < q.low[a].id
           /\ delivered[i].lane = "Coalescible" =>
                \A k \in DOMAIN q.slots :
                  Key(delivered[i]) = k => delivered[i].id < q.slots[k].id
  BY DEF QueueInv, OrderInv, DeliveredInOrder, D, H, L
<1>9. TypeInv'
  <2>1. QueueType'
    BY <1>1, <1>2 DEF QueueType
  <2> QED BY <1>1, <1>4, <2>1 DEF QueueInv, TypeInv
<1>10. LaneInv'
  <2>1. \A i \in 1..Len(delivered') : IsPush(delivered'[i], pushes, refused)
    BY <1>6, <1>7
  <2> QED BY <1>1, <2>1 DEF LaneInv
<1>11. OrderInv'
  <2>1. ASSUME NEW i \in 1..Len(delivered'), NEW j \in 1..Len(delivered'), i < j,
               SameStream(delivered'[i], delivered'[j])
        PROVE  delivered'[i].id < delivered'[j].id
    <3>0. D \in Nat /\ H \in Nat /\ S \in Nat /\ L \in Nat
      BY <1>3, <1>4
    <3>1. CASE j \in 1..D /\ delivered'[j] = delivered[j]
      <4>1. i \in 1..D
        BY <2>1, <3>0, <3>1
      <4> QED BY <1>4, <1>8, <2>1, <3>1, <4>1
    <3>2. CASE \E b \in 1..H : j = D + b /\ delivered'[j] = q.high[b]
      <4> PICK b \in 1..H : j = D + b /\ delivered'[j] = q.high[b]
        BY Zenon, <3>2
      <4>1. delivered'[i].lane = "High"
        BY <1>7, <2>1 DEF SameStream
      <4>2. CASE i \in 1..D /\ delivered'[i] = delivered[i]
        BY <1>8, <4>1, <4>2
      <4>3. CASE \E a \in 1..H : i = D + a /\ delivered'[i] = q.high[a]
        BY <1>8, <2>1, <3>0, <4>3
      <4> QED BY <1>6, <1>7, <4>1, <4>2, <4>3
    <3>3. CASE \E b \in 1..S : j = D + H + b /\ delivered'[j] = q.slots[q.order[b]]
      <4> PICK b \in 1..S : j = D + H + b /\ delivered'[j] = q.slots[q.order[b]]
        BY Zenon, <3>3
      <4>1. /\ delivered'[i].lane = "Coalescible"
            /\ Key(delivered'[i]) = q.order[b] /\ q.order[b] \in DOMAIN q.slots
        BY <1>7, <2>1 DEF SameStream
      <4>2. CASE i \in 1..D /\ delivered'[i] = delivered[i]
        BY <1>8, <4>1, <4>2
      <4>3. CASE \E a \in 1..S : i = D + H + a /\ delivered'[i] = q.slots[q.order[a]]
        <5>1. PICK a \in 1..S : i = D + H + a /\ delivered'[i] = q.slots[q.order[a]]
          BY Zenon, <4>3
        <5>2. q.order[a] = q.order[b]
          BY Zenon, <1>7, <4>1, <5>1
        <5>3. a = b
          BY Zenon, <1>7, <5>2
        <5> QED BY <2>1, <3>0, <5>1, <5>3
      <4> QED BY <1>6, <1>7, <4>1, <4>2, <4>3
    <3>4. CASE \E b \in 1..L : j = D + H + S + b /\ delivered'[j] = q.low[b]
      <4> PICK b \in 1..L : j = D + H + S + b /\ delivered'[j] = q.low[b]
        BY Zenon, <3>4
      <4>1. delivered'[i].lane = "Low"
        BY <1>7, <2>1 DEF SameStream
      <4>2. CASE i \in 1..D /\ delivered'[i] = delivered[i]
        BY Zenon, <1>8, <4>1, <4>2
      <4>3. CASE \E a \in 1..L : i = D + H + S + a /\ delivered'[i] = q.low[a]
        BY <1>8, <2>1, <3>0, <4>3
      <4> QED BY <1>6, <1>7, <4>1, <4>2, <4>3
    <3> QED BY Zenon, <1>6, <3>1, <3>2, <3>3, <3>4
  <2> QED BY <1>1, <2>1 DEF OrderInv, DeliveredInOrder
<1>12. CompleteInv'
  <2>1. /\ \A i \in 1..D : i \in 1..Len(delivered')
        /\ \A a \in 1..H : D + a \in 1..Len(delivered')
        /\ \A a \in 1..S : D + H + a \in 1..Len(delivered')
    BY <1>3, <1>4, <1>5
  <2>2. ASSUME NEW n \in 1..Len(pushes) \ refused, pushes[n].lane = "High"
        PROVE  \E i \in 1..Len(delivered') : delivered'[i] = pushes[n]
    <3>1. \/ \E i \in 1..D : delivered[i] = pushes[n]
          \/ \E a \in 1..H : q.high[a] = pushes[n]
      BY <2>2 DEF QueueInv, CompleteInv, D, H
    <3> QED BY <1>4, <1>5, <2>1, <3>1
  <2>3. ASSUME NEW k \in Bots \X Names, NEW n \in Sent(pushes, k), IsLatest(n, Sent(pushes, k))
        PROVE  \E i \in 1..Len(delivered') : delivered'[i] = pushes[n]
    <3>1. CASE k \notin DOMAIN q.slots
      <4>1. \E i \in 1..D : delivered[i] = pushes[n]
        BY <2>3, <3>1 DEF QueueInv, CompleteInv, D
      <4> QED BY Zenon, <1>4, <2>1, <4>1
    <3>2. CASE k \in DOMAIN q.slots
      <4>1. IsPush(q.slots[k], pushes, refused) /\ IsLatest(q.slots[k].id, Sent(pushes, k))
        BY Zenon, <3>2 DEF QueueInv, LaneInv
      <4>2. q.slots[k] = pushes[n]
        BY <2>3, <4>1 DEF IsPush, IsLatest, Sent
      <4>3. PICK a \in 1..S : q.order[a] = k
        BY <3>2 DEF QueueInv, LaneInv, S
      <4> QED BY <1>5, <2>1, <4>2, <4>3
    <3> QED BY <3>1, <3>2
  <2> QED BY <1>1, <2>2, <2>3 DEF CompleteInv
<1> QED BY <1>9, <1>10, <1>11, <1>12 DEF QueueInv

-----------------------------------------------------------------------------
\* Every step keeps the invariant.
LEMMA StepInv == QueueInv /\ [QueueNext]_queueVars => QueueInv'
<1> SUFFICES ASSUME QueueInv, [QueueNext]_queueVars PROVE QueueInv'
  OBVIOUS
<1>1. CASE UNCHANGED queueVars
  BY <1>1 DEF queueVars, QueueInv, TypeInv, QueueType, LaneInv, OrderInv, CompleteInv,
              DeliveredInOrder
<1> QED BY Zenon, <1>1, PushInv, DrainInv DEF QueueNext

\* The invariant holds in every reachable state.
LEMMA Invariant == QueueSpec => []QueueInv
BY InitInv, StepInv, PTL DEF QueueSpec

-----------------------------------------------------------------------------
(* The properties.                                                         *)

\* CriticalNeverLost, for any capacity of the high lane, zero included: what
\* push accepted is delivered or waits, once and in order, and what it
\* refused is counted.
THEOREM NothingCriticalIsLost == QueueSpec => []CriticalNeverLost
<1>1. ASSUME QueueInv PROVE CriticalNeverLost
  <2> DEFINE D == Len(delivered)
             H == Len(q.high)
             stream == delivered \o q.high
  <2>1. /\ Len(stream) = D + H /\ D \in Nat /\ H \in Nat
        /\ \A i \in 1..D : stream[i] = delivered[i]
        /\ \A i \in 1..H : stream[D + i] = q.high[i]
    <3>1. delivered \in Seq(Envelope) /\ q.high \in Seq(Envelope)
      BY Zenon, <1>1 DEF QueueInv, TypeInv, QueueType
    <3> QED BY <3>1, ConcatParts
  <2>2. /\ \A i \in 1..D : IsPush(delivered[i], pushes, refused)
        /\ \A a \in 1..H : IsPush(q.high[a], pushes, refused) /\ q.high[a].lane = "High"
        /\ \A i, j \in 1..D : i < j /\ SameStream(delivered[i], delivered[j])
                              => delivered[i].id < delivered[j].id
        /\ \A a, b \in 1..H : a < b => q.high[a].id < q.high[b].id
        /\ \A i \in 1..D : delivered[i].lane = "High" =>
                             \A a \in 1..H : delivered[i].id < q.high[a].id
    BY Zenon, <1>1 DEF QueueInv, LaneInv, OrderInv, DeliveredInOrder
  <2>3. \A n \in 1..Len(pushes) \ refused :
          pushes[n].lane = "High" => \/ \E i \in 1..D : delivered[i] = pushes[n]
                                     \/ \E i \in 1..H : q.high[i] = pushes[n]
    BY Zenon, <1>1 DEF QueueInv, CompleteInv
  <2>4. \A n \in 1..Len(pushes) : pushes[n].id = n
    BY Zenon, <1>1 DEF QueueInv, TypeInv
  <2> HIDE DEF D, H, stream
  <2>5. ASSUME NEW i \in 1..Len(stream)
        PROVE  \/ i \in 1..D /\ stream[i] = delivered[i]
               \/ \E a \in 1..H : i = D + a /\ stream[i] = q.high[a]
    <3>1. CASE i <= D
      BY <2>1, <3>1
    <3>2. CASE D < i
      <4>1. i - D \in 1..H /\ i = D + (i - D)
        BY <2>1, <3>2
      <4> QED BY <2>1, <4>1
    <3> QED BY <2>1, <3>1, <3>2
  <2>6. \A i \in 1..Len(stream) : IsPush(stream[i], pushes, refused)
    BY <2>2, <2>5
  <2>7. ASSUME NEW i \in 1..Len(stream), NEW j \in 1..Len(stream), i < j,
               stream[i].lane = "High", stream[j].lane = "High"
        PROVE  stream[i].id < stream[j].id
    <3>1. CASE j \in 1..D /\ stream[j] = delivered[j]
      <4>1. i \in 1..D /\ SameStream(stream[i], stream[j])
        BY <2>1, <2>7, <3>1 DEF SameStream
      <4> QED BY <2>1, <2>2, <2>7, <3>1, <4>1
    <3>2. CASE \E b \in 1..H : j = D + b /\ stream[j] = q.high[b]
      <4> PICK b \in 1..H : j = D + b /\ stream[j] = q.high[b]
        BY <3>2
      <4>1. CASE i \in 1..D /\ stream[i] = delivered[i]
        BY Zenon, <2>2, <2>7, <4>1
      <4>2. CASE \E a \in 1..H : i = D + a /\ stream[i] = q.high[a]
        BY <2>1, <2>2, <2>7, <4>2
      <4> QED BY <2>5, <4>1, <4>2
    <3> QED BY Zenon, <2>5, <3>1, <3>2
  <2>8. ASSUME NEW n \in 1..Len(pushes) \ refused, pushes[n].lane = "High"
        PROVE  \E i \in 1..Len(stream) : stream[i] = pushes[n]
    <3>1. /\ \A i \in 1..D : i \in 1..Len(stream)
          /\ \A a \in 1..H : D + a \in 1..Len(stream)
      BY <2>1
    <3> QED BY Zenon, <2>1, <2>3, <2>8, <3>1
  <2>9. q.lostHigh = Cardinality(refused)
    BY <1>1 DEF QueueInv, TypeInv
  <2>10. \A i \in 1..Len(stream) : /\ stream[i].id \in 1..Len(pushes) \ refused
                                   /\ stream[i] = pushes[stream[i].id]
    BY <2>6 DEF IsPush
  <2> DEFINE Critical == {i \in 1..Len(stream) : stream[i].lane = "High"}
  <2>11. /\ \A i \in Critical : /\ stream[i].id \in 1..Len(pushes) \ refused
                                /\ stream[i] = pushes[stream[i].id]
         /\ \A i, j \in Critical : i < j => stream[i].id < stream[j].id
    BY <2>7, <2>10
  <2>12. \A n \in 1..Len(pushes) \ refused :
           pushes[n].lane = "High" => \E i \in Critical : stream[i].id = n
    BY Zenon, <2>4, <2>8
  <2> QED BY Zenon, <2>9, <2>11, <2>12 DEF CriticalNeverLost, stream
<1> QED BY <1>1, Invariant, PTL

\* LatestStateWins, for any number of bots, names and pushes.
THEOREM TheLatestStateWins == QueueSpec => []LatestStateWins
<1>1. ASSUME QueueInv PROVE LatestStateWins
  <2>1. ASSUME NEW k \in Bots \X Names, k \in DOMAIN q.slots
        PROVE  \E n \in Sent(pushes, k) : IsLatest(n, Sent(pushes, k)) /\ q.slots[k] = pushes[n]
    <3>1. IsPush(q.slots[k], pushes, refused) /\ IsLatest(q.slots[k].id, Sent(pushes, k))
      BY <1>1, <2>1 DEF QueueInv, LaneInv
    <3> QED BY Zenon, <3>1 DEF IsPush, IsLatest
  <2>2. ASSUME NEW k \in Bots \X Names, k \notin DOMAIN q.slots, NEW n \in Sent(pushes, k),
               IsLatest(n, Sent(pushes, k))
        PROVE  \E i \in 1..Len(delivered) :
                 /\ delivered[i] = pushes[n]
                 /\ \A j \in (i + 1)..Len(delivered) :
                      ~ (delivered[j].lane = "Coalescible" /\ Key(delivered[j]) = k)
    <3>1. PICK i \in 1..Len(delivered) : delivered[i] = pushes[n]
      BY <1>1, <2>2 DEF QueueInv, CompleteInv
    <3>2. /\ n \in 1..Len(pushes) /\ delivered[i].lane = "Coalescible"
          /\ Key(delivered[i]) = k /\ delivered[i].id = n
      BY <1>1, <3>1 DEF Sent, QueueInv, TypeInv
    <3>3. ASSUME NEW j \in (i + 1)..Len(delivered), delivered[j].lane = "Coalescible",
                 Key(delivered[j]) = k
          PROVE  FALSE
      <4>1. j \in 1..Len(delivered) /\ i < j
        BY <1>1 DEF QueueInv, TypeInv
      <4>2. n < delivered[j].id
        <5>1. DeliveredInOrder /\ SameStream(delivered[i], delivered[j])
          BY Zenon, <1>1, <3>2, <3>3 DEF QueueInv, OrderInv, SameStream
        <5> QED BY Zenon, <3>2, <4>1, <5>1 DEF DeliveredInOrder
      <4>3. delivered[j].id \in 1..Len(pushes) /\ delivered[j] = pushes[delivered[j].id]
        BY <1>1, <4>1 DEF QueueInv, LaneInv, IsPush
      <4>4. delivered[j].id \in Sent(pushes, k)
        BY <3>3, <4>3 DEF Sent
      <4>5. delivered[j].id <= n
        BY <2>2, <4>4 DEF IsLatest
      <4> QED BY <3>2, <4>2, <4>3, <4>5
    <3> QED BY Zenon, <3>1, <3>3
  <2> QED BY <2>1, <2>2 DEF LatestStateWins
<1> QED BY <1>1, Invariant, PTL

\* DeliveredInOrder, for any number of bots, names, pushes and batches.
THEOREM DeliveryIsInOrder == QueueSpec => []DeliveredInOrder
<1>1. QueueInv => DeliveredInOrder
  BY DEF QueueInv, OrderInv
<1> QED BY <1>1, Invariant, PTL

-----------------------------------------------------------------------------
(* What the bounded lanes lose.                                            *)

\* The envelopes of the low lane that are gone: pushed, and neither delivered
\* nor waiting.
Dropped ==
  {n \in 1..Len(pushes) : /\ pushes[n].lane = "Low"
                          /\ \A i \in 1..Len(delivered) : delivered[i] # pushes[n]
                          /\ \A i \in 1..Len(q.low) : q.low[i] # pushes[n]}

\* No lane outgrows its capacity, dropped() counts every envelope the low lane
\* lost and no other, and the ones it lost are older than the ones it kept.
LossesAreCounted ==
  /\ Len(q.high) <= HighCapacity /\ Len(q.low) <= LowCapacity
  /\ IsFiniteSet(Dropped) /\ q.lostLow = Cardinality(Dropped)
  /\ \A n \in Dropped : \A i \in 1..Len(q.low) : n < q.low[i].id

\* A step that pushes nothing into the low lane, or only makes it longer by
\* what it pushed, loses nothing.
LEMMA SameDrops ==
  ASSUME QueueInv, QueueInv', LossesAreCounted,
         NEW e \in Envelope, PushOf(e),
         \/ e.lane # "Low" /\ q'.low = q.low
         \/ q'.low = Append(q.low, e)
  PROVE  Dropped' = Dropped
<1>1. /\ Len(pushes) \in Nat /\ 1..Len(pushes') = 1..Len(pushes) \cup {e.id}
      /\ e.id = Len(pushes) + 1 /\ pushes'[e.id] = e /\ delivered' = delivered
      /\ \A n \in 1..Len(pushes) : pushes'[n] = pushes[n] /\ pushes[n].id = n
  <2>1. /\ e.id = Len(pushes) + 1 /\ Len(pushes') = Len(pushes) + 1 /\ delivered' = delivered
        /\ Len(pushes) \in Nat /\ pushes'[Len(pushes) + 1] = e
        /\ \A n \in 1..Len(pushes) : pushes'[n] = pushes[n]
    BY Zenon, PushedHistory
  <2>2. 1..Len(pushes') = 1..Len(pushes) \cup {e.id}
    BY <2>1
  <2> QED BY Zenon, <2>1, <2>2 DEF QueueInv, TypeInv
<1>2. \A n \in 1..Len(pushes) : pushes[n] # e
  <2>1. \A n \in 1..Len(pushes) : n # e.id
    BY <1>1
  <2> QED BY Zenon, <1>1, <2>1
<1>3. ASSUME NEW n \in 1..Len(pushes)
      PROVE  (\A i \in 1..Len(q'.low) : q'.low[i] # pushes[n])
               <=> \A i \in 1..Len(q.low) : q.low[i] # pushes[n]
  <2>1. CASE q'.low = q.low
    BY Zenon, <2>1
  <2>2. CASE q'.low = Append(q.low, e)
    <3>1. /\ \A i \in 1..Len(q.low) : i \in 1..Len(q'.low) /\ q'.low[i] = q.low[i]
          /\ \A i \in 1..Len(q'.low) : \/ i \in 1..Len(q.low) /\ q'.low[i] = q.low[i]
                                       \/ q'.low[i] = e
      <4>1. q.low \in Seq(Envelope)
        BY Zenon DEF QueueInv, TypeInv, QueueType
      <4> QED BY <2>2, <4>1
    <3> QED BY Zenon, <1>2, <3>1
  <2> QED BY Zenon, <2>1, <2>2
<1>4. e.id \notin Dropped'
  <2>1. CASE e.lane # "Low"
    BY Zenon, <1>1, <2>1 DEF Dropped
  <2>2. CASE q'.low = Append(q.low, e)
    <3>1. Len(q.low) + 1 \in 1..Len(q'.low) /\ q'.low[Len(q.low) + 1] = e
      <4>1. q.low \in Seq(Envelope)
        BY Zenon DEF QueueInv, TypeInv, QueueType
      <4> QED BY <2>2, <4>1
    <3> QED BY Zenon, <1>1, <3>1 DEF Dropped
  <2> QED BY Zenon, <2>1, <2>2
<1>5. ASSUME NEW n \in 1..Len(pushes)
      PROVE  n \in Dropped' <=> n \in Dropped
  <2>1. n \in 1..Len(pushes') /\ pushes'[n] = pushes[n] /\ delivered' = delivered
    BY Zenon, <1>1
  <2>2. (\A i \in 1..Len(q'.low) : q'.low[i] # pushes'[n])
          <=> \A i \in 1..Len(q.low) : q.low[i] # pushes[n]
    BY Zenon, <1>3, <2>1
  <2> QED BY Zenon, <2>1, <2>2 DEF Dropped
<1>6. Dropped' \subseteq 1..Len(pushes') /\ Dropped \subseteq 1..Len(pushes)
  BY Zenon DEF Dropped
<1> QED BY Zenon, <1>1, <1>4, <1>5, <1>6

\* A push into a lane other than the low one leaves the low lane and what it
\* lost alone, and the high lane within its capacity.
LEMMA PushElsewhere ==
  ASSUME QueueInv, QueueInv', LossesAreCounted,
         NEW e \in Envelope, e.lane \in {"High", "Coalescible"}, PushOf(e)
  PROVE  LossesAreCounted'
<1>1. /\ q'.low = q.low /\ q'.lostLow = q.lostLow
      /\ q'.high = IF e.lane = "High" /\ Len(q.high) < HighCapacity
                   THEN Append(q.high, e) ELSE q.high
  <2>1. /\ q = [high |-> q.high, order |-> q.order, slots |-> q.slots, low |-> q.low,
                lostHigh |-> q.lostHigh, lostLow |-> q.lostLow]
        /\ Len(q.high) \in Nat /\ HighCapacity \in Nat
    BY CapacityAssumption DEF QueueInv, TypeInv, QueueType
  <2>2. CASE e.lane = "High"
    <3>1. q' = IF Len(q.high) >= HighCapacity THEN [q EXCEPT !.lostHigh = @ + 1]
                                              ELSE [q EXCEPT !.high = Append(@, e)]
      BY <2>2 DEF PushOf, push, push_High, Pushed
    <3> QED BY <2>1, <2>2, <3>1
  <2>3. CASE e.lane = "Coalescible"
    <3>1. q' = IF Key(e) \in DOMAIN q.slots THEN PutSlot(q, e)
               ELSE [PutSlot(q, e) EXCEPT !.order = Append(@, Key(e))]
      BY <2>3 DEF PushOf, push, push_Coalescible, Pushed
    <3> QED BY <2>1, <2>3, <3>1 DEF PutSlot
  <2> QED BY Zenon, <2>2, <2>3
<1>2. Dropped' = Dropped
  <2>1. e.lane # "Low"
    OBVIOUS
  <2> QED BY Zenon, <1>1, <2>1, SameDrops
<1>3. Len(q'.high) <= HighCapacity
  <2>1. q.high \in Seq(Envelope) /\ Len(q.high) \in Nat /\ HighCapacity \in Nat
        /\ Len(q.high) <= HighCapacity
    BY CapacityAssumption DEF QueueInv, TypeInv, QueueType, LossesAreCounted
  <2> QED BY <1>1, <2>1
<1> QED BY Zenon, <1>1, <1>2, <1>3 DEF LossesAreCounted

\* A push into the low lane loses the oldest that waits there when the lane is
\* full, and counts it.
LEMMA PushDrops ==
  ASSUME QueueInv, QueueInv', LossesAreCounted,
         NEW e \in Envelope, e.lane = "Low", PushOf(e)
  PROVE  LossesAreCounted'
<1>0. /\ q.low \in Seq(Envelope) /\ Len(q.low) \in Nat /\ LowCapacity \in Nat \ {0}
      /\ Len(q.low) <= LowCapacity
  BY CapacityAssumption DEF QueueInv, TypeInv, QueueType, LossesAreCounted
<1>1. /\ q'.high = q.high
      /\ IF Len(q.low) >= LowCapacity
         THEN q'.low = Append(Tail(q.low), e) /\ q'.lostLow = q.lostLow + 1
         ELSE q'.low = Append(q.low, e) /\ q'.lostLow = q.lostLow
  <2>1. q = [high |-> q.high, order |-> q.order, slots |-> q.slots, low |-> q.low,
             lostHigh |-> q.lostHigh, lostLow |-> q.lostLow]
    BY Zenon DEF QueueInv, TypeInv, QueueType
  <2>2. q' = IF Len(q.low) >= LowCapacity
             THEN [q EXCEPT !.low = Append(Tail(@), e), !.lostLow = @ + 1]
             ELSE [q EXCEPT !.low = Append(@, e)]
    BY DEF PushOf, push, push_Low, Pushed
  <2> QED BY <2>1, <2>2
<1>2. \A n \in Dropped : n < e.id
  <2>1. e.id = Len(pushes) + 1 /\ Len(pushes) \in Nat
    BY Zenon, PushedHistory
  <2> QED BY <2>1 DEF Dropped
<1>3. CASE Len(q.low) < LowCapacity
  <2>1. q'.low = Append(q.low, e) /\ q'.lostLow = q.lostLow
    BY <1>0, <1>1, <1>3
  <2>2. Dropped' = Dropped
    BY Zenon, <2>1, SameDrops
  <2>3. Len(q'.low) <= LowCapacity
    BY <1>0, <1>3, <2>1
  <2>4. \A i \in 1..Len(q'.low) : (i \in 1..Len(q.low) /\ q'.low[i] = q.low[i]) \/ q'.low[i] = e
    BY <1>0, <2>1
  <2>5. \A n \in Dropped : \A i \in 1..Len(q'.low) : n < q'.low[i].id
    BY Zenon, <1>2, <2>4 DEF LossesAreCounted
  <2> QED BY Zenon, <1>1, <2>1, <2>2, <2>3, <2>5 DEF LossesAreCounted
<1>4. CASE Len(q.low) >= LowCapacity
  <2> DEFINE h == q.low[1].id
  <2>1. /\ q'.low = Append(Tail(q.low), e) /\ q'.lostLow = q.lostLow + 1
        /\ 1 \in 1..Len(q.low)
    BY <1>0, <1>1, <1>4
  <2>2. /\ Len(q'.low) = Len(q.low)
        /\ \A i \in 1..Len(q'.low) : \/ i + 1 \in 1..Len(q.low) /\ q'.low[i] = q.low[i + 1]
                                     \/ q'.low[i] = e
        /\ \A i \in 1..Len(q.low) : i # 1 => i - 1 \in 1..Len(q'.low) /\ q'.low[i - 1] = q.low[i]
        /\ Len(q.low) \in 1..Len(q'.low) /\ q'.low[Len(q.low)] = e
    <3>1. /\ Tail(q.low) \in Seq(Envelope) /\ Len(Tail(q.low)) = Len(q.low) - 1
          /\ \A i \in 1..Len(Tail(q.low)) : Tail(q.low)[i] = q.low[i + 1]
      BY <1>0, <2>1
    <3>2. /\ Len(q'.low) = Len(q.low) /\ q'.low[Len(q.low)] = e
          /\ \A i \in 1..(Len(q.low) - 1) : q'.low[i] = q.low[i + 1]
      BY <1>0, <2>1, <3>1
    <3> QED BY <1>0, <2>1, <3>2
  <2>3. /\ h \in 1..Len(pushes) /\ pushes[h] = q.low[1] /\ pushes[h].lane = "Low"
        /\ \A i \in 1..Len(q.low) : i # 1 => h < q.low[i].id
        /\ \A i \in 1..Len(delivered) : delivered[i] # q.low[1]
    <3>1. IsPush(q.low[1], pushes, refused) /\ q.low[1].lane = "Low"
      BY Zenon, <2>1 DEF QueueInv, LaneInv
    <3>2. ASSUME NEW i \in 1..Len(q.low), i # 1
          PROVE  h < q.low[i].id
      <4>1. 1 < i
        BY <1>0, <3>2
      <4> QED BY Zenon, <2>1, <4>1 DEF QueueInv, OrderInv
    <3>3. ASSUME NEW i \in 1..Len(delivered), delivered[i] = q.low[1]
          PROVE  FALSE
      <4>1. delivered[i].id < h
        BY Zenon, <2>1, <3>1, <3>3 DEF QueueInv, OrderInv
      <4>2. h \in Nat
        <5>1. h \in 1..Len(pushes)
          BY Zenon, <3>1 DEF IsPush
        <5> QED BY <5>1
      <4> QED BY <3>3, <4>1, <4>2
    <3> QED BY Zenon, <3>1, <3>2, <3>3 DEF IsPush
  <2>4. /\ e.id = Len(pushes) + 1 /\ Len(pushes) \in Nat /\ pushes'[e.id] = e
        /\ 1..Len(pushes') = 1..Len(pushes) \cup {e.id} /\ delivered' = delivered
        /\ \A n \in 1..Len(pushes) : pushes'[n] = pushes[n] /\ pushes[n].id = n /\ n < e.id
    <3>1. /\ e.id = Len(pushes) + 1 /\ Len(pushes') = Len(pushes) + 1
          /\ delivered' = delivered
          /\ Len(pushes) \in Nat /\ pushes'[Len(pushes) + 1] = e
          /\ \A n \in 1..Len(pushes) : pushes'[n] = pushes[n]
      BY Zenon, PushedHistory
    <3>2. 1..Len(pushes') = 1..Len(pushes) \cup {e.id} /\ \A n \in 1..Len(pushes) : n < e.id
      BY <3>1
    <3> QED BY Zenon, <3>1, <3>2 DEF QueueInv, TypeInv
  <2>5. h \notin Dropped
    BY Zenon, <2>1, <2>3 DEF Dropped
  <2>6. h \in Dropped'
    <3>1. \A i \in 1..Len(q'.low) : h < q'.low[i].id
      <4>1. ASSUME NEW i \in 1..Len(q'.low), i + 1 \in 1..Len(q.low), q'.low[i] = q.low[i + 1]
            PROVE  h < q'.low[i].id
        <5>1. i + 1 # 1
          BY <4>1
        <5> QED BY Zenon, <2>3, <4>1, <5>1
      <4> QED BY Zenon, <2>2, <2>3, <2>4, <4>1
    <3>2. \A i \in 1..Len(q'.low) : q'.low[i] # pushes'[h]
      <4>1. h \in Nat /\ pushes'[h].id = h
        BY <2>3, <2>4
      <4> QED BY <3>1, <4>1
    <3> QED BY Zenon, <2>3, <2>4, <3>2 DEF Dropped
  <2>7. e.id \notin Dropped'
    BY Zenon, <2>2, <2>4 DEF Dropped
  <2>8. ASSUME NEW n \in 1..Len(pushes), n # h
        PROVE  n \in Dropped' <=> n \in Dropped
    <3>1. ASSUME NEW i \in 1..Len(q.low), q.low[i] = pushes[n]
          PROVE  \E j \in 1..Len(q'.low) : q'.low[j] = pushes'[n]
      <4>1. i # 1
        BY Zenon, <2>4, <2>8, <3>1
      <4> QED BY Zenon, <2>2, <2>4, <3>1, <4>1
    <3>2. ASSUME NEW j \in 1..Len(q'.low), q'.low[j] = pushes'[n]
          PROVE  \E i \in 1..Len(q.low) : q.low[i] = pushes[n]
      <4>1. q'.low[j] # e
        <5>1. pushes'[n].id = n /\ n # e.id
          BY <2>4
        <5> QED BY Zenon, <3>2, <5>1
      <4>2. j + 1 \in 1..Len(q.low) /\ q'.low[j] = q.low[j + 1]
        BY Zenon, <2>2, <4>1
      <4> QED BY Zenon, <2>4, <3>2, <4>2
    <3> QED BY Zenon, <2>4, <3>1, <3>2 DEF Dropped
  <2>9. Dropped' = Dropped \cup {h}
    <3>1. Dropped' \subseteq 1..Len(pushes') /\ Dropped \subseteq 1..Len(pushes)
      BY Zenon DEF Dropped
    <3> QED BY Zenon, <2>4, <2>6, <2>7, <2>8, <3>1
  <2>10. IsFiniteSet(Dropped') /\ Cardinality(Dropped') = Cardinality(Dropped) + 1
    <3>1. IsFiniteSet(Dropped)
      BY Zenon DEF LossesAreCounted
    <3> QED BY Zenon, <2>5, <2>9, <3>1, FS_AddElement
  <2>11. ASSUME NEW n \in Dropped', NEW i \in 1..Len(q'.low)
         PROVE  n < q'.low[i].id
    <3>1. CASE q'.low[i] = e
      <4>1. n \in 1..Len(pushes)
        BY Zenon, <2>7, <2>4, <2>11 DEF Dropped
      <4> QED BY Zenon, <2>4, <3>1, <4>1
    <3>2. CASE i + 1 \in 1..Len(q.low) /\ q'.low[i] = q.low[i + 1]
      <4>1. CASE n \in Dropped
        BY Zenon, <3>2, <4>1 DEF LossesAreCounted
      <4>2. CASE n = h
        <5>1. i + 1 # 1
          BY <2>11
        <5> QED BY Zenon, <2>3, <3>2, <4>2, <5>1
      <4> QED BY Zenon, <2>9, <2>11, <4>1, <4>2
    <3> QED BY Zenon, <2>2, <3>1, <3>2
  <2>12. Len(q'.low) <= LowCapacity /\ q'.high = q.high
    BY Zenon, <1>0, <1>1, <2>2
  <2>13. q'.lostLow = Cardinality(Dropped')
    BY Zenon, <2>1, <2>10 DEF LossesAreCounted
  <2> QED BY Zenon, <2>10, <2>11, <2>12, <2>13 DEF LossesAreCounted
<1> QED BY <1>0, <1>3, <1>4

\* A drain delivers all that waits in the low lane, so nothing is lost in it.
LEMMA DrainDrops ==
  ASSUME QueueInv, LossesAreCounted, drain_ready
  PROVE  LossesAreCounted'
<1> DEFINE D == Len(delivered)
           H == Len(q.high)
           S == Len(q.order)
           L == Len(q.low)
<1>1. /\ delivered' = delivered \o Drained(q) /\ pushes' = pushes
      /\ q'.high = <<>> /\ q'.low = <<>> /\ q'.lostLow = q.lostLow
  BY DEF drain_ready, AfterDrain, EmptyQueue
<1>2. /\ Drained(q) \in Seq(Envelope) /\ Len(Drained(q)) = H + S + L
      /\ H \in Nat /\ S \in Nat /\ L \in Nat
      /\ \A i \in 1..H : Drained(q)[i] = q.high[i]
      /\ \A i \in 1..S : Drained(q)[H + i] = q.slots[q.order[i]]
      /\ \A i \in 1..L : Drained(q)[H + S + i] = q.low[i]
  BY Zenon, BatchParts
<1>3. /\ D \in Nat /\ Len(delivered') = D + (H + S + L)
      /\ \A i \in 1..D : delivered'[i] = delivered[i]
      /\ \A i \in 1..(H + S + L) : delivered'[D + i] = Drained(q)[i]
  <2>1. delivered \in Seq(Envelope) /\ Drained(q) \in Seq(Envelope)
    BY Zenon, <1>2 DEF QueueInv, TypeInv
  <2>2. /\ D \in Nat /\ Len(delivered') = D + Len(Drained(q))
        /\ \A i \in 1..D : delivered'[i] = delivered[i]
        /\ \A i \in 1..Len(Drained(q)) : delivered'[D + i] = Drained(q)[i]
    BY <1>1, <2>1, ConcatParts
  <2> QED BY Zenon, <1>2, <2>2
<1>4. /\ \A i \in 1..H : q.high[i].lane = "High"
      /\ \A i \in 1..S : q.slots[q.order[i]].lane = "Coalescible"
  BY Zenon DEF QueueInv, LaneInv
<1> HIDE DEF D, H, S, L
<1>5. ASSUME NEW n \in 1..Len(pushes), pushes[n].lane = "Low",
             NEW i \in 1..Len(delivered'), delivered'[i] = pushes[n]
      PROVE  (\E j \in 1..D : delivered[j] = pushes[n]) \/ (\E j \in 1..L : q.low[j] = pushes[n])
  <2>1. CASE i \in 1..D
    BY Zenon, <1>3, <1>5, <2>1
  <2>2. CASE i - D \in 1..H
    <3>1. i - D \in 1..(H + S + L) /\ D + (i - D) = i
      BY <1>2, <1>3, <2>2
    <3>2. delivered'[i] = q.high[i - D]
      BY Zenon, <1>2, <1>3, <2>2, <3>1
    <3> QED BY Zenon, <1>4, <1>5, <2>2, <3>2
  <2>3. CASE i - D - H \in 1..S
    <3>1. /\ i - D \in 1..(H + S + L) /\ D + (i - D) = i
          /\ H + (i - D - H) = i - D
      BY <1>2, <1>3, <2>3
    <3>2. delivered'[i] = Drained(q)[i - D]
      BY Zenon, <1>3, <3>1
    <3>3. Drained(q)[H + (i - D - H)] = q.slots[q.order[i - D - H]]
      BY Zenon, <1>2, <2>3
    <3> QED BY Zenon, <1>4, <1>5, <2>3, <3>1, <3>2, <3>3
  <2>4. CASE i - D - H - S \in 1..L
    <3>1. /\ i - D \in 1..(H + S + L) /\ D + (i - D) = i
          /\ H + S + (i - D - H - S) = i - D
      BY <1>2, <1>3, <2>4
    <3>2. delivered'[i] = Drained(q)[i - D]
      BY Zenon, <1>3, <3>1
    <3>3. Drained(q)[H + S + (i - D - H - S)] = q.low[i - D - H - S]
      BY Zenon, <1>2, <2>4
    <3> QED BY Zenon, <1>5, <2>4, <3>1, <3>2, <3>3
  <2>5. i \in 1..(D + (H + S + L)) /\ D \in Nat /\ H \in Nat /\ S \in Nat /\ L \in Nat
    BY Zenon, <1>2, <1>3
  <2>6. i \in 1..D \/ i - D \in 1..H \/ i - D - H \in 1..S \/ i - D - H - S \in 1..L
    BY <2>5
  <2> QED BY Zenon, <2>1, <2>2, <2>3, <2>4, <2>6
<1>6. /\ \A j \in 1..D : j \in 1..Len(delivered') /\ delivered'[j] = delivered[j]
      /\ \A j \in 1..L : \E i \in 1..Len(delivered') : delivered'[i] = q.low[j]
  <2>1. \A j \in 1..D : j \in 1..Len(delivered')
    BY <1>2, <1>3
  <2>2. ASSUME NEW j \in 1..L
        PROVE  \E i \in 1..Len(delivered') : delivered'[i] = q.low[j]
    <3>1. H + S + j \in 1..(H + S + L) /\ D + (H + S + j) \in 1..Len(delivered')
      BY <1>2, <1>3
    <3>2. delivered'[D + (H + S + j)] = q.low[j]
      BY Zenon, <1>2, <1>3, <3>1
    <3> QED BY Zenon, <3>1, <3>2
  <2> QED BY Zenon, <1>3, <2>1, <2>2
<1>7. Len(q'.low) = 0 /\ Len(q'.high) = 0 /\ 1..Len(q'.low) = {}
  BY <1>1
<1>8. ASSUME NEW n \in 1..Len(pushes)
      PROVE  n \in Dropped' <=> n \in Dropped
  <2>1. /\ D = Len(delivered) /\ L = Len(q.low) /\ pushes' = pushes
        /\ \A i \in 1..Len(q'.low) : FALSE
    BY Zenon, <1>1, <1>7 DEF D, L
  <2>2. ASSUME n \in Dropped PROVE n \in Dropped'
    <3>1. pushes[n].lane = "Low" /\ ~ (\E j \in 1..D : delivered[j] = pushes[n])
          /\ ~ (\E j \in 1..L : q.low[j] = pushes[n])
      BY Zenon, <2>1, <2>2 DEF Dropped
    <3>2. \A i \in 1..Len(delivered') : delivered'[i] # pushes[n]
      BY Zenon, <1>5, <3>1
    <3> QED BY Zenon, <2>1, <3>1, <3>2 DEF Dropped
  <2>3. ASSUME n \in Dropped' PROVE n \in Dropped
    <3>1. pushes[n].lane = "Low" /\ \A i \in 1..Len(delivered') : delivered'[i] # pushes[n]
      BY Zenon, <2>1, <2>3 DEF Dropped
    <3>2. /\ \A j \in 1..Len(delivered) : delivered[j] # pushes[n]
          /\ \A j \in 1..Len(q.low) : q.low[j] # pushes[n]
      BY Zenon, <1>6, <2>1, <3>1
    <3> QED BY Zenon, <3>1, <3>2 DEF Dropped
  <2> QED BY Zenon, <2>2, <2>3
<1>9. Dropped' = Dropped
  <2>1. Dropped' \subseteq 1..Len(pushes) /\ Dropped \subseteq 1..Len(pushes)
    BY Zenon, <1>1 DEF Dropped
  <2> QED BY Zenon, <1>8, <2>1
<1>10. 0 <= HighCapacity /\ 0 <= LowCapacity
  BY CapacityAssumption
<1> QED BY Zenon, <1>1, <1>7, <1>9, <1>10 DEF LossesAreCounted

\* The bounded lanes keep their bounds, and what dropped() reports for the low
\* lane is what was really lost there: push evicts the oldest that waits, one
\* for every count, and drain_ready loses none.
THEOREM LossesAlwaysCounted == QueueSpec => []LossesAreCounted
<1>1. QueueInit => LossesAreCounted
  <2> SUFFICES ASSUME QueueInit PROVE LossesAreCounted
    OBVIOUS
  <2>1. /\ q.high = <<>> /\ q.low = <<>> /\ q.lostLow = 0 /\ pushes = <<>>
    BY DEF QueueInit, EmptyQueue
  <2>2. Dropped = {}
    BY <2>1 DEF Dropped
  <2>3. Len(q.high) <= HighCapacity /\ Len(q.low) <= LowCapacity
    BY <2>1, CapacityAssumption
  <2> QED BY <2>1, <2>2, <2>3, FS_EmptySet DEF LossesAreCounted
<1>2. QueueInv /\ QueueInv' /\ LossesAreCounted /\ [QueueNext]_queueVars => LossesAreCounted'
  <2> SUFFICES ASSUME QueueInv, QueueInv', LossesAreCounted, [QueueNext]_queueVars
               PROVE  LossesAreCounted'
    OBVIOUS
  <2>1. ASSUME NEW item \in Items, NEW b \in Bots, Push(item, b)
        PROVE  LossesAreCounted'
    <3> DEFINE lane == priority(item)
               e == [lane |-> lane, bot |-> b, name |-> name(item), id |-> Len(pushes) + 1]
    <3>1. PushOf(e)
      BY Zenon, <2>1 DEF Push, PushOf
    <3>4. lane \in Priority /\ name(item) \in Names
      BY PriorityType DEF Names
    <3> HIDE DEF lane
    <3>2. e \in Envelope /\ e.lane = lane
      BY <3>4 DEF Envelope, QueueInv, TypeInv
    <3> HIDE DEF e
    <3>3. lane \in {"High", "Coalescible"} \/ lane = "Low"
      BY <3>4 DEF Priority
    <3> QED BY Zenon, <3>1, <3>2, <3>3, PushElsewhere, PushDrops
  <2>2. CASE drain_ready
    BY Zenon, <2>2, DrainDrops
  <2>3. CASE UNCHANGED queueVars
    BY Zenon, <2>3 DEF queueVars, LossesAreCounted, Dropped
  <2> QED BY Zenon, <2>1, <2>2, <2>3 DEF QueueNext
<1> QED BY <1>1, <1>2, Invariant, PTL DEF QueueSpec
=============================================================================
