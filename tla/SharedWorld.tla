----------------------------- MODULE SharedWorld -----------------------------
(***************************************************************************)
(* The chunks of every bot of the process (World) and the table through    *)
(* which bots of one server share equal ones (SharedChunkStore). A payload *)
(* is an allocation, named by a number: the worlds hold it by Arc, the     *)
(* store only by Weak, so that it dies with the last world that holds it.  *)
(* A Weak that can no longer be upgraded is gone: whatever looks into a    *)
(* bucket begins by dropping those (retain), and none of them is the Weak  *)
(* of a payload that is later allocated in the same place. One shard of    *)
(* the store is modelled; a call of intern holds its lock.                 *)
(*                                                                         *)
(* insertion_order and entries have the same keys, because prune, which is *)
(* called by tests only, is the one operation that touches them apart: so  *)
(* the store is one sequence of entries, the oldest first.                 *)
(***************************************************************************)
EXTENDS Naturals, Sequences, FiniteSets

CONSTANTS
  Bots,           \* the clients of this process
  Scopes,         \* WorldScopes: server, world and dimension
  Chunks,         \* chunk positions
  Contents,       \* what a chunk can hold
  Fingerprint,    \* Contents -> hashes; it may collide
  MaxKeys,        \* max_keys_per_shard
  MaxCollisions,  \* max_collisions_per_key
  NoScope         \* a bot without a world

VARIABLES
  worlds,  \* Bots -> its scope and, for each position, a payload or 0
  store,   \* the entries [key, bucket]
  heap,    \* payload -> what is in it
  told     \* history: what each bot's server last said of each position

worldVars == <<worlds, store, heap, told>>

\* As many allocations as worlds can hold, and one more.
Payloads == 1..(Cardinality(Bots) * Cardinality(Chunks) + 1)

NoContent == "none"
NoWorld == [scope |-> NoScope, chunks |-> [p \in Chunks |-> 0]]
Nothing == [scope |-> NoScope, at |-> 0, content |-> NoContent]

WorldInit ==
  /\ worlds = [b \in Bots |-> NoWorld]
  /\ store = <<>>
  /\ heap = [i \in Payloads |-> Nothing]
  /\ told = [b \in Bots |-> [p \in Chunks |-> NoContent]]

HasChunk(b, p) == worlds[b].chunks[p] # 0

-----------------------------------------------------------------------------
(* SharedChunkStore::intern.                                               *)

\* strong_count() > 0.
Live(w, i) == \E b \in Bots, p \in Chunks : w[b].chunks[p] = i

Held(w) == {i \in Payloads : Live(w, i)}

Free == Payloads \ Held(worlds)

\* The worlds are now w; the payloads none of them holds are gone.
Settle(w, s, h) ==
  /\ worlds' = w
  /\ store' = [n \in DOMAIN s |->
                 [key |-> s[n].key, bucket |-> s[n].bucket \cap Held(w)]]
  /\ heap' = [i \in Payloads |-> IF i \in Held(w) THEN h[i] ELSE Nothing]

Key(payload) ==
  [scope |-> payload.scope, at |-> payload.at,
   print |-> Fingerprint[payload.content]]

EntryOf(key) == {n \in DOMAIN store : store[n].key = key}

\* The payloads of a bucket that may be shared.
Candidates_SameFingerprint(bucket, payload) == bucket

Candidates(bucket, payload) == {i \in bucket : heap[i] = payload}

\* What intern returns, and the table and the heap it leaves.
Reused(i, s) == [payload |-> i, store |-> s, heap |-> heap]

Allocated(i, payload, s) ==
  [payload |-> i, store |-> s, heap |-> [heap EXCEPT ![i] = payload]]

\* There is an entry for the key.
Found(n, payload, fresh) ==
  LET live == store[n].bucket
      same == Candidates(live, payload)
  IN  IF same # {} THEN Reused(CHOOSE i \in same : TRUE, store)
      ELSE Allocated(fresh, payload,
                     IF Cardinality(live) < MaxCollisions
                       THEN [store EXCEPT ![n].bucket = live \cup {fresh}]
                       ELSE store)

\* There is none: the oldest entries make room for it.
Added(payload, fresh) ==
  LET kept == IF Len(store) >= MaxKeys
                THEN SubSeq(store, Len(store) - MaxKeys + 2, Len(store))
                ELSE store
  IN  Allocated(fresh, payload,
                Append(kept, [key |-> Key(payload), bucket |-> {fresh}]))

intern(payload) ==
  LET fresh == CHOOSE i \in Free : TRUE
      found == EntryOf(Key(payload))
  IN  IF found = {} THEN Added(payload, fresh)
                    ELSE Found(CHOOSE n \in found : TRUE, payload, fresh)

-----------------------------------------------------------------------------
(* World.                                                                  *)

\* SharedWorldContext::world, on login and respawn: an empty map.
EnterWorld(b, scope) ==
  /\ Settle([worlds EXCEPT ![b] = [NoWorld EXCEPT !.scope = scope]],
            store, heap)
  /\ told' = [told EXCEPT ![b] = [p \in Chunks |-> NoContent]]

\* insert_chunk. There is always a free payload: the worlds cannot hold all.
ChunkArrives(b, p, content) ==
  LET interned == intern([scope |-> worlds[b].scope, at |-> p,
                          content |-> content])
  IN  /\ worlds[b].scope # NoScope /\ Free # {}
      /\ Settle([worlds EXCEPT ![b].chunks[p] = interned.payload],
                interned.store, interned.heap)
      /\ told' = [told EXCEPT ![b][p] = content]

\* A block, its light or its block entity changes: the payload is copied,
\* changed and interned anew.
ChunkChanges(b, p, content) ==
  HasChunk(b, p) /\ ChunkArrives(b, p, content)

\* unload_chunk.
ChunkUnloads(b, p) ==
  /\ Settle([worlds EXCEPT ![b].chunks[p] = 0], store, heap)
  /\ told' = [told EXCEPT ![b][p] = NoContent]

\* The PlayState that owns the World is dropped.
LeaveWorld(b) == EnterWorld(b, NoScope)

WorldStep(b, p) ==
  \/ \E scope \in Scopes : EnterWorld(b, scope)
  \/ \E content \in Contents :
       ChunkArrives(b, p, content) \/ ChunkChanges(b, p, content)
  \/ ChunkUnloads(b, p)
  \/ LeaveWorld(b)

-----------------------------------------------------------------------------
(* Properties.                                                             *)

\* What a bot holds at a position is what its own server last sent for that
\* position in this world, whatever the other bots of the process were sent,
\* although payloads are shared by hash, hashes collide, entries are evicted
\* and payloads die while the store still refers to them (World::intern,
\* SharedChunkStore::intern_with_fingerprint).
ChunkIsMine ==
  \A b \in Bots, p \in Chunks :
    IF HasChunk(b, p)
      THEN heap[worlds[b].chunks[p]] =
             [scope |-> worlds[b].scope, at |-> p, content |-> told[b][p]]
      ELSE told[b][p] = NoContent
=============================================================================
