---------------------------- MODULE QueueContract ----------------------------
(***************************************************************************)
(* Producers that push envelopes into a PriorityQueue and a worker that    *)
(* drains it, each under the queue's mutex, with a history of what was     *)
(* pushed and of what was delivered: what the lanes promise whatever the   *)
(* order of pushes and drains.                                             *)
(***************************************************************************)
EXTENDS PriorityQueue, FiniteSets

CONSTANTS
  Bots,
  Items,          \* the kinds of work item that are pushed
  MaxPushes       \* bound: pushes in one behaviour

-----------------------------------------------------------------------------
(* What event.rs makes of a work item.  An item is a WorkItem variant or,  *)
(* for a BotEvent, a variant of that; nested variants with one lane and    *)
(* one name are one item.                                                  *)
HighItems ==
  {"connecting", "connected", "disconnected", "reconnect_scheduled", "retry_started",
   "retries_exhausted", "stopped", "kicked", "death", "login", "spawned",
   "hud_death", "hud_respawned",
   "gui_opened", "gui_closed", "transaction_finished", "transaction_rejected",
   "action_result", "callback_completion", "script_error", "script_disabled"}

StateItems ==
  {"health", "time", "weather",
   "hud_vitals", "hud_experience", "hud_game_mode", "hud_abilities", "hud_hotbar",
   "hud_cooldown", "hud_effect", "hud_attributes", "hud_border", "hud_difficulty",
   "hud_spawn_position", "hud_time", "hud_weather", "player_updated"}

LowItems ==
  {"chat", "system_chat", "player_joined", "player_left", "entity_spawned",
   "entity_removed", "presentation", "action_bar", "title", "boss_bar", "scoreboard",
   "team", "inventory", "message", "timer", "worker_overload"}

ASSUME ItemsAssumption == Items \subseteq HighItems \cup StateItems \cup LowItems

priority(item) ==
  CASE item \in HighItems -> "High"
    [] item \in StateItems -> "Coalescible"
    [] item \in LowItems -> "Low"

(* The name a script subscribes to.  The kinds of hud event share one, and *)
(* hud events share the names of the death, time and weather they repeat.  *)
name(item) ==
  CASE item = "hud_death" -> "death"
    [] item = "hud_time" -> "time"
    [] item = "hud_weather" -> "weather"
    [] item \in {"transaction_finished", "transaction_rejected"} -> "inventory"
    [] item \in {"hud_respawned", "hud_vitals", "hud_experience", "hud_game_mode",
                "hud_abilities", "hud_hotbar", "hud_cooldown", "hud_effect",
                "hud_attributes", "hud_border", "hud_difficulty",
                "hud_spawn_position"} -> "hud"
    [] OTHER -> item

Names == {name(item) : item \in Items}

-----------------------------------------------------------------------------
VARIABLES
  q,          \* the queue
  pushes,     \* history: every envelope pushed, in order; its id is its place
  refused,    \* history: the ids of the ones push rejected
  delivered   \* history: what the batches held, in order

queueVars == <<q, pushes, refused, delivered>>

Envelope == [lane : Priority, bot : Bots, name : Names, id : Nat]

QueueInit ==
  /\ q = EmptyQueue
  /\ pushes = <<>>
  /\ refused = {}
  /\ delivered = <<>>

Push(item, b) ==
  LET e == [lane |-> priority(item), bot |-> b, name |-> name(item), id |-> Len(pushes) + 1]
      p == push(q, e) IN
  /\ Len(pushes) < MaxPushes
  /\ q' = p.queue
  /\ pushes' = Append(pushes, e)
  /\ refused' = IF p.outcome = "CriticalOverflow" THEN refused \cup {e.id} ELSE refused
  /\ UNCHANGED delivered

drain_ready ==
  /\ ~ is_empty(q)
  /\ delivered' = delivered \o Drained(q)
  /\ q' = AfterDrain(q)
  /\ UNCHANGED <<pushes, refused>>

QueueNext ==
  \/ \E item \in Items, b \in Bots : Push(item, b)
  \/ drain_ready

QueueSpec == QueueInit /\ [][QueueNext]_queueVars

-----------------------------------------------------------------------------
(* The pushes that wrote a bot's state, and the latest of a set of pushes. *)
Sent(ps, k) == {n \in 1..Len(ps) : ps[n].lane = "Coalescible" /\ Key(ps[n]) = k}
IsLatest(n, sent) == n \in sent /\ \A m \in sent : m <= n

(* Lifecycle events, action results and callback completions that push     *)
(* accepted are all delivered, once and in order: nothing is evicted to    *)
(* make room, push told the producer of each one it refused, and dropped() *)
(* counts those.                                                           *)
CriticalNeverLost ==
  LET stream == delivered \o q.high
      Critical == {i \in 1..Len(stream) : stream[i].lane = "High"} IN
  /\ \A i \in Critical : /\ stream[i].id \in 1..Len(pushes) \ refused
                         /\ stream[i] = pushes[stream[i].id]
  /\ \A i, j \in Critical : i < j => stream[i].id < stream[j].id
  /\ \A n \in 1..Len(pushes) \ refused :
       pushes[n].lane = "High" => \E i \in Critical : stream[i].id = n
  /\ q.lostHigh = Cardinality(refused)

(* Of a bot's state events of one name the one that was pushed last is the *)
(* one that waits or, if none waits, the one that was delivered last.      *)
LatestStateWins ==
  \A k \in Bots \X Names :
    IF k \in DOMAIN q.slots
    THEN \E n \in Sent(pushes, k) : IsLatest(n, Sent(pushes, k)) /\ q.slots[k] = pushes[n]
    ELSE \A n \in Sent(pushes, k) :
           IsLatest(n, Sent(pushes, k)) =>
             \E i \in 1..Len(delivered) :
               /\ delivered[i] = pushes[n]
               /\ \A j \in (i + 1)..Len(delivered) :
                    ~ (delivered[j].lane = "Coalescible" /\ Key(delivered[j]) = k)

(* Two envelopes whose order matters to a script: of one lane or, for      *)
(* state, of one bot and one name.                                         *)
SameStream(e, f) == e.lane = f.lane /\ (e.lane = "Coalescible" => Key(e) = Key(f))

(* Delivery never goes back in time within a lane or within a bot's state: *)
(* drain_ready empties each lane from the front.                           *)
DeliveredInOrder ==
  \A i, j \in 1..Len(delivered) :
    i < j /\ SameStream(delivered[i], delivered[j]) => delivered[i].id < delivered[j].id
=============================================================================
