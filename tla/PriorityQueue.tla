---------------------------- MODULE PriorityQueue ----------------------------
(***************************************************************************)
(* The three-lane queue of src/src/lua/queue.rs as operators on a record:  *)
(* a bounded high lane that refuses the newest item when full, one slot    *)
(* per (bot, name) for state that only matters in its latest version, and  *)
(* a bounded low lane that drops its oldest.                               *)
(*                                                                         *)
(* An envelope is a record with the fields lane, bot, name and id; id      *)
(* stands for the payload.  A definition named after another one, _ and a  *)
(* few words is that definition with a mistake in it.                      *)
(***************************************************************************)
EXTENDS Naturals, Sequences, Functions

CONSTANTS HighCapacity, LowCapacity

ASSUME CapacityAssumption == HighCapacity \in Nat /\ LowCapacity \in Nat \ {0}

Priority == {"High", "Coalescible", "Low"}

EmptyQueue ==
  [high |-> <<>>, order |-> <<>>, slots |-> [k \in {} |-> 0], low |-> <<>>,
   lostHigh |-> 0, lostLow |-> 0]

Key(e) == <<e.bot, e.name>>

(* What push returns and the queue it leaves. *)
Pushed(q, outcome) == [queue |-> q, outcome |-> outcome]

push_High_EvictOldest(q, e) ==
  IF Len(q.high) >= HighCapacity
  THEN Pushed([q EXCEPT !.high = Append(Tail(@), e)], "Accepted")
  ELSE Pushed([q EXCEPT !.high = Append(@, e)], "Accepted")

push_High_Front(q, e) ==
  IF Len(q.high) >= HighCapacity
  THEN Pushed([q EXCEPT !.lostHigh = @ + 1], "CriticalOverflow")
  ELSE Pushed([q EXCEPT !.high = <<e>> \o @], "Accepted")

push_High(q, e) ==
  IF Len(q.high) >= HighCapacity
  THEN Pushed([q EXCEPT !.lostHigh = @ + 1], "CriticalOverflow")
  ELSE Pushed([q EXCEPT !.high = Append(@, e)], "Accepted")

PutSlot(q, e) == [q EXCEPT !.slots = [k \in DOMAIN @ \cup {Key(e)} |->
                                        IF k = Key(e) THEN e ELSE @[k]]]

push_Coalescible_KeepFirst(q, e) ==
  IF Key(e) \in DOMAIN q.slots
  THEN Pushed(q, "Coalesced")
  ELSE Pushed([PutSlot(q, e) EXCEPT !.order = Append(@, Key(e))], "Accepted")

(* A newer version of a waiting state takes its place in line. *)
push_Coalescible(q, e) ==
  IF Key(e) \in DOMAIN q.slots
  THEN Pushed(PutSlot(q, e), "Coalesced")
  ELSE Pushed([PutSlot(q, e) EXCEPT !.order = Append(@, Key(e))], "Accepted")

push_Low(q, e) ==
  IF Len(q.low) >= LowCapacity
  THEN Pushed([q EXCEPT !.low = Append(Tail(@), e), !.lostLow = @ + 1],
              "DroppedOldest")
  ELSE Pushed([q EXCEPT !.low = Append(@, e)], "Accepted")

push(q, e) ==
  CASE e.lane = "High" -> push_High(q, e)
    [] e.lane = "Coalescible" -> push_Coalescible(q, e)
    [] e.lane = "Low" -> push_Low(q, e)

(* The slots in the order their keys came, then emptied. *)
SlotsInOrder(q) == [i \in 1..Len(q.order) |-> q.slots[q.order[i]]]

Drained(q) == q.high \o SlotsInOrder(q) \o q.low

AfterDrain(q) ==
  [EmptyQueue EXCEPT !.lostHigh = q.lostHigh, !.lostLow = q.lostLow]

is_empty(q) == q.high = <<>> /\ DOMAIN q.slots = {} /\ q.low = <<>>
=============================================================================
