--------------------------- MODULE LuaWorkerProofs ---------------------------
(***************************************************************************)
(* The safety properties of LuaWorker for any number of workers, bots and  *)
(* requests and any limits.  The inductive invariant follows a result from *)
(* the task that ends an action to the callback that waits for it: every   *)
(* item or record that names a request is of an action that has ended or   *)
(* was refused, a callback waits only at the worker that asked and has not *)
(* been called, and one whose action is over has its result still to be    *)
(* pushed to that worker, in its queue, in its list of failures or in the  *)
(* batch or list it is working on.                                         *)
(***************************************************************************)
EXTENDS LuaWorker, FiniteSetTheorems, TLAPS

Over == {"done", "refused"}

Items == [lane : {"High", "Low"}, bot : Bots \cup {0},
          name : {"event", "action_result", "callback_completion", "worker_overload"},
          id : Requests \cup {0}]

\* An item names only a request that is over, in the lane that loses nothing
\* without saying so.
GoodItem(e, t) ==
  /\ e \in Items
  /\ Carries(e) => e.lane = "High" /\ e.id \in Requests /\ t[e.id].at \in Over
  /\ e.name \in {"event", "action_result"} => e.bot \in Bots

Codes ==
  {Idle, Global, Unwinding} \cup {CallbackOf(r) : r \in Requests}
    \cup {HandlerOf(b) : b \in Bots} \cup {TimerOf(b) : b \in Bots}

Pushes == [at : {"check", "push", "overflow"}, todo : Seq([to : Workers, item : Items])]

\* No state event is pushed here: the slots stay empty.
NoSlots == [k \in {} |-> 0]
Queues == [high : Seq(Items), order : {<<>>}, slots : {NoSlots},
           low : Seq(Items), lostHigh : Nat, lostLow : Nat]

TypeInv ==
  /\ scene \in Scenes
  /\ task \in [Requests -> {NoTask} \cup
                 [at : {"running", "done", "refused"}, bot : Bots, origin : Workers]]
  /\ queue \in [Workers -> Queues]
  /\ push_ \in [Producers -> {NoPush} \cup Pushes]
  /\ \A p \in Producers : push_[p] = NoPush \/ push_[p].todo # <<>>
  /\ closed \in [Workers -> BOOLEAN]
  /\ failed \in [Workers -> Seq(Requests \X Outcome)]
  /\ shutdown \in BOOLEAN /\ closing \in BOOLEAN
  /\ pc \in [Workers -> {"head", "wait", "drained", "batch", "timer", "done", "dead"}
                          \cup Lists]
  /\ batch = [w \in Workers |-> batch[w]]
  /\ running \in [Workers -> Codes]
  /\ pending \in [Workers -> SUBSET Requests]
  /\ fired \in [Requests -> Seq(Outcome)]
  /\ cause \in [Requests -> SUBSET {"closed", "overflow", "evicted"}]

\* What is in flight names only requests that are over.
ItemInv ==
  /\ \A p \in Producers : \A i \in 1..Len(push_[p].todo) :
       GoodItem(push_[p].todo[i].item, task)
  /\ \A w \in Workers :
       /\ \A i \in 1..Len(queue[w].high) : GoodItem(queue[w].high[i], task)
       /\ \A i \in 1..Len(queue[w].low) : /\ GoodItem(queue[w].low[i], task)
                                          /\ ~ Carries(queue[w].low[i])
       /\ pc[w] \in {"drained", "batch"} =>
            /\ batch[w] \in Seq(Items)
            /\ \A i \in 1..Len(batch[w]) : GoodItem(batch[w][i], task)
       /\ pc[w] \in {"head", "wait", "timer", "done"} => batch[w] = <<>>

\* A record of a failure tells what happened.
GoodEntry(x, c, down) ==
  /\ x[2] # "result"
  /\ x[2] = "worker_overloaded" => "overflow" \in c[x[1]]
  /\ x[2] = "shutdown" => down

EntryInv ==
  /\ closing => shutdown
  /\ \A w \in Workers :
       /\ closed[w] => shutdown
       /\ \A i \in 1..Len(failed[w]) : GoodEntry(failed[w][i], cause, shutdown)
       /\ pc[w] \in Lists =>
            /\ batch[w] \in Seq(Requests \X Outcome)
            /\ \A i \in 1..Len(batch[w]) : GoodEntry(batch[w][i], cause, shutdown)

\* Where a worker may be inside script code.
RunInv ==
  \A w \in Workers :
    /\ running[w] # Idle => pc[w] \in {"batch", "timer"} \cup Lists
    /\ running[w] = Unwinding => scene.chained
    /\ pc[w] = "cleanup" => running[w].kind \in {"idle", "unwinding", "callback"}

\* A callback that waits was not called, and waits where it was registered.
PendingInv ==
  /\ \A r \in Requests : task[r] = NoTask => fired[r] = <<>>
  /\ \A r \in Requests : Len(fired[r]) <= 1
  /\ \A w \in Workers : \A r \in pending[w] :
       task[r] # NoTask /\ task[r].origin = w /\ fired[r] = <<>>

\* A push that is still to be made to w with the result of r.
Owed(u, w, r) == \E i \in 1..Len(u.todo) : /\ u.todo[i].to = w
                                           /\ Carries(u.todo[i].item)
                                           /\ u.todo[i].item.id = r

Working(w, r) ==
  IF pc[w] \in Lists THEN Listed(batch[w], r) ELSE Mentions(batch[w], r)

\* A result that a callback waits for is on its way.
WayInv ==
  \A w \in Workers : \A r \in pending[w] :
    task[r].at \in Over /\ ~ Ended(w) =>
      \/ Owed(push_[r], w, r)
      \/ Mentions(queue[w].high, r)
      \/ Listed(failed[w], r)
      \/ Working(w, r)

\* shutdown_cleanup has them all on its list.
CleanInv ==
  \A w \in Workers :
    /\ pc[w] = "cleanup" => \A r \in pending[w] : Listed(batch[w], r)
    /\ CleanExit

IInv == /\ TypeInv /\ ItemInv /\ EntryInv /\ RunInv
        /\ PendingInv /\ OutcomeIsTrue /\ WayInv /\ CleanInv

-----------------------------------------------------------------------------
(* The queue: what push and drain_ready do to the items in it.             *)

\* What becomes of a queue u that e is pushed into.
PushedInto(u, e, v, outcome) ==
  /\ v \in Queues
  /\ \A i \in 1..Len(v.high) : (\E j \in 1..Len(u.high) : v.high[i] = u.high[j]) \/ v.high[i] = e
  /\ \A i \in 1..Len(v.low) : \/ \E j \in 1..Len(u.low) : v.low[i] = u.low[j]
                              \/ v.low[i] = e /\ e.lane = "Low"
  /\ \A j \in 1..Len(u.high) : j \in 1..Len(v.high) /\ v.high[j] = u.high[j]
  /\ e.lane = "High" /\ outcome # "CriticalOverflow" =>
       \E i \in 1..Len(v.high) : v.high[i] = e

\* The empty list names no request.
LEMMA NothingIn == \A r : ~ Mentions(<<>>, r) /\ ~ Listed(<<>>, r)
BY DEF Mentions, Listed

\* Append adds one element at the end and moves no other.
LEMMA AppendFacts ==
  ASSUME NEW T, NEW s \in Seq(T), NEW x \in T
  PROVE  /\ Append(s, x) \in Seq(T) /\ Len(Append(s, x)) = Len(s) + 1 /\ Len(s) \in Nat
         /\ Append(s, x)[Len(s) + 1] = x
         /\ \A i \in 1..Len(s) : i \in 1..Len(Append(s, x)) /\ Append(s, x)[i] = s[i]
         /\ \A i \in 1..Len(Append(s, x)) :
              i \in 1..Len(s) \/ (i = Len(s) + 1 /\ Append(s, x)[i] = x)
         /\ Len(s) + 1 \in 1..Len(Append(s, x))
OBVIOUS

\* Concatenation keeps the elements of both sequences in their order.
LEMMA ConcatFacts ==
  ASSUME NEW T, NEW s \in Seq(T), NEW t \in Seq(T)
  PROVE  /\ s \o t \in Seq(T) /\ Len(s \o t) = Len(s) + Len(t)
         /\ Len(s) \in Nat /\ Len(t) \in Nat
         /\ \A i \in 1..Len(s) : (s \o t)[i] = s[i]
         /\ \A i \in 1..Len(t) : (s \o t)[Len(s) + i] = t[i]
OBVIOUS

\* Tail drops the first element and shifts the others by one.
LEMMA TailFacts ==
  ASSUME NEW T, NEW s \in Seq(T), s # <<>>
  PROVE  /\ Tail(s) \in Seq(T) /\ Len(Tail(s)) = Len(s) - 1 /\ Len(s) \in Nat \ {0}
         /\ \A i \in 1..Len(Tail(s)) : i + 1 \in 1..Len(s) /\ Tail(s)[i] = s[i + 1]
         /\ \A i \in 1..Len(s) : i # 1 => i - 1 \in 1..Len(Tail(s)) /\ Tail(s)[i - 1] = s[i]
         /\ Head(s) = s[1] /\ s[1] \in T /\ 1 \in 1..Len(s)
OBVIOUS

\* BoundedEventQueue::push, path by path: what it keeps, adds, replaces and drops.
LEMMA PushQueue ==
  ASSUME NEW u \in Queues, NEW e \in Items
  PROVE  PushedInto(u, e, push(u, e).queue, push(u, e).outcome)
<1> DEFINE v == push(u, e).queue
           o == push(u, e).outcome
<1>0. /\ u.high \in Seq(Items) /\ u.low \in Seq(Items) /\ u.lostHigh \in Nat
      /\ u.lostLow \in Nat /\ Len(u.high) \in Nat /\ Len(u.low) \in Nat
  BY DEF Queues
<1>1. CASE e.lane = "High" /\ Len(u.high) >= HighCapacity
  <2>1. v = [u EXCEPT !.lostHigh = @ + 1] /\ o = "CriticalOverflow"
    BY <1>1 DEF push, push_High, Pushed
  <2>2. v \in Queues /\ v.high = u.high /\ v.low = u.low
    BY <1>0, <2>1 DEF Queues
  <2> HIDE DEF v, o
  <2>3. PushedInto(u, e, v, o)
    BY <2>1, <2>2 DEF PushedInto
  <2> QED BY <2>3 DEF v, o
<1>2. CASE e.lane = "High" /\ ~ (Len(u.high) >= HighCapacity)
  <2>1. v = [u EXCEPT !.high = Append(@, e)] /\ o = "Accepted"
    BY <1>2 DEF push, push_High, Pushed
  <2>2. v \in Queues /\ v.high = Append(u.high, e) /\ v.low = u.low
    <3>1. Append(u.high, e) \in Seq(Items)
      BY Zenon, <1>0, AppendFacts
    <3> QED BY Zenon, <1>0, <2>1, <3>1 DEF Queues
  <2>3. /\ v.high[Len(u.high) + 1] = e
        /\ \A i \in 1..Len(u.high) : i \in 1..Len(v.high) /\ v.high[i] = u.high[i]
        /\ \A i \in 1..Len(v.high) :
             i \in 1..Len(u.high) \/ (i = Len(u.high) + 1 /\ v.high[i] = e)
        /\ Len(u.high) + 1 \in 1..Len(v.high)
    BY <1>0, <2>2, AppendFacts
  <2>4. v \in Queues /\ v.low = u.low
    BY <2>2
  <2> HIDE DEF v, o
  <2>5. PushedInto(u, e, v, o)
    BY <2>3, <2>4 DEF PushedInto
  <2> QED BY <2>5 DEF v, o
<1>3. CASE e.lane = "Low" /\ Len(u.low) >= LowCapacity
  <2> DEFINE t == Tail(u.low)
  <2>1. v = [u EXCEPT !.low = Append(Tail(@), e), !.lostLow = @ + 1]
    BY <1>3 DEF push, push_Low, Pushed
  <2>2. u.low # <<>>
    BY <1>0, <1>3, CapacityAssumption
  <2>3. t \in Seq(Items) /\ \A i \in 1..Len(t) : i + 1 \in 1..Len(u.low) /\ t[i] = u.low[i + 1]
    <3> DEFINE l == u.low
    <3>1. l \in Seq(Items) /\ l # <<>>
      BY <1>0, <2>2
    <3> HIDE DEF l
    <3>2. /\ Tail(l) \in Seq(Items)
          /\ \A i \in 1..Len(Tail(l)) : i + 1 \in 1..Len(l) /\ Tail(l)[i] = l[i + 1]
      BY <3>1, TailFacts
    <3> QED BY <3>2 DEF l
  <2>4. v \in Queues /\ v.high = u.high /\ v.low = Append(t, e)
    <3>1. t \in Seq(Items)
      BY <2>3
    <3> HIDE DEF t
    <3>2. Append(t, e) \in Seq(Items)
      BY <3>1
    <3>3. v = [u EXCEPT !.low = Append(t, e), !.lostLow = @ + 1]
      BY <2>1 DEF t
    <3> HIDE DEF v
    <3>4. /\ u = [high |-> u.high, order |-> u.order, slots |-> u.slots, low |-> u.low,
                  lostHigh |-> u.lostHigh, lostLow |-> u.lostLow]
          /\ u.order = <<>> /\ u.slots = NoSlots
      BY DEF Queues
    <3>5. v = [high |-> u.high, order |-> u.order, slots |-> u.slots, low |-> Append(t, e),
               lostHigh |-> u.lostHigh, lostLow |-> u.lostLow + 1]
      BY Zenon, <3>3, <3>4
    <3> QED BY <1>0, <3>2, <3>4, <3>5 DEF Queues
  <2> HIDE DEF t
  <2>5. \A i \in 1..Len(v.low) : (i \in 1..Len(t) /\ v.low[i] = t[i]) \/ v.low[i] = e
    <3>1. \A i \in 1..Len(Append(t, e)) :
            (i \in 1..Len(t) /\ Append(t, e)[i] = t[i]) \/ Append(t, e)[i] = e
      BY <2>3, AppendFacts
    <3> QED BY <2>4, <3>1
  <2>6. v \in Queues /\ v.high = u.high
    BY <2>4
  <2> HIDE DEF v, o
  <2>7. PushedInto(u, e, v, o)
    BY <1>3, <2>3, <2>5, <2>6 DEF PushedInto
  <2> QED BY <2>7 DEF v, o
<1>4. CASE e.lane = "Low" /\ ~ (Len(u.low) >= LowCapacity)
  <2>1. v = [u EXCEPT !.low = Append(@, e)]
    BY <1>4 DEF push, push_Low, Pushed
  <2>2. v \in Queues /\ v.high = u.high /\ v.low = Append(u.low, e)
    <3>1. Append(u.low, e) \in Seq(Items)
      BY <1>0
    <3> QED BY Zenon, <1>0, <2>1, <3>1 DEF Queues
  <2>3. \A i \in 1..Len(v.low) : (i \in 1..Len(u.low) /\ v.low[i] = u.low[i]) \/ v.low[i] = e
    <3> DEFINE l == u.low
    <3>1. l \in Seq(Items)
      BY <1>0
    <3> HIDE DEF l
    <3>2. \A i \in 1..Len(Append(l, e)) :
            (i \in 1..Len(l) /\ Append(l, e)[i] = l[i]) \/ Append(l, e)[i] = e
      BY <3>1, AppendFacts
    <3> QED BY <2>2, <3>2 DEF l
  <2>4. v \in Queues /\ v.high = u.high
    BY <2>2
  <2> HIDE DEF v, o
  <2>5. PushedInto(u, e, v, o)
    BY <1>4, <2>3, <2>4 DEF PushedInto
  <2> QED BY <2>5 DEF v, o
<1> QED BY <1>1, <1>2, <1>3, <1>4 DEF Items

\* A batch is the high lane, then the low one: nothing waits in a slot.
LEMMA DrainQueue ==
  ASSUME NEW u \in Queues
  PROVE  /\ AfterDrain(u) \in Queues
         /\ AfterDrain(u).high = <<>> /\ AfterDrain(u).low = <<>>
         /\ Drained(u) \in Seq(Items)
         /\ \A i \in 1..Len(Drained(u)) : \/ \E j \in 1..Len(u.high) : Drained(u)[i] = u.high[j]
                                          \/ \E j \in 1..Len(u.low) : Drained(u)[i] = u.low[j]
         /\ \A j \in 1..Len(u.high) : j \in 1..Len(Drained(u)) /\ Drained(u)[j] = u.high[j]
<1> DEFINE h == u.high
           l == u.low
           d == h \o l
<1>1. /\ h \in Seq(Items) /\ l \in Seq(Items) /\ u.order = <<>>
      /\ u.lostHigh \in Nat /\ u.lostLow \in Nat
  BY DEF Queues
<1>2. SlotsInOrder(u) = <<>>
  BY <1>1 DEF SlotsInOrder
<1>3. Drained(u) = d
  BY <1>1, <1>2 DEF Drained
<1>4. /\ AfterDrain(u) \in Queues
      /\ AfterDrain(u).high = <<>> /\ AfterDrain(u).low = <<>>
  <2>1. AfterDrain(u) = [high |-> <<>>, order |-> <<>>, slots |-> NoSlots, low |-> <<>>,
                         lostHigh |-> u.lostHigh, lostLow |-> u.lostLow]
    <3>1. EmptyQueue = [high |-> <<>>, order |-> <<>>, slots |-> NoSlots, low |-> <<>>,
                        lostHigh |-> 0, lostLow |-> 0]
      BY DEF EmptyQueue, NoSlots
    <3> DEFINE none == EmptyQueue
    <3>2. /\ none = [high |-> none.high, order |-> none.order, slots |-> none.slots,
                     low |-> none.low, lostHigh |-> none.lostHigh, lostLow |-> none.lostLow]
          /\ none.high = <<>> /\ none.order = <<>> /\ none.slots = NoSlots /\ none.low = <<>>
      BY <3>1
    <3> HIDE DEF none
    <3>3. AfterDrain(u) = [none EXCEPT !.lostHigh = u.lostHigh, !.lostLow = u.lostLow]
      BY DEF AfterDrain, none
    <3>4. AfterDrain(u) = [high |-> none.high, order |-> none.order, slots |-> none.slots,
                           low |-> none.low, lostHigh |-> u.lostHigh, lostLow |-> u.lostLow]
      BY Zenon, <3>2, <3>3
    <3> QED BY <3>2, <3>4
  <2>2. <<>> \in Seq(Items)
    OBVIOUS
  <2>3. u.lostHigh \in Nat /\ u.lostLow \in Nat
    BY <1>1
  <2> QED BY <2>1, <2>2, <2>3 DEF Queues
<1> HIDE DEF h, l
<1>5. /\ d \in Seq(Items) /\ Len(d) = Len(h) + Len(l) /\ Len(h) \in Nat /\ Len(l) \in Nat
      /\ \A i \in 1..Len(h) : d[i] = h[i]
      /\ \A i \in 1..Len(l) : d[Len(h) + i] = l[i]
  <2>1. h \in Seq(Items) /\ l \in Seq(Items)
    BY <1>1
  <2> QED BY <2>1, ConcatFacts
<1> HIDE DEF d
<1>6. \A i \in 1..Len(d) : \/ \E j \in 1..Len(h) : d[i] = h[j]
                           \/ \E j \in 1..Len(l) : d[i] = l[j]
  <2> TAKE i \in 1..Len(d)
  <2>1. CASE i <= Len(h)
    BY <1>5, <2>1
  <2>2. CASE i > Len(h)
    <3>1. i - Len(h) \in 1..Len(l) /\ Len(h) + (i - Len(h)) = i
      BY <1>5, <2>2
    <3> QED BY Zenon, <1>5, <2>2, <3>1
  <2> QED BY <1>5, <2>1, <2>2
<1>7. \A j \in 1..Len(h) : j \in 1..Len(d) /\ d[j] = h[j]
  BY <1>5
<1> QED BY Zenon, <1>3, <1>4, <1>5, <1>6, <1>7 DEF h, l

-----------------------------------------------------------------------------
(* Producers.                                                              *)

\* What a producer that is pushing has in hand.
LEMMA InHand ==
  ASSUME TypeInv, NEW p \in Producers, push_[p].at # "idle"
  PROVE  /\ push_[p] \in Pushes /\ push_[p].todo \in Seq([to : Workers, item : Items])
         /\ push_[p].todo # <<>> /\ To(p) \in Workers /\ What(p) \in Items
         /\ To(p) = push_[p].todo[1].to /\ What(p) = push_[p].todo[1].item
         /\ 1 \in 1..Len(push_[p].todo)
<1> DEFINE s == push_[p].todo
<1>1. push_[p] \in Pushes /\ s # <<>>
  BY DEF TypeInv, NoPush
<1>2. s \in Seq([to : Workers, item : Items])
  BY <1>1 DEF Pushes
<1> HIDE DEF s
<1>3. Head(s) = s[1] /\ s[1] \in [to : Workers, item : Items] /\ 1 \in 1..Len(s)
  BY Zenon, <1>1, <1>2, TailFacts
<1> QED BY <1>1, <1>2, <1>3 DEF s, To, What

\* A step that makes no new pushes: each producer's are among the ones it had,
\* and at most the first one of p is gone.
Shrinks(p) ==
  /\ push_' \in [Producers -> {NoPush} \cup Pushes]
  /\ \A s \in Producers : push_'[s] = NoPush \/ push_'[s].todo # <<>>
  /\ \A s \in Producers : \A i \in 1..Len(push_'[s].todo) :
       \E j \in 1..Len(push_[s].todo) : push_'[s].todo[i] = push_[s].todo[j]
  /\ \A s \in Producers : \A j \in 1..Len(push_[s].todo) :
       \/ s = p /\ push_[s].todo[j] = push_[s].todo[1]
       \/ \E i \in 1..Len(push_'[s].todo) : push_'[s].todo[i] = push_[s].todo[j]

\* A dispatch that finishes one delivery has that one less to make.
LEMMA FinishShrinks ==
  ASSUME TypeInv, NEW p \in Producers, push_[p].at # "idle", Finish(p)
  PROVE  Shrinks(p)
<1> DEFINE t == push_[p].todo
           u == push_'[p]
<1>1. /\ push_[p] \in Pushes /\ t \in Seq([to : Workers, item : Items]) /\ t # <<>>
  BY Zenon, InHand
<1>2. /\ push_' = [push_ EXCEPT ![p] = u]
      /\ u = IF Len(t) = 1 THEN NoPush ELSE [at |-> "check", todo |-> Tail(t)]
  BY DEF Finish, TypeInv
<1> HIDE DEF t
<1>3. /\ Tail(t) \in Seq([to : Workers, item : Items]) /\ Len(Tail(t)) = Len(t) - 1
      /\ Len(t) \in Nat \ {0}
      /\ \A i \in 1..Len(Tail(t)) : i + 1 \in 1..Len(t) /\ Tail(t)[i] = t[i + 1]
      /\ \A i \in 1..Len(t) : i # 1 => i - 1 \in 1..Len(Tail(t)) /\ Tail(t)[i - 1] = t[i]
  BY <1>1, TailFacts
<1> DEFINE rest == Tail(t)
<1> HIDE DEF rest, u
<1>11. /\ u \in {NoPush} \cup Pushes /\ (u = NoPush \/ u.todo # <<>>)
       /\ \A i \in 1..Len(u.todo) : \E j \in 1..Len(t) : u.todo[i] = t[j]
       /\ \A j \in 1..Len(t) : j = 1 \/ \E i \in 1..Len(u.todo) : u.todo[i] = t[j]
  <2>4. CASE Len(t) = 1
    <3>1. u = NoPush /\ u.todo = <<>>
      BY <1>2, <2>4 DEF NoPush
    <3> QED BY <2>4, <3>1
  <2>5. CASE Len(t) # 1
    <3>1. u = [at |-> "check", todo |-> rest]
      BY <1>2, <2>5 DEF rest
    <3>2. rest \in Seq([to : Workers, item : Items]) /\ Len(rest) = Len(t) - 1
      BY <1>3 DEF rest
    <3>3. rest # <<>>
      BY <1>3, <2>5, <3>2
    <3>4. u \in Pushes /\ u.todo = rest
      BY <3>1, <3>2 DEF Pushes
    <3> QED BY Zenon, <1>3, <3>3, <3>4 DEF rest
  <2> QED BY <2>4, <2>5
<1>6. \A s \in Producers : s # p => push_'[s] = push_[s]
  BY <1>2 DEF TypeInv
<1>7. push_' \in [Producers -> {NoPush} \cup Pushes]
  BY <1>2, <1>11 DEF TypeInv
<1>8. \A s \in Producers : push_'[s] = NoPush \/ push_'[s].todo # <<>>
  BY <1>11, <1>6 DEF TypeInv, u
<1>9. \A s \in Producers : \A i \in 1..Len(push_'[s].todo) :
        \E j \in 1..Len(push_[s].todo) : push_'[s].todo[i] = push_[s].todo[j]
  BY <1>11, <1>6 DEF u, t
<1>10. \A s \in Producers : \A j \in 1..Len(push_[s].todo) :
         \/ s = p /\ push_[s].todo[j] = push_[s].todo[1]
         \/ \E i \in 1..Len(push_'[s].todo) : push_'[s].todo[i] = push_[s].todo[j]
  <2> TAKE s \in Producers
  <2>1. CASE s = p
    BY <1>11, <2>1 DEF u, t
  <2>2. CASE s # p
    BY <1>6, <2>2
  <2> QED BY <2>1, <2>2
<1> QED BY Zenon, <1>7, <1>8, <1>9, <1>10 DEF Shrinks

\* A dispatch that moves to its next lock keeps its deliveries.
LEMMA ProceedKeeps ==
  ASSUME TypeInv, NEW p \in Producers, push_[p].at # "idle",
         NEW step \in {"push", "overflow"}, Proceed(p, step)
  PROVE  /\ Shrinks(p)
         /\ \A s \in Producers : push_'[s].todo = push_[s].todo
<1>1. push_[p] \in Pushes /\ push_[p].todo # <<>>
  BY InHand
<1>2. push_' = [push_ EXCEPT ![p] = [push_[p] EXCEPT !.at = step]]
  BY DEF Proceed
<1>3. /\ push_'[p] \in Pushes /\ push_'[p].todo = push_[p].todo
      /\ \A s \in Producers : s # p => push_'[s] = push_[s]
  BY Zenon, <1>1, <1>2 DEF TypeInv, Pushes
<1>4. push_' \in [Producers -> {NoPush} \cup Pushes]
  BY <1>2, <1>3 DEF TypeInv
<1>5. \A s \in Producers : push_'[s].todo = push_[s].todo
  BY <1>3
<1>6. \A s \in Producers : push_'[s] = NoPush \/ push_'[s].todo # <<>>
  BY Zenon, <1>1, <1>3 DEF TypeInv
<1> QED BY <1>4, <1>5, <1>6 DEF Shrinks

\* What record_failure leaves.
Recorded(p) ==
  /\ failed' \in [Workers -> Seq(Requests \X Outcome)]
  /\ cause' \in [Requests -> SUBSET {"closed", "overflow", "evicted"}]
  /\ \A r \in Requests : cause[r] \subseteq cause'[r]
  /\ \A w \in Workers : \A i \in 1..Len(failed'[w]) : GoodEntry(failed'[w][i], cause', shutdown)
  /\ \A w \in Workers, r \in Requests : Listed(failed[w], r) => Listed(failed'[w], r)
  /\ Carries(What(p)) => Listed(failed'[To(p)], What(p).id)

\* A request is listed when some entry of the list is about it.
LEMMA ListedIn ==
  ASSUME NEW T, NEW s \in Seq(T), NEW r
  PROVE  Listed(s, r) <=> \E i \in 1..Len(s) : s[i][1] = r
BY DEF Listed

\* A queue mentions a request when some item of it carries its result.
LEMMA MentionsIn ==
  ASSUME NEW T, NEW s \in Seq(T), NEW r
  PROVE  Mentions(s, r) <=> \E i \in 1..Len(s) : Carries(s[i]) /\ s[i].id = r
BY DEF Mentions

\* What a list mentions, a longer one does.
LEMMA MentionsGrow ==
  ASSUME NEW s \in Seq(Items), NEW t \in Seq(Items), NEW r, Mentions(s, r),
         \A j \in 1..Len(s) : j \in 1..Len(t) /\ t[j] = s[j]
  PROVE  Mentions(t, r)
<1>1. \E i \in 1..Len(s) : Carries(s[i]) /\ s[i].id = r
  BY Zenon, MentionsIn
<1>2. \E i \in 1..Len(t) : Carries(t[i]) /\ t[i].id = r
  BY Zenon, <1>1
<1> QED BY Zenon, <1>2, MentionsIn

\* An entry that tells the truth still does when causes are added and shutdown
\* is set.
LEMMA EntryKept ==
  ASSUME NEW c, NEW d, \A r \in Requests : c[r] \subseteq d[r], NEW down, NEW down2,
         down => down2, NEW x \in Requests \X Outcome, GoodEntry(x, c, down)
  PROVE  GoodEntry(x, d, down2)
BY DEF GoodEntry

\* Recording a failed delivery puts a true entry in the worker's failed list.
LEMMA RecordFailureRecords ==
  ASSUME IInv, NEW p \in Producers, push_[p].at # "idle",
         NEW error, NEW why, RecordFailure(p, error, why),
         \/ error = "shutdown" /\ why = "closed" /\ shutdown
         \/ error = "worker_overloaded" /\ why = "overflow"
  PROVE  Recorded(p)
<1> DEFINE e == What(p)
           v == To(p)
<1>1. v \in Workers /\ e \in Items /\ GoodItem(e, task)
  BY InHand DEF IInv, ItemInv
<1>2. /\ failed \in [Workers -> Seq(Requests \X Outcome)]
      /\ cause \in [Requests -> SUBSET {"closed", "overflow", "evicted"}]
      /\ \A w \in Workers : \A i \in 1..Len(failed[w]) : GoodEntry(failed[w][i], cause, shutdown)
  BY DEF IInv, TypeInv, EntryInv
<1>3. CASE ~ Carries(e)
  BY <1>2, <1>3 DEF RecordFailure, Recorded
<1>4. CASE Carries(e)
  <2> DEFINE x == <<e.id, error>>
             old == failed[v]
  <2>1. /\ failed' = [failed EXCEPT ![v] = Append(old, x)]
        /\ cause' = [cause EXCEPT ![e.id] = @ \cup {why}]
    BY <1>4 DEF RecordFailure
  <2>2. e.id \in Requests /\ x \in Requests \X Outcome /\ old \in Seq(Requests \X Outcome)
    BY <1>1, <1>2, <1>4 DEF GoodItem, Outcome
  <2>3. /\ cause' \in [Requests -> SUBSET {"closed", "overflow", "evicted"}]
        /\ \A r \in Requests : cause[r] \subseteq cause'[r]
        /\ why \in cause'[e.id]
    BY <1>2, <2>1, <2>2
  <2>4. GoodEntry(x, cause', shutdown)
    BY <2>3 DEF GoodEntry
  <2> HIDE DEF x, old, e, v
  <2>5. /\ Append(old, x) \in Seq(Requests \X Outcome)
        /\ \A i \in 1..Len(old) : i \in 1..Len(Append(old, x)) /\ Append(old, x)[i] = old[i]
        /\ \A i \in 1..Len(Append(old, x)) : i \in 1..Len(old) \/ Append(old, x)[i] = x
        /\ Len(old) + 1 \in 1..Len(Append(old, x)) /\ Append(old, x)[Len(old) + 1] = x
    BY <2>2, AppendFacts
  <2>6. /\ failed'[v] = Append(old, x) /\ \A w \in Workers : w # v => failed'[w] = failed[w]
        /\ failed' \in [Workers -> Seq(Requests \X Outcome)]
    BY <1>1, <1>2, <2>1, <2>5
  <2>7. ASSUME NEW w \in Workers, NEW i \in 1..Len(failed'[w])
        PROVE  GoodEntry(failed'[w][i], cause', shutdown)
    <3>1. CASE failed'[w][i] = x
      BY <2>4, <3>1
    <3>2. CASE i \in 1..Len(failed[w]) /\ failed'[w][i] = failed[w][i]
      <4>1. failed[w][i] \in Requests \X Outcome /\ GoodEntry(failed[w][i], cause, shutdown)
        BY <1>2, <3>2
      <4> QED BY Zenon, <2>3, <3>2, <4>1, EntryKept
    <3> QED BY <2>5, <2>6, <3>1, <3>2 DEF old
  <2>8. ASSUME NEW w \in Workers, NEW r \in Requests, Listed(failed[w], r)
        PROVE  Listed(failed'[w], r)
    <3>1. failed[w] \in Seq(Requests \X Outcome) /\ failed'[w] \in Seq(Requests \X Outcome)
      BY <1>2, <2>6
    <3>2. PICK i \in 1..Len(failed[w]) : failed[w][i][1] = r
      BY <2>8, <3>1, ListedIn
    <3>3. i \in 1..Len(failed'[w]) /\ failed'[w][i] = failed[w][i]
      BY Zenon, <2>5, <2>6, <3>2 DEF old
    <3> QED BY <3>1, <3>2, <3>3, ListedIn
  <2>9. Listed(failed'[v], e.id)
    <3>1. x[1] = e.id
      BY DEF x
    <3>2. Listed(Append(old, x), e.id)
      BY Zenon, <2>5, <3>1, ListedIn
    <3> QED BY <2>6, <3>2
  <2> QED BY <2>3, <2>6, <2>7, <2>8, <2>9 DEF Recorded, e, v
<1> QED BY <1>3, <1>4

FailuresGrow ==
  /\ failed' \in [Workers -> Seq(Requests \X Outcome)]
  /\ cause' \in [Requests -> SUBSET {"closed", "overflow", "evicted"}]
  /\ \A r \in Requests : cause[r] \subseteq cause'[r]
  /\ \A w \in Workers : \A i \in 1..Len(failed'[w]) : GoodEntry(failed'[w][i], cause', shutdown)
  /\ \A w \in Workers, r \in Requests : Listed(failed[w], r) => Listed(failed'[w], r)

QueuesGrow ==
  /\ queue' \in [Workers -> Queues]
  /\ \A w \in Workers :
       /\ \A i \in 1..Len(queue'[w].high) : GoodItem(queue'[w].high[i], task)
       /\ \A i \in 1..Len(queue'[w].low) : /\ GoodItem(queue'[w].low[i], task)
                                           /\ ~ Carries(queue'[w].low[i])
       /\ \A r \in Requests : Mentions(queue[w].high, r) => Mentions(queue'[w].high, r)

\* The first push of p is still to be made, or its result is with the worker.
Landed(p) ==
  \/ \A s \in Producers : push_'[s].todo = push_[s].todo
  \/ Carries(What(p)) => \/ Listed(failed'[To(p)], What(p).id)
                         \/ Mentions(queue'[To(p)].high, What(p).id)

\* Adding causes leaves every entry already written true.
LEMMA CausesKept ==
  ASSUME IInv, cause' \in [Requests -> SUBSET {"closed", "overflow", "evicted"}],
         \A r \in Requests : cause[r] \subseteq cause'[r]
  PROVE  /\ \A w \in Workers : pc[w] \in Lists =>
              \A i \in 1..Len(batch[w]) : GoodEntry(batch[w][i], cause', shutdown)
         /\ \A w \in Workers : \A i \in 1..Len(failed[w]) : GoodEntry(failed[w][i], cause', shutdown)
<1>1. ASSUME NEW w \in Workers, pc[w] \in Lists, NEW i \in 1..Len(batch[w])
      PROVE  GoodEntry(batch[w][i], cause', shutdown)
  <2>1. batch[w][i] \in Requests \X Outcome /\ GoodEntry(batch[w][i], cause, shutdown)
    BY <1>1 DEF IInv, EntryInv
  <2> QED BY Zenon, <2>1, EntryKept
<1>2. ASSUME NEW w \in Workers, NEW i \in 1..Len(failed[w])
      PROVE  GoodEntry(failed[w][i], cause', shutdown)
  <2>1. failed[w][i] \in Requests \X Outcome /\ GoodEntry(failed[w][i], cause, shutdown)
    BY DEF IInv, EntryInv, TypeInv
  <2> QED BY Zenon, <2>1, EntryKept
<1> QED BY <1>1, <1>2

\* A producer step that only grows queues and failed lists keeps the invariant.
LEMMA PushKeeps ==
  ASSUME IInv, NEW p \in Producers, push_[p].at # "idle",
         Shrinks(p), FailuresGrow, QueuesGrow, Landed(p),
         UNCHANGED <<scene, closed, hostVars, loopVars, running, callbackVars, task>>
  PROVE  IInv'
<1> USE DEF hostVars, loopVars, callbackVars
<1>1. TypeInv'
  BY Zenon DEF IInv, TypeInv, Shrinks, FailuresGrow, QueuesGrow
<1>2. ItemInv'
  <2>1. \A s \in Producers : \A i \in 1..Len(push_'[s].todo) :
          GoodItem(push_'[s].todo[i].item, task)
    <3> SUFFICES ASSUME NEW s \in Producers, NEW i \in 1..Len(push_'[s].todo)
                 PROVE  GoodItem(push_'[s].todo[i].item, task)
      OBVIOUS
    <3>1. PICK j \in 1..Len(push_[s].todo) : push_'[s].todo[i] = push_[s].todo[j]
      BY Zenon DEF Shrinks
    <3> QED BY Zenon, <3>1 DEF IInv, ItemInv
  <2> QED BY <2>1 DEF IInv, ItemInv, QueuesGrow
<1>3. EntryInv'
  <2>1. \A w \in Workers : pc[w] \in Lists =>
          \A i \in 1..Len(batch[w]) : GoodEntry(batch[w][i], cause', shutdown)
    BY Zenon, CausesKept DEF FailuresGrow
  <2> QED BY <2>1 DEF IInv, EntryInv, FailuresGrow
<1>4. RunInv' /\ PendingInv' /\ CleanInv'
  BY DEF IInv, RunInv, PendingInv, CleanInv, CleanExit, Ended
<1>5. OutcomeIsTrue'
  <2>1. \A r \in Requests : "overflow" \in cause[r] => "overflow" \in cause'[r]
    BY Zenon DEF FailuresGrow
  <2> QED BY <2>1 DEF IInv, OutcomeIsTrue, TypeInv
<1>6. WayInv'
  <2> SUFFICES ASSUME NEW w \in Workers, NEW r \in pending[w], task[r].at \in Over, ~ Ended(w)
               PROVE  \/ Owed(push_'[r], w, r)
                      \/ Mentions(queue'[w].high, r)
                      \/ Listed(failed'[w], r)
                      \/ Working(w, r)
    BY DEF WayInv, Working, Ended
  <2>0. r \in Requests /\ r \in Producers
    BY DEF IInv, TypeInv, Producers
  <2>1. \/ Owed(push_[r], w, r) \/ Mentions(queue[w].high, r) \/ Listed(failed[w], r)
        \/ Working(w, r)
    BY DEF IInv, WayInv
  <2>2. CASE Owed(push_[r], w, r)
    <3>1. PICK j \in 1..Len(push_[r].todo) : /\ push_[r].todo[j].to = w
                                             /\ Carries(push_[r].todo[j].item)
                                             /\ push_[r].todo[j].item.id = r
      BY Zenon, <2>2 DEF Owed
    <3>2. CASE \E i \in 1..Len(push_'[r].todo) : push_'[r].todo[i] = push_[r].todo[j]
      BY Zenon, <3>1, <3>2 DEF Owed
    <3>3. CASE r = p /\ push_[r].todo[j] = push_[r].todo[1]
      <4>1. To(p) = w /\ Carries(What(p)) /\ What(p).id = r
        BY Zenon, <3>1, <3>3, InHand DEF IInv
      <4>2. CASE \A s \in Producers : push_'[s].todo = push_[s].todo
        BY <2>0, <2>2, <4>2 DEF Owed
      <4> QED BY <4>1, <4>2 DEF Landed
    <3> QED BY Zenon, <2>0, <3>2, <3>3 DEF Shrinks
  <2> QED BY Zenon, <2>0, <2>1, <2>2 DEF FailuresGrow, QueuesGrow
<1> QED BY <1>1, <1>2, <1>3, <1>4, <1>5, <1>6 DEF IInv

\* Leaving the failed lists alone is a way of growing them.
LEMMA SameFailures ==
  ASSUME IInv, UNCHANGED <<failed, cause>>
  PROVE  FailuresGrow
BY DEF IInv, TypeInv, EntryInv, FailuresGrow

\* Leaving the queues alone is a way of growing them.
LEMMA SameQueues ==
  ASSUME IInv, UNCHANGED queue
  PROVE  QueuesGrow
BY DEF IInv, TypeInv, ItemInv, QueuesGrow

\* One queue that something is pushed into.
LEMMA OneQueueGrows ==
  ASSUME IInv, NEW w \in Workers, NEW e \in Items, GoodItem(e, task),
         queue' = [queue EXCEPT ![w] = push(queue[w], e).queue]
  PROVE  /\ QueuesGrow
         /\ Carries(e) /\ push(queue[w], e).outcome # "CriticalOverflow" =>
              Mentions(queue'[w].high, e.id)
<1> DEFINE u == queue[w]
           v == push(u, e).queue
           o == push(u, e).outcome
<1>1. queue \in [Workers -> Queues] /\ u \in Queues
  BY DEF IInv, TypeInv
<1>2. PushedInto(u, e, v, o)
  BY <1>1, PushQueue
<1>3. queue'[w] = v /\ \A x \in Workers : x # w => queue'[x] = queue[x]
  BY <1>1
<1>4. queue' = [queue EXCEPT ![w] = v] /\ v \in Queues
  BY <1>2 DEF PushedInto
<1> HIDE DEF u, v, o
<1>5. queue' \in [Workers -> Queues]
  BY <1>1, <1>4
<1>6. /\ \A i \in 1..Len(u.high) : GoodItem(u.high[i], task)
      /\ \A i \in 1..Len(u.low) : GoodItem(u.low[i], task) /\ ~ Carries(u.low[i])
  BY DEF IInv, ItemInv, u
<1>7. e.lane = "Low" => ~ Carries(e)
  BY DEF GoodItem
<1>8. /\ \A i \in 1..Len(v.high) : GoodItem(v.high[i], task)
      /\ \A i \in 1..Len(v.low) : GoodItem(v.low[i], task) /\ ~ Carries(v.low[i])
  BY <1>2, <1>6, <1>7 DEF PushedInto
<1>9. u.high \in Seq(Items) /\ v.high \in Seq(Items)
  BY <1>1, <1>4 DEF Queues, u
<1>10. \A r \in Requests : Mentions(u.high, r) => Mentions(v.high, r)
  BY <1>2, <1>9, MentionsIn DEF PushedInto
<1>11. ASSUME Carries(e), o # "CriticalOverflow"
       PROVE  Mentions(v.high, e.id)
  <2>1. PICK i \in 1..Len(v.high) : v.high[i] = e
    BY Zenon, <1>2, <1>11 DEF PushedInto, GoodItem
  <2> QED BY Zenon, <1>9, <1>11, <2>1, MentionsIn
<1>12. QueuesGrow
  BY <1>3, <1>5, <1>8, <1>10 DEF QueuesGrow, IInv, ItemInv, u
<1> QED BY <1>3, <1>11, <1>12 DEF o, u

\* Every step of a dispatch keeps the invariant.
LEMMA PushStepInv ==
  ASSUME IInv, NEW p \in Producers, PushStep(p), UNCHANGED scene
  PROVE  IInv'
<1> USE DEF At
<1>0. TypeInv
  BY DEF IInv
<1>1. CASE CheckClosed(p)
  <2>0. push_[p].at # "idle" /\ QueuesGrow
    BY Zenon, <1>1, SameQueues DEF CheckClosed
  <2>1. CASE closed[To(p)]
    <3>1. RecordFailure(p, "shutdown", "closed") /\ Finish(p)
      BY <1>1, <2>1 DEF CheckClosed
    <3>2. shutdown
      BY <2>0, <2>1, InHand DEF IInv, EntryInv
    <3>3. Recorded(p)
      BY Zenon, <2>0, <3>1, <3>2, RecordFailureRecords
    <3>4. FailuresGrow /\ Landed(p) /\ Shrinks(p)
      BY Zenon, <1>0, <2>0, <3>1, <3>3, FinishShrinks DEF Recorded, FailuresGrow, Landed
    <3> QED BY <1>1, <2>0, <3>4, PushKeeps DEF CheckClosed
  <2>2. CASE ~ closed[To(p)]
    <3>1. Proceed(p, "push") /\ UNCHANGED <<failed, cause>>
      BY <1>1, <2>2 DEF CheckClosed
    <3>2. FailuresGrow /\ Landed(p) /\ Shrinks(p)
      BY Zenon, <1>0, <2>0, <3>1, SameFailures, ProceedKeeps DEF Landed
    <3> QED BY <1>1, <2>0, <3>2, PushKeeps DEF CheckClosed
  <2> QED BY Zenon, <2>1, <2>2
<1>2. CASE PushLocked(p)
  <2> DEFINE e == What(p)
             w == To(p)
             o == push(queue[w], e).outcome
  <2>0. push_[p].at # "idle" /\ FailuresGrow
    BY <1>2, SameFailures DEF PushLocked
  <2>1. e \in Items /\ w \in Workers /\ GoodItem(e, task)
    BY Zenon, <1>0, <2>0, InHand DEF IInv, ItemInv
  <2>2. /\ queue' = [queue EXCEPT ![w] = push(queue[w], e).queue]
        /\ IF o = "CriticalOverflow" THEN Proceed(p, "overflow") ELSE Finish(p)
    BY <1>2 DEF PushLocked
  <2>3. QueuesGrow /\ (Carries(e) /\ o # "CriticalOverflow" => Mentions(queue'[w].high, e.id))
    BY Zenon, <2>1, <2>2, OneQueueGrows
  <2>4. Shrinks(p) /\ Landed(p)
    BY Zenon, <1>0, <2>0, <2>2, <2>3, FinishShrinks, ProceedKeeps DEF Landed
  <2> QED BY Zenon, <1>2, <2>0, <2>3, <2>4, PushKeeps DEF PushLocked
<1>3. CASE ReportOverflow(p)
  <2> DEFINE e == Item("Low", 0, "worker_overload", 0)
             w == To(p)
  <2>0. /\ push_[p].at # "idle" /\ Finish(p)
        /\ RecordFailure(p, "worker_overloaded", "overflow")
        /\ queue' = [queue EXCEPT ![w] = push(queue[w], e).queue]
    BY <1>3 DEF ReportOverflow, ReportOverflowAs
  <2>1. Recorded(p)
    BY Zenon, <2>0, RecordFailureRecords
  <2>2. e \in Items /\ GoodItem(e, task) /\ w \in Workers
    BY <1>0, <2>0, InHand DEF Item, Items, GoodItem, Carries
  <2>3. QueuesGrow
    BY Zenon, <2>0, <2>2, OneQueueGrows
  <2>4. FailuresGrow /\ Landed(p) /\ Shrinks(p)
    BY <1>0, <2>0, <2>1, FinishShrinks DEF Recorded, FailuresGrow, Landed
  <2> QED BY Zenon, <1>3, <2>0, <2>3, <2>4, PushKeeps DEF ReportOverflow, ReportOverflowAs
<1> QED BY <1>1, <1>2, <1>3 DEF PushStep

-----------------------------------------------------------------------------
(* New pushes: a bot's event, the end of an action, script code that asks  *)
(* for an action.                                                          *)

Task == {NoTask} \cup [at : {"running", "done", "refused"}, bot : Bots, origin : Workers]

\* An action that is over stays so, and it is known who asked for it.
TasksGrow ==
  /\ task' \in [Requests -> Task]
  /\ \A r \in Requests :
       /\ task[r].at = "done" => task'[r].at = "done"
       /\ task[r].at = "refused" => task'[r].at = "refused"
       /\ task[r] # NoTask => task'[r] # NoTask /\ task'[r].origin = task[r].origin

PushesGrow ==
  /\ push_' \in [Producers -> {NoPush} \cup Pushes]
  /\ \A p \in Producers : push_'[p] = NoPush \/ push_'[p].todo # <<>>
  /\ \A p \in Producers : \A i \in 1..Len(push_'[p].todo) :
       GoodItem(push_'[p].todo[i].item, task')
  /\ \A r \in Requests, w \in Workers :
       \/ task'[r].at \notin Over \/ task'[r].origin # w
       \/ Owed(push_'[r], w, r)
       \/ task[r].at \in Over /\ ~ Owed(push_[r], w, r)

CallbacksGrow ==
  /\ pending' \in [Workers -> SUBSET Requests]
  /\ \A w \in Workers : \A r \in pending'[w] :
       \/ r \in pending[w]
       \/ /\ task[r] = NoTask /\ task'[r] # NoTask /\ task'[r].origin = w
          /\ pc[w] \notin {"cleanup", "done", "dead"}
  /\ cause' \in [Requests -> SUBSET {"closed", "overflow", "evicted"}]
  /\ \A r \in Requests : cause[r] \subseteq cause'[r]

\* What names a request that is over still does.
LEMMA ItemKept ==
  ASSUME TasksGrow, NEW e, GoodItem(e, task)
  PROVE  GoodItem(e, task')
BY DEF TasksGrow, GoodItem, Over

\* A step that only adds tasks, dispatches and callbacks keeps the invariant.
LEMMA AskKeeps ==
  ASSUME IInv, TasksGrow, PushesGrow, CallbacksGrow,
         running' \in [Workers -> Codes], RunInv',
         UNCHANGED <<scene, queueVars, hostVars, loopVars, fired>>
  PROVE  IInv'
<1> USE DEF queueVars, hostVars, loopVars
<1>1. TypeInv'
  BY DEF IInv, TypeInv, TasksGrow, PushesGrow, CallbacksGrow, Task
<1>2. ItemInv'
  <2>1. \A w \in Workers :
       /\ \A i \in 1..Len(queue[w].high) : GoodItem(queue[w].high[i], task')
       /\ \A i \in 1..Len(queue[w].low) : GoodItem(queue[w].low[i], task')
       /\ pc[w] \in {"drained", "batch"} =>
            \A i \in 1..Len(batch[w]) : GoodItem(batch[w][i], task')
    BY ItemKept DEF IInv, ItemInv
  <2> QED BY Zenon, <2>1 DEF IInv, ItemInv, PushesGrow
<1>3. EntryInv'
  <2>1. /\ \A w \in Workers : pc[w] \in Lists =>
             \A i \in 1..Len(batch[w]) : GoodEntry(batch[w][i], cause', shutdown)
        /\ \A w \in Workers : \A i \in 1..Len(failed[w]) :
             GoodEntry(failed[w][i], cause', shutdown)
    BY CausesKept DEF CallbacksGrow
  <2> QED BY <2>1 DEF IInv, EntryInv
<1>4. PendingInv'
  BY DEF IInv, PendingInv, TypeInv, TasksGrow, CallbacksGrow
<1>5. OutcomeIsTrue'
  <2>1. \A r \in Requests : "overflow" \in cause[r] => "overflow" \in cause'[r]
    BY Zenon DEF CallbacksGrow
  <2> QED BY <2>1 DEF IInv, OutcomeIsTrue, TypeInv, TasksGrow
<1>6. WayInv'
  <2> SUFFICES ASSUME NEW w \in Workers, NEW r \in pending'[w], task'[r].at \in Over,
                      ~ Ended(w)
               PROVE  \/ Owed(push_'[r], w, r)
                      \/ Mentions(queue[w].high, r)
                      \/ Listed(failed[w], r)
                      \/ Working(w, r)
    BY DEF WayInv, Working, Ended
  <2>1. r \in Requests /\ task'[r].origin = w
    BY <1>1, <1>4 DEF TypeInv, PendingInv
  <2>2. CASE r \in pending[w] /\ task[r].at \in Over /\ ~ Owed(push_[r], w, r)
    BY Zenon, <2>2 DEF IInv, WayInv
  <2>3. CASE r \notin pending[w]
    <3>1. task[r] = NoTask
      BY <2>3 DEF CallbacksGrow
    <3>2. task[r].at \notin Over
      BY <3>1 DEF NoTask, Over
    <3> QED BY Zenon, <2>1, <3>2 DEF PushesGrow
  <2> QED BY Zenon, <2>1, <2>2, <2>3 DEF PushesGrow
<1>7. CleanInv'
  BY DEF IInv, CleanInv, CleanExit, Ended, CallbacksGrow, TypeInv
<1> QED BY Zenon, <1>1, <1>2, <1>3, <1>4, <1>5, <1>6, <1>7 DEF IInv

\* Begin on its own.
LEMMA BeginFacts ==
  ASSUME TypeInv, NEW p \in Producers, NEW todo \in Seq([to : Workers, item : Items]),
         todo # <<>>, Begin(p, todo)
  PROVE  /\ push_' \in [Producers -> {NoPush} \cup Pushes]
         /\ \A s \in Producers : push_'[s] = NoPush \/ push_'[s].todo # <<>>
         /\ push_'[p].todo = todo
         /\ \A s \in Producers : s # p => push_'[s] = push_[s]
<1> DEFINE u == [at |-> "check", todo |-> todo]
<1>1. u \in Pushes /\ u.todo = todo
  BY DEF Pushes
<1>2. push_' = [push_ EXCEPT ![p] = u]
  BY DEF Begin
<1> HIDE DEF u
<1> QED BY <1>1, <1>2 DEF TypeInv

\* What is to be pushed names only what is over, and r at worker w.
GoodDeliveries(d, r, w, t) ==
  /\ d \in Seq([to : Workers, item : Items]) /\ d # <<>>
  /\ \A i \in 1..Len(d) : GoodItem(d[i].item, t)
  /\ \E i \in 1..Len(d) : d[i].to = w /\ Carries(d[i].item) /\ d[i].item.id = r

\* The deliveries of a finished action go to the workers that must hear of it.
LEMMA DeliveriesFacts ==
  ASSUME NEW r \in Requests, NEW b \in Bots, NEW w \in Workers, NEW t, t[r].at \in Over
  PROVE  GoodDeliveries(Deliveries(r, b, w), r, w, t)
<1> DEFINE e == Item("High", b, "action_result", r)
           f == Item("High", b, "callback_completion", r)
           x == [to |-> Owner[b], item |-> e]
           y == [to |-> w, item |-> f]
<1>1. /\ e \in Items /\ f \in Items /\ GoodItem(e, t) /\ GoodItem(f, t)
      /\ Carries(e) /\ Carries(f) /\ e.id = r /\ f.id = r
  BY Zenon DEF Item, Items, GoodItem, Carries
<1> HIDE DEF e, f
<1>2. /\ x \in [to : Workers, item : Items] /\ y \in [to : Workers, item : Items]
      /\ x.item = e /\ y.item = f /\ y.to = w /\ x.to = Owner[b]
  BY <1>1, OwnerAssumption
<1>3. Deliveries(r, b, w) = IF w = Owner[b] THEN <<x>> ELSE <<x, y>>
  BY Zenon DEF Deliveries, e, f
<1> HIDE DEF x, y
<1>4. CASE w = Owner[b]
  <2>1. Deliveries(r, b, w) = <<x>>
    BY <1>2, <1>3, <1>4
  <2> QED BY <1>1, <1>2, <1>4, <2>1 DEF GoodDeliveries
<1>5. CASE w # Owner[b]
  <2>1. Deliveries(r, b, w) = <<x, y>>
    BY <1>3, <1>5
  <2> QED BY <1>1, <1>2, <1>5, <2>1 DEF GoodDeliveries
<1> QED BY <1>4, <1>5

\* Leaving the pending callbacks alone is a way of growing them.
LEMMA SameCallbacks ==
  ASSUME IInv, UNCHANGED <<pending, cause>>
  PROVE  CallbacksGrow
BY DEF IInv, TypeInv, CallbacksGrow

\* Leaving the tasks alone is a way of growing them.
LEMMA SameTasks ==
  ASSUME IInv, UNCHANGED task
  PROVE  TasksGrow
BY Zenon DEF IInv, TypeInv, TasksGrow, Task

\* The result of r is to be pushed now.
LEMMA HandedOver ==
  ASSUME IInv, TasksGrow, NEW r \in Requests, NEW b \in Bots, NEW w \in Workers,
         task[r].at \notin Over, task'[r].at \in Over, task'[r].origin = w,
         \A s \in Requests : s # r => task'[s] = task[s],
         Begin(r, Deliveries(r, b, w))
  PROVE  PushesGrow
<1> DEFINE d == Deliveries(r, b, w)
<1>1. /\ d \in Seq([to : Workers, item : Items]) /\ d # <<>>
      /\ \A i \in 1..Len(d) : GoodItem(d[i].item, task')
      /\ \E i \in 1..Len(d) : d[i].to = w /\ Carries(d[i].item) /\ d[i].item.id = r
  <2>1. GoodDeliveries(d, r, w, task')
    BY DeliveriesFacts
  <2> HIDE DEF d
  <2> QED BY <2>1 DEF GoodDeliveries
<1>2. Begin(r, d)
  OBVIOUS
<1> HIDE DEF d
<1>3. r \in Producers /\ TypeInv
  BY DEF Producers, IInv
<1>4. /\ push_' \in [Producers -> {NoPush} \cup Pushes]
      /\ \A s \in Producers : push_'[s] = NoPush \/ push_'[s].todo # <<>>
      /\ push_'[r].todo = d
      /\ \A s \in Producers : s # r => push_'[s] = push_[s]
  BY Zenon, <1>1, <1>2, <1>3, BeginFacts
<1>5. \A p \in Producers : \A i \in 1..Len(push_'[p].todo) :
        GoodItem(push_'[p].todo[i].item, task')
  BY Zenon, <1>1, <1>4, ItemKept DEF IInv, ItemInv
<1>6. Owed(push_'[r], w, r)
  BY <1>1, <1>4 DEF Owed
<1>7. \A s \in Requests : s # r => push_'[s] = push_[s] /\ task'[s] = task[s]
  BY <1>4 DEF Producers
<1> QED BY Zenon, <1>4, <1>5, <1>6, <1>7 DEF PushesGrow

\* Nothing new is over.
LEMMA SamePushes ==
  ASSUME IInv, TasksGrow, UNCHANGED push_,
         \A s \in Requests : task'[s].at \in Over => task[s].at \in Over
  PROVE  PushesGrow
<1>1. \A p \in Producers : \A i \in 1..Len(push_[p].todo) : GoodItem(push_[p].todo[i].item, task')
  BY Zenon, ItemKept DEF IInv, ItemInv
<1> QED BY <1>1 DEF IInv, TypeInv, PushesGrow

\* Dispatching a bot event keeps the invariant.
LEMMA BotEventInv ==
  ASSUME IInv, NEW b \in Bots, NEW lane \in {"High", "Low"}, dispatch_bot_event(b, lane),
         UNCHANGED scene
  PROVE  IInv'
<1> DEFINE e == Item(lane, b, "event", 0)
           x == [to |-> Owner[b], item |-> e]
           d == <<x>>
<1>1. e \in Items /\ GoodItem(e, task) /\ ~ Carries(e)
  BY DEF Item, Items, GoodItem, Carries
<1>2. Begin(b, d) /\ push_[b] = NoPush
  BY DEF dispatch_bot_event
<1> HIDE DEF e
<1>3. x \in [to : Workers, item : Items] /\ x.item = e
  BY <1>1, OwnerAssumption
<1> HIDE DEF x
<1>4. d \in Seq([to : Workers, item : Items]) /\ d # <<>> /\ \A i \in 1..Len(d) : d[i] = x
  BY <1>3
<1> HIDE DEF d
<1>5. b \in Producers /\ TypeInv
  BY DEF Producers, IInv
<1>6. /\ push_' \in [Producers -> {NoPush} \cup Pushes]
      /\ \A s \in Producers : push_'[s] = NoPush \/ push_'[s].todo # <<>>
      /\ push_'[b].todo = d
      /\ \A s \in Producers : s # b => push_'[s] = push_[s]
  BY Zenon, <1>2, <1>4, <1>5, BeginFacts
<1>7. task' = task /\ TasksGrow /\ CallbacksGrow
  BY Zenon, SameTasks, SameCallbacks DEF dispatch_bot_event, callbackVars
<1>8. \A p \in Producers : \A i \in 1..Len(push_'[p].todo) :
        GoodItem(push_'[p].todo[i].item, task')
  <2>1. \A i \in 1..Len(d) : GoodItem(d[i].item, task)
    BY <1>1, <1>3, <1>4
  <2>2. \A p \in Producers : \A i \in 1..Len(push_[p].todo) :
          GoodItem(push_[p].todo[i].item, task)
    BY DEF IInv, ItemInv
  <2> QED BY <1>6, <1>7, <2>1, <2>2
<1>9. \A r \in Requests, w \in Workers :
        Owed(push_[r], w, r) => Owed(push_'[r], w, r)
  <2>1. \A r, w : ~ Owed(NoPush, w, r)
    BY DEF Owed, NoPush
  <2> QED BY <1>2, <1>6, <2>1 DEF Producers
<1>10. PushesGrow
  BY Zenon, <1>6, <1>7, <1>8, <1>9 DEF PushesGrow
<1>11. running' \in [Workers -> Codes] /\ RunInv'
  BY DEF dispatch_bot_event, loopVars, IInv, TypeInv, RunInv
<1> QED BY <1>7, <1>10, <1>11, AskKeeps DEF dispatch_bot_event, callbackVars

\* The completion of an action, which starts its deliveries, keeps the invariant.
LEMMA CompleteActionInv ==
  ASSUME IInv, NEW r \in Requests, CompleteAction(r), UNCHANGED scene
  PROVE  IInv'
<1> DEFINE t == task[r]
<1>1. /\ t \in [at : {"running", "done", "refused"}, bot : Bots, origin : Workers]
      /\ t.at = "running" /\ task \in [Requests -> Task]
  <2>1. task \in [Requests -> Task] /\ t.at = "running"
    BY DEF CompleteAction, IInv, TypeInv, Task
  <2>2. t \in Task
    BY <2>1
  <2> HIDE DEF t
  <2> QED BY <2>1, <2>2 DEF Task, NoTask
<1>2. task' = [task EXCEPT ![r] = [t EXCEPT !.at = "done"]]
  BY DEF CompleteAction
<1>3. task'[r] \in Task /\ task'[r] # NoTask /\ task'[r].at = "done" /\ task'[r].origin = t.origin
  <2>1. task'[r] = [at |-> "done", bot |-> t.bot, origin |-> t.origin]
    BY <1>1, <1>2
  <2> QED BY <1>1, <2>1 DEF Task, NoTask
<1>4. \A s \in Requests : s # r => task'[s] = task[s]
  BY <1>1, <1>2
<1>5. task' \in [Requests -> Task]
  BY <1>1, <1>2, <1>3
<1>6. TasksGrow
  BY <1>1, <1>3, <1>4, <1>5 DEF TasksGrow
<1>7. Begin(r, Deliveries(r, t.bot, t.origin)) /\ t.bot \in Bots /\ t.origin \in Workers
  BY <1>1 DEF CompleteAction
<1>8. PushesGrow
  BY <1>1, <1>3, <1>4, <1>6, <1>7, HandedOver DEF Over
<1>9. CallbacksGrow /\ running' \in [Workers -> Codes] /\ RunInv'
  BY SameCallbacks DEF CompleteAction, callbackVars, loopVars, IInv, TypeInv, RunInv
<1> QED BY <1>6, <1>8, <1>9, AskKeeps DEF CompleteAction, callbackVars

\* What a worker runs is told apart by its kind.
LEMMA KindOf ==
  ASSUME NEW c \in Codes
  PROVE  /\ c.kind \in {"idle", "global", "unwinding", "callback", "handler", "timer"}
         /\ c.kind = "idle" <=> c = Idle
         /\ c.kind = "unwinding" <=> c = Unwinding
         /\ c.kind \in {"handler", "timer"} => c.bot \in Bots
<1>1. CASE c = Idle
  BY <1>1 DEF Idle, Unwinding
<1>2. CASE c = Global
  BY <1>2 DEF Idle, Unwinding, Global
<1>3. CASE c = Unwinding
  BY <1>3 DEF Idle, Unwinding
<1>4. CASE \E r \in Requests : c = CallbackOf(r)
  BY <1>4 DEF Idle, Unwinding, CallbackOf
<1>5. CASE \E b \in Bots : c = HandlerOf(b)
  BY <1>5 DEF Idle, Unwinding, HandlerOf
<1>6. CASE \E b \in Bots : c = TimerOf(b)
  BY <1>6 DEF Idle, Unwinding, TimerOf
<1> QED BY <1>1, <1>2, <1>3, <1>4, <1>5, <1>6 DEF Codes

\* Script code runs in the middle of the loop, in the clean-up only callbacks.
LEMMA ScriptAt ==
  ASSUME IInv, NEW w \in Workers, InScript(w)
  PROVE  /\ pc[w] \in {"batch", "timer"} \cup Lists
         /\ pc[w] = "cleanup" => Borrowed(w)
<1>1. running[w] \in Codes /\ running[w] # Idle /\ running[w] # Unwinding
  BY DEF IInv, TypeInv, InScript
<1>2. running[w].kind # "idle" /\ running[w].kind # "unwinding"
  BY <1>1, KindOf
<1> QED BY <1>1, <1>2 DEF IInv, RunInv, Borrowed

\* spawn_action starts a task that did not exist, for the worker that asked.
LEMMA SpawnFacts ==
  ASSUME IInv, NEW w \in Workers, NEW b \in Bots, NEW r \in Requests, Fresh(r),
         spawn_action(w, b, r)
  PROVE  TasksGrow /\ PushesGrow /\ task[r] = NoTask /\ task'[r] # NoTask /\ task'[r].origin = w
<1>1. task \in [Requests -> Task] /\ task[r] = NoTask
  BY Zenon DEF IInv, TypeInv, Fresh, Task
<1>2. PICK at \in {"running", "refused"} :
        /\ task' = [task EXCEPT ![r] = [at |-> at, bot |-> b, origin |-> w]]
        /\ at = "running" => UNCHANGED push_
        /\ at = "refused" => Begin(r, Deliveries(r, b, w))
  BY DEF spawn_action
<1> DEFINE t == [at |-> at, bot |-> b, origin |-> w]
<1>3. t \in Task /\ t # NoTask /\ t.at = at /\ t.origin = w
  BY DEF Task, NoTask
<1>4. task' = [task EXCEPT ![r] = t]
  BY <1>2
<1> HIDE DEF t
<1>5. task' \in [Requests -> Task] /\ task'[r] = t /\ \A s \in Requests : s # r => task'[s] = task[s]
  BY <1>1, <1>3, <1>4
<1>6. task[r].at = "none"
  BY <1>1 DEF NoTask
<1>7. TasksGrow
  BY <1>1, <1>5, <1>6 DEF TasksGrow
<1>8. PushesGrow
  <2>1. CASE at = "running"
    BY Zenon, <1>2, <1>3, <1>5, <1>7, <2>1, SamePushes DEF Over
  <2>2. CASE at = "refused"
    BY Zenon, <1>2, <1>3, <1>5, <1>6, <1>7, <2>2, HandedOver DEF Over
  <2> QED BY <2>1, <2>2
<1> QED BY Zenon, <1>1, <1>3, <1>5, <1>7, <1>8

\* register_callback adds the callback of a task that the worker has just started.
LEMMA RegisterFacts ==
  ASSUME IInv, NEW w \in Workers, NEW r \in Requests, register_callback(w, r),
         task[r] = NoTask, task'[r] # NoTask, task'[r].origin = w,
         pc[w] \notin {"cleanup", "done", "dead"}
  PROVE  CallbacksGrow
<1>1. /\ pending \in [Workers -> SUBSET Requests]
      /\ cause \in [Requests -> SUBSET {"closed", "overflow", "evicted"}]
  BY DEF IInv, TypeInv
<1> DEFINE p == pending'[w]
<1>2. pending' = [pending EXCEPT ![w] = p] /\ p \subseteq pending[w] \cup {r}
  BY <1>1 DEF register_callback
<1>3. \A v \in Workers : \A s \in pending'[v] : s \in pending[v] \/ (v = w /\ s = r)
  BY <1>1, <1>2
<1>4. pending' \in [Workers -> SUBSET Requests]
  <2>1. p \subseteq Requests
    BY <1>1, <1>2
  <2> HIDE DEF p
  <2> QED BY <1>1, <1>2, <2>1
<1>5. /\ cause' \in [Requests -> SUBSET {"closed", "overflow", "evicted"}]
      /\ \A s \in Requests : cause[s] \subseteq cause'[s]
  <2> DEFINE old == Oldest(pending[w])
  <2> HIDE DEF old
  <2>1. CASE UNCHANGED cause
    BY <1>1, <2>1
  <2>2. CASE cause' = [cause EXCEPT ![old] = @ \cup {"evicted"}]
    BY Zenon, <1>1, <2>2
  <2> QED BY <2>1, <2>2 DEF register_callback, old
<1> QED BY <1>3, <1>4, <1>5 DEF CallbacksGrow

\* Lua code that starts an action, with a callback or without, keeps the invariant.
LEMMA ActInv ==
  ASSUME IInv, NEW w \in Workers, NEW b \in Bots, NEW r \in Requests,
         ActPlain(w, b, r) \/ ActWithCallback(w, b, r), UNCHANGED scene
  PROVE  IInv'
<1>1. Act(w, b, r)
  BY DEF ActPlain, ActWithCallback
<1>2. InScript(w) /\ Fresh(r) /\ spawn_action(w, b, r)
  BY Zenon, <1>1 DEF Act
<1>3. /\ TasksGrow /\ PushesGrow /\ task[r] = NoTask
      /\ task'[r] # NoTask /\ task'[r].origin = w
  BY <1>2, SpawnFacts
<1>4. UNCHANGED <<scene, queueVars, hostVars, loopVars, fired, running>>
  BY <1>1 DEF Act, loopVars
<1>5. running' \in [Workers -> Codes] /\ RunInv'
  BY Zenon, <1>4 DEF loopVars, IInv, TypeInv, RunInv
<1>6. CASE ActPlain(w, b, r)
  <2>1. CallbacksGrow
    BY <1>6, SameCallbacks DEF ActPlain
  <2> QED BY <1>3, <1>4, <1>5, <2>1, AskKeeps
<1>7. CASE ActWithCallback(w, b, r)
  <2>1. pc[w] \notin {"cleanup", "done", "dead"} /\ register_callback(w, r)
    BY Zenon, <1>2, <1>7, ScriptAt DEF ActWithCallback, Lists
  <2>2. CallbacksGrow
    BY <1>3, <2>1, RegisterFacts
  <2> QED BY <1>3, <1>4, <1>5, <2>2, AskKeeps
<1> QED BY <1>6, <1>7

\* Lua code that panics between its action and its callback keeps the invariant.
LEMMA PanicsInv ==
  ASSUME IInv, NEW w \in Workers, NEW b \in Bots, NEW r \in Requests,
         ActWithCallbackPanics(w, b, r), UNCHANGED scene
  PROVE  IInv'
<1>1. InScript(w) /\ Fresh(r) /\ spawn_action(w, b, r) /\ scene.chained
  BY DEF ActWithCallbackPanics
<1>2. TasksGrow /\ PushesGrow
  BY <1>1, SpawnFacts
<1>3. UNCHANGED <<scene, queueVars, hostVars, loopVars, fired>> /\ CallbacksGrow
  BY SameCallbacks DEF ActWithCallbackPanics, callbackVars
<1>4. /\ running \in [Workers -> Codes] /\ Unwinding \in Codes
      /\ running' = [running EXCEPT ![w] = Unwinding]
  BY Zenon DEF ActWithCallbackPanics, IInv, TypeInv, Codes
<1>5. Unwinding.kind = "unwinding"
  BY DEF Unwinding
<1>6. pc[w] \in {"batch", "timer"} \cup Lists
  BY <1>1, ScriptAt
<1>7. running' \in [Workers -> Codes] /\ RunInv'
  BY <1>1, <1>3, <1>4, <1>5, <1>6 DEF loopVars, IInv, RunInv
<1> QED BY <1>2, <1>3, <1>7, AskKeeps

-----------------------------------------------------------------------------
(* A worker's own steps: the part of the invariant that is about it.       *)

WorkerInv(w) ==
  /\ \A i \in 1..Len(queue[w].high) : GoodItem(queue[w].high[i], task)
  /\ \A i \in 1..Len(queue[w].low) : /\ GoodItem(queue[w].low[i], task)
                                     /\ ~ Carries(queue[w].low[i])
  /\ \A i \in 1..Len(failed[w]) : GoodEntry(failed[w][i], cause, shutdown)
  /\ closed[w] => shutdown
  /\ pc[w] \in {"drained", "batch"} =>
       /\ batch[w] \in Seq(Items)
       /\ \A i \in 1..Len(batch[w]) : GoodItem(batch[w][i], task)
  /\ pc[w] \in {"head", "wait", "timer", "done"} => batch[w] = <<>>
  /\ pc[w] \in Lists =>
       /\ batch[w] \in Seq(Requests \X Outcome)
       /\ \A i \in 1..Len(batch[w]) : GoodEntry(batch[w][i], cause, shutdown)
  /\ running[w] # Idle => pc[w] \in {"batch", "timer"} \cup Lists
  /\ running[w] = Unwinding => scene.chained
  /\ pc[w] = "cleanup" => running[w].kind \in {"idle", "unwinding", "callback"}
  /\ \A r \in pending[w] :
       task[r].at \in Over /\ ~ Ended(w) =>
         \/ Owed(push_[r], w, r)
         \/ Mentions(queue[w].high, r)
         \/ Listed(failed[w], r)
         \/ Working(w, r)
  /\ pc[w] = "cleanup" => \A r \in pending[w] : Listed(batch[w], r)
  /\ Ended(w) /\ (pc[w] = "dead" => ~ scene.chained) => pending[w] = {}

\* The invariant, seen from one worker.
LEMMA WorkerPart ==
  ASSUME IInv, NEW w \in Workers
  PROVE  WorkerInv(w)
BY Zenon DEF IInv, ItemInv, EntryInv, RunInv, WayInv, CleanInv, CleanExit, WorkerInv

Same(v) ==
  /\ queue'[v] = queue[v] /\ failed'[v] = failed[v] /\ closed'[v] = closed[v]
  /\ pc'[v] = pc[v] /\ batch'[v] = batch[v] /\ running'[v] = running[v]
  /\ pending'[v] = pending[v]

\* A worker that a step leaves alone keeps its part of the invariant.
LEMMA OtherWorker ==
  ASSUME IInv, NEW v \in Workers, UNCHANGED <<scene, push_, task, cause>>,
         shutdown => shutdown', Same(v)
  PROVE  WorkerInv(v)'
<1>1. WorkerInv(v)
  BY WorkerPart
<1>2. \A i \in 1..Len(failed[v]) : GoodEntry(failed[v][i], cause, shutdown')
  <2> TAKE i \in 1..Len(failed[v])
  <2>1. failed[v][i] \in Requests \X Outcome /\ GoodEntry(failed[v][i], cause, shutdown)
    BY <1>1 DEF WorkerInv, IInv, TypeInv
  <2> QED BY Zenon, <2>1, EntryKept
<1>3. ASSUME pc[v] \in Lists, NEW i \in 1..Len(batch[v])
      PROVE  GoodEntry(batch[v][i], cause, shutdown')
  <2>1. batch[v][i] \in Requests \X Outcome /\ GoodEntry(batch[v][i], cause, shutdown)
    <3>1. batch[v] \in Seq(Requests \X Outcome) /\ GoodEntry(batch[v][i], cause, shutdown)
      BY Zenon, <1>1, <1>3 DEF WorkerInv
    <3> QED BY <3>1
  <2> QED BY Zenon, <2>1, EntryKept
<1> QED BY Zenon, <1>1, <1>2, <1>3 DEF WorkerInv, Same, Ended, Working

\* A step of one worker keeps the invariant when it keeps that worker's part.
LEMMA WorkerKeeps ==
  ASSUME IInv, NEW w \in Workers, UNCHANGED <<scene, push_, task, cause>>,
         shutdown => shutdown', closing' => shutdown',
         TypeInv', PendingInv', OutcomeIsTrue', WorkerInv(w)',
         \A v \in Workers : v # w => Same(v)
  PROVE  IInv'
<1>1. \A v \in Workers : WorkerInv(v)'
  <2> TAKE v \in Workers
  <2>1. CASE v = w
    BY <2>1
  <2>2. CASE v # w
    BY <2>2, OtherWorker
  <2> QED BY <2>1, <2>2
<1>2. ItemInv' /\ EntryInv'
  BY Zenon, <1>1 DEF IInv, ItemInv, EntryInv, WorkerInv
<1>3. RunInv' /\ WayInv' /\ CleanInv'
  BY Zenon, <1>1 DEF RunInv, WayInv, CleanInv, CleanExit, WorkerInv
<1> QED BY <1>2, <1>3 DEF IInv

\* No callback is called.
LEMMA QuietKeeps ==
  ASSUME IInv, UNCHANGED <<pending, fired, task, cause>>, shutdown => shutdown'
  PROVE  PendingInv' /\ OutcomeIsTrue'
<1>1. PendingInv'
  BY DEF IInv, PendingInv
<1>2. OutcomeIsTrue'
  BY DEF IInv, OutcomeIsTrue
<1> QED BY <1>1, <1>2

\* A callback is called, with an outcome that is true.
LEMMA FireKeeps ==
  ASSUME IInv, NEW w \in Workers, NEW r \in pending[w], NEW outcome \in Outcome,
         outcome = "result" => task[r].at = "done",
         outcome = "worker_overloaded" => task[r].at = "refused" \/ "overflow" \in cause[r],
         outcome = "shutdown" => shutdown,
         Fire(w, r, outcome), UNCHANGED <<task, cause, shutdown>>
  PROVE  /\ pending' \in [Workers -> SUBSET Requests] /\ fired' \in [Requests -> Seq(Outcome)]
         /\ PendingInv' /\ OutcomeIsTrue'
         /\ pending'[w] = pending[w] \ {r}
         /\ \A v \in Workers : v # w => pending'[v] = pending[v]
         /\ CallbackOf(r) \in Codes
<1>1. /\ pending \in [Workers -> SUBSET Requests] /\ fired \in [Requests -> Seq(Outcome)]
      /\ r \in Requests /\ CallbackOf(r) \in Codes
  BY DEF IInv, TypeInv, Codes
<1>2. fired[r] = <<>> /\ task[r] # NoTask /\ task[r].origin = w
  BY Zenon DEF IInv, PendingInv
<1>3. fired' = [fired EXCEPT ![r] = <<outcome>>]
  <2>1. Append(<<>>, outcome) = <<outcome>>
    OBVIOUS
  <2> QED BY <1>1, <1>2, <2>1 DEF Fire
<1>4. pending' = [pending EXCEPT ![w] = @ \ {r}]
  BY DEF Fire
<1>5. /\ pending' \in [Workers -> SUBSET Requests] /\ fired' \in [Requests -> Seq(Outcome)]
      /\ pending'[w] = pending[w] \ {r}
      /\ \A v \in Workers : v # w => pending'[v] = pending[v]
  BY <1>1, <1>3, <1>4
<1>6. fired'[r] = <<outcome>> /\ \A s \in Requests : s # r => fired'[s] = fired[s]
  BY Zenon, <1>1, <1>3
<1>7. PendingInv'
  <2>1. \A v \in Workers : \A s \in pending'[v] : s \in pending[v] /\ s # r
    <3> SUFFICES ASSUME NEW v \in Workers, NEW s \in pending'[v]
                 PROVE  s \in pending[v] /\ s # r
      OBVIOUS
    <3>1. CASE v = w
      BY Zenon, <1>5, <3>1
    <3>2. CASE v # w
      BY <1>2, <1>5, <3>2 DEF IInv, PendingInv
    <3> QED BY <3>1, <3>2
  <2>2. \A s \in Requests : Len(fired'[s]) <= 1
    <3>1. Len(<<outcome>>) <= 1
      OBVIOUS
    <3>2. Len(fired'[r]) <= 1
      BY <1>6, <3>1, Zenon
    <3>3. \A s \in Requests : Len(fired[s]) <= 1
      BY Zenon DEF IInv, PendingInv
    <3> QED BY <1>6, <3>2, <3>3, Zenon
  <2>3. \A s \in Requests : task[s] = NoTask => fired'[s] = <<>>
    BY Zenon, <1>2, <1>6 DEF IInv, PendingInv
  <2>4. \A v \in Workers : \A s \in pending'[v] :
          task[s] # NoTask /\ task[s].origin = v /\ fired'[s] = <<>>
    BY <1>1, <1>5, <1>6, <2>1 DEF IInv, PendingInv
  <2> QED BY Zenon, <2>2, <2>3, <2>4 DEF PendingInv
<1>8. OutcomeIsTrue'
  <2> SUFFICES ASSUME NEW s \in Requests, NEW i \in DOMAIN fired'[s]
               PROVE  CASE fired'[s][i] = "result" -> task[s].at = "done"
                        [] fired'[s][i] = "worker_overloaded" ->
                             task[s].at = "refused" \/ "overflow" \in cause[s]
                        [] fired'[s][i] = "shutdown" -> shutdown
                        [] OTHER -> TRUE
    BY DEF OutcomeIsTrue
  <2>1. CASE s = r
    <3>1. fired'[s][i] = outcome
      BY <1>6, <2>1
    <3> QED BY Zenon, <2>1, <3>1
  <2>2. CASE s # r
    <3>1. fired'[s] = fired[s]
      BY <1>6, <2>2
    <3> QED BY <3>1 DEF IInv, OutcomeIsTrue
  <2> QED BY <2>1, <2>2
<1> QED BY Zenon, <1>1, <1>5, <1>7, <1>8

\* Requesting the shutdown keeps the invariant.
LEMMA StopInv ==
  ASSUME IInv, shutdown' = TRUE, closing' \in BOOLEAN,
         UNCHANGED <<scene, queueVars, push_, loopVars, running, callbackVars, task, cause>>
  PROVE  IInv'
<1> USE DEF queueVars, loopVars, callbackVars
<1>1. TypeInv'
  BY DEF IInv, TypeInv
<1>2. PendingInv' /\ OutcomeIsTrue'
  BY QuietKeeps
<1>3. \A v \in Workers : WorkerInv(v)'
  <2> TAKE v \in Workers
  <2>1. Same(v)
    BY DEF Same
  <2> QED BY <2>1, OtherWorker
<1>4. ItemInv' /\ EntryInv'
  BY Zenon, <1>3 DEF IInv, ItemInv, EntryInv, WorkerInv
<1>5. RunInv' /\ WayInv' /\ CleanInv'
  BY Zenon, <1>3 DEF RunInv, WayInv, CleanInv, CleanExit, WorkerInv
<1> QED BY Zenon, <1>1, <1>2, <1>4, <1>5 DEF IInv

\* closed goes up: the loop's head, and the host.
LEMMA CloseInv ==
  ASSUME IInv, NEW w \in Workers, LoopHead(w) \/ close(w), UNCHANGED scene
  PROVE  IInv'
<1> USE DEF hostVars, loopVars, callbackVars
<1>1. UNCHANGED <<scene, push_, task, cause, queue, failed, hostVars, batch, running, callbackVars>>
  BY DEF LoopHead, close
<1>2. PICK c \in BOOLEAN : closed' = [closed EXCEPT ![w] = c] /\ (c => shutdown)
  <2>1. closed[w] \in BOOLEAN /\ shutdown \in BOOLEAN /\ (closed[w] => shutdown)
        /\ (closing => shutdown)
    BY DEF IInv, TypeInv, EntryInv
  <2>2. CASE LoopHead(w)
    <3>1. closed' = [closed EXCEPT ![w] = closed[w] \/ shutdown]
      BY <2>2 DEF LoopHead
    <3>2. (closed[w] \/ shutdown) \in BOOLEAN /\ ((closed[w] \/ shutdown) => shutdown)
      BY <2>1
    <3> QED BY Zenon, <3>1, <3>2
  <2>3. CASE close(w)
    BY Zenon, <2>1, <2>3 DEF close
  <2> QED BY <2>2, <2>3
<1>3. /\ closed' \in [Workers -> BOOLEAN] /\ closed'[w] = c
      /\ \A v \in Workers : v # w => closed'[v] = closed[v]
  BY <1>2 DEF IInv, TypeInv
<1>4. PICK at \in {pc[w], "wait"} : /\ pc' = [pc EXCEPT ![w] = at]
                                    /\ at = pc[w] \/ (pc[w] = "head" /\ running[w] = Idle)
  BY DEF LoopHead, close, Loop, Goto, IInv, TypeInv
<1>5. /\ pc' \in [Workers -> {"head", "wait", "drained", "batch", "timer", "done", "dead"} \cup Lists]
      /\ pc'[w] = at /\ \A v \in Workers : v # w => pc'[v] = pc[v]
  BY Zenon, <1>4 DEF IInv, TypeInv
<1>6. TypeInv'
  BY <1>1, <1>3, <1>5 DEF IInv, TypeInv
<1>7. PendingInv' /\ OutcomeIsTrue'
  BY <1>1, QuietKeeps
<1>8. WorkerInv(w)
  BY WorkerPart
<1>9. WorkerInv(w)'
  <2>1. CASE at = pc[w]
    BY Zenon, <1>1, <1>2, <1>3, <1>5, <1>8, <2>1 DEF WorkerInv, Ended, Working
  <2>2. CASE at = "wait" /\ pc[w] = "head" /\ running[w] = Idle
    BY Zenon, <1>1, <1>2, <1>3, <1>5, <1>8, <2>2 DEF WorkerInv, Ended, Working, Lists
  <2> QED BY <1>4, <2>1, <2>2
<1>10. \A v \in Workers : v # w => Same(v)
  BY Zenon, <1>1, <1>3, <1>5 DEF Same
<1>11. closing' => shutdown'
  BY <1>1 DEF IInv, EntryInv
<1> QED BY Zenon, <1>1, <1>6, <1>7, <1>9, <1>10, <1>11, WorkerKeeps

\* wait_for_batch keeps the invariant: it moves whole lanes into the batch.
LEMMA WaitInv ==
  ASSUME IInv, NEW w \in Workers, wait_for_batch(w), UNCHANGED scene
  PROVE  IInv'
<1> USE DEF hostVars, callbackVars
<1> DEFINE d == Drained(queue[w])
           a == AfterDrain(queue[w])
<1>1. UNCHANGED <<scene, push_, task, cause, closed, failed, hostVars, running, callbackVars>>
  BY DEF wait_for_batch
<1>2. /\ queue \in [Workers -> Queues] /\ pc[w] = "wait" /\ running[w] = Idle
      /\ queue' = [queue EXCEPT ![w] = a] /\ batch' = [batch EXCEPT ![w] = d]
      /\ pc' = [pc EXCEPT ![w] = "drained"]
  BY Zenon DEF wait_for_batch, Loop, Work, Goto, IInv, TypeInv
<1>3. /\ a \in Queues /\ a.high = <<>> /\ a.low = <<>> /\ d \in Seq(Items)
      /\ \A i \in 1..Len(d) : \/ \E j \in 1..Len(queue[w].high) : d[i] = queue[w].high[j]
                              \/ \E j \in 1..Len(queue[w].low) : d[i] = queue[w].low[j]
      /\ \A j \in 1..Len(queue[w].high) : j \in 1..Len(d) /\ d[j] = queue[w].high[j]
  BY Zenon, <1>2, DrainQueue
<1> HIDE DEF d, a
<1>4. /\ queue' \in [Workers -> Queues] /\ queue'[w] = a
      /\ \A v \in Workers : v # w => queue'[v] = queue[v]
  BY <1>2, <1>3
<1>5. /\ batch' = [v \in Workers |-> batch'[v]] /\ batch'[w] = d
      /\ \A v \in Workers : v # w => batch'[v] = batch[v]
  BY Zenon, <1>2 DEF IInv, TypeInv
<1>6. /\ pc' \in [Workers -> {"head", "wait", "drained", "batch", "timer", "done", "dead"} \cup Lists]
      /\ pc'[w] = "drained" /\ \A v \in Workers : v # w => pc'[v] = pc[v]
  BY Zenon, <1>2 DEF IInv, TypeInv
<1>7. TypeInv'
  BY <1>1, <1>4, <1>5, <1>6 DEF IInv, TypeInv
<1>8. PendingInv' /\ OutcomeIsTrue'
  BY <1>1, QuietKeeps
<1>9. WorkerInv(w)
  BY Zenon, WorkerPart
<1>10. \A r \in Requests : Mentions(queue[w].high, r) => Mentions(d, r)
  <2>1. queue[w].high \in Seq(Items)
    BY <1>2 DEF Queues
  <2>2. /\ d \in Seq(Items)
        /\ \A j \in 1..Len(queue[w].high) : j \in 1..Len(d) /\ d[j] = queue[w].high[j]
    BY Zenon, <1>3
  <2>3. ASSUME NEW r \in Requests, Mentions(queue[w].high, r)
        PROVE  Mentions(d, r)
    BY Zenon, <2>1, <2>2, <2>3, MentionsGrow
  <2> QED BY Zenon, <2>3
<1>11. batch[w] = <<>> /\ \A r : ~ Mentions(<<>>, r)
  BY Zenon, <1>2, <1>9, NothingIn DEF WorkerInv
<1>12. \A i \in 1..Len(d) : GoodItem(d[i], task)
  BY Zenon, <1>3, <1>9 DEF WorkerInv
<1>13. \A r \in pending[w] : task[r].at \in Over =>
         Owed(push_[r], w, r) \/ Listed(failed[w], r) \/ Mentions(d, r)
  BY <1>2, <1>9, <1>10, <1>11 DEF WorkerInv, Ended, Working, Lists, IInv, TypeInv
<1>14. WorkerInv(w)'
  BY <1>1, <1>2, <1>3, <1>4, <1>5, <1>6, <1>9, <1>12, <1>13
     DEF WorkerInv, Ended, Working, Lists
<1>15. \A v \in Workers : v # w => Same(v)
  BY <1>1, <1>4, <1>5, <1>6 DEF Same
<1>16. closing' => shutdown'
  BY Zenon, <1>1 DEF IInv, EntryInv
<1> QED BY Zenon, <1>1, <1>7, <1>8, <1>14, <1>15, <1>16, WorkerKeeps

\* The ids come out in an order that has them all.
LEMMA OrdersFacts ==
  ASSUME NEW ids \in SUBSET Requests, NEW list \in Orders(ids)
  PROVE  /\ list \in Seq(ids)
         /\ \A i \in 1..Len(list) : list[i] \in ids
         /\ \A r \in ids : \E i \in 1..Len(list) : list[i] = r
<1>1. IsFiniteSet(Requests)
  BY FS_Interval, LimitAssumption DEF Requests
<1>2. Cardinality(ids) \in Nat
  BY <1>1, FS_Subset, FS_CardinalityType
<1> DEFINE n == Cardinality(ids)
<1>3. list \in [1..n -> ids] /\ Range(list) = ids
  BY DEF Orders
<1> HIDE DEF n
<1>4. n \in Nat
  BY <1>2 DEF n
<1>5. list \in Seq(ids) /\ Len(list) = n
  BY <1>3, <1>4
<1>6. \A r \in ids : \E i \in 1..n : list[i] = r
  BY <1>3 DEF Range
<1> QED BY <1>3, <1>5, <1>6

\* The list a worker is about to resolve names each id once, with one error.
LEMMA ToResolveFacts ==
  ASSUME IInv, NEW w \in Workers, NEW ids \in SUBSET Requests, NEW error \in Outcome,
         ToResolve(w, ids, error)
  PROVE  /\ batch' = [v \in Workers |-> batch'[v]]
         /\ \A v \in Workers : v # w => batch'[v] = batch[v]
         /\ batch'[w] \in Seq(Requests \X Outcome)
         /\ \A i \in 1..Len(batch'[w]) : batch'[w][i][2] = error
         /\ \A r \in ids : Listed(batch'[w], r)
<1>1. PICK list \in Orders(ids) : Work(w, [i \in 1..Len(list) |-> <<list[i], error>>])
  BY Zenon DEF ToResolve
<1> DEFINE l == [i \in 1..Len(list) |-> <<list[i], error>>]
<1>2. /\ list \in Seq(ids) /\ Len(list) \in Nat
      /\ \A i \in 1..Len(list) : list[i] \in ids
      /\ \A r \in ids : \E i \in 1..Len(list) : list[i] = r
  BY OrdersFacts
<1>3. /\ l \in Seq(Requests \X Outcome) /\ Len(l) = Len(list)
      /\ \A i \in 1..Len(list) : l[i] = <<list[i], error>>
  BY <1>2
<1>4. batch' = [batch EXCEPT ![w] = l]
  BY Zenon, <1>1 DEF Work
<1> HIDE DEF l
<1>5. \A i \in 1..Len(l) : l[i][1] = list[i] /\ l[i][2] = error
  BY <1>3
<1>6. \A r \in ids : Listed(l, r)
  BY <1>2, <1>3, <1>5, ListedIn
<1>7. /\ batch' = [v \in Workers |-> batch'[v]]
      /\ \A v \in Workers : v # w => batch'[v] = batch[v]
      /\ batch'[w] = l
  BY Zenon, <1>4 DEF IInv, TypeInv
<1> QED BY <1>3, <1>5, <1>6, <1>7

PCs == {"head", "wait", "drained", "batch", "timer", "done", "dead"} \cup Lists

\* A worker moves its own program counter only.
LEMMA GotoFacts ==
  ASSUME IInv, NEW w \in Workers, NEW at \in PCs, Goto(w, at)
  PROVE  pc' \in [Workers -> PCs] /\ pc'[w] = at /\ \A v \in Workers : v # w => pc'[v] = pc[v]
BY DEF IInv, TypeInv, Goto, PCs

\* The shutdown check, with the cleanup it starts, keeps the invariant.
LEMMA CheckShutdownInv ==
  ASSUME IInv, NEW w \in Workers, CheckShutdown(w), UNCHANGED scene
  PROVE  IInv'
<1> USE DEF queueVars, hostVars, callbackVars
<1>1. UNCHANGED <<scene, push_, task, cause, queueVars, hostVars, running, callbackVars>>
  BY Zenon DEF CheckShutdown, CheckShutdownThen
<1>2. pc[w] = "drained" /\ running[w] = Idle /\ WorkerInv(w) /\ pending[w] \in SUBSET Requests
  BY Zenon, WorkerPart DEF CheckShutdown, CheckShutdownThen, Loop, IInv, TypeInv
<1>3. PendingInv' /\ OutcomeIsTrue' /\ (closing' => shutdown')
  BY Zenon, <1>1, QuietKeeps DEF IInv, EntryInv
<1>4. Idle.kind = "idle"
  BY DEF Idle
<1>5. CASE batch[w] = <<>> /\ shutdown
  <2>1. Goto(w, "cleanup") /\ ToResolve(w, pending[w], "shutdown")
    BY Zenon, <1>5 DEF CheckShutdown, CheckShutdownThen
  <2>2. "cleanup" \in PCs /\ "shutdown" \in Outcome
    BY Zenon DEF PCs, Lists, Outcome
  <2>3. /\ pc' \in [Workers -> PCs] /\ pc'[w] = "cleanup"
        /\ \A v \in Workers : v # w => pc'[v] = pc[v]
    BY <2>1, <2>2, GotoFacts
  <2>4. /\ batch' = [v \in Workers |-> batch'[v]]
        /\ \A v \in Workers : v # w => batch'[v] = batch[v]
        /\ batch'[w] \in Seq(Requests \X Outcome)
        /\ \A i \in 1..Len(batch'[w]) : batch'[w][i][2] = "shutdown"
        /\ \A r \in pending[w] : Listed(batch'[w], r)
    BY Zenon, <1>2, <2>1, <2>2, ToResolveFacts
  <2>5. TypeInv'
    BY <1>1, <2>3, <2>4 DEF IInv, TypeInv, PCs
  <2>6. \A i \in 1..Len(batch'[w]) : GoodEntry(batch'[w][i], cause, shutdown)
    BY Zenon, <1>5, <2>4 DEF GoodEntry
  <2>7. WorkerInv(w)'
    BY <1>1, <1>2, <1>4, <2>3, <2>4, <2>6 DEF WorkerInv, Ended, Working, Lists
  <2>8. \A v \in Workers : v # w => Same(v)
    BY Zenon, <1>1, <2>3, <2>4 DEF Same
  <2> QED BY <1>1, <1>3, <2>5, <2>7, <2>8, WorkerKeeps
<1>6. CASE ~ (batch[w] = <<>> /\ shutdown)
  <2>1. Goto(w, "batch") /\ UNCHANGED batch
    BY Zenon, <1>6 DEF CheckShutdown, CheckShutdownThen
  <2>2. /\ pc' \in [Workers -> PCs] /\ pc'[w] = "batch"
        /\ \A v \in Workers : v # w => pc'[v] = pc[v]
    BY Zenon, <2>1, GotoFacts DEF PCs
  <2>3. TypeInv'
    BY <1>1, <2>1, <2>2 DEF IInv, TypeInv, PCs
  <2>4. WorkerInv(w)'
    BY Zenon, <1>1, <1>2, <2>1, <2>2 DEF WorkerInv, Ended, Working, Lists
  <2>5. \A v \in Workers : v # w => Same(v)
    BY Zenon, <1>1, <2>1, <2>2 DEF Same
  <2> QED BY <1>1, <1>3, <2>3, <2>4, <2>5, WorkerKeeps
<1> QED BY Zenon, <1>5, <1>6

\* The sweep of expired callbacks keeps the invariant.
LEMMA SweepInv ==
  ASSUME IInv, NEW w \in Workers, NEW ids \in Expired(w), Sweep(w, ids), UNCHANGED scene
  PROVE  IInv'
<1> USE DEF queueVars, hostVars, callbackVars
<1>1. UNCHANGED <<scene, push_, task, cause, queueVars, hostVars, running, callbackVars>>
  BY Zenon DEF Sweep, SweepIds
<1>2. /\ pc[w] = "overflow" /\ running[w] = Idle /\ batch[w] = <<>> /\ WorkerInv(w)
      /\ ids \in SUBSET Requests
  BY WorkerPart DEF Sweep, SweepIds, Loop, IInv, TypeInv, Expired
<1>3. PendingInv' /\ OutcomeIsTrue' /\ (closing' => shutdown')
  BY Zenon, <1>1, QuietKeeps DEF IInv, EntryInv
<1>4. Goto(w, "sweep") /\ ToResolve(w, ids, "inventory_timeout")
  BY Zenon DEF Sweep, SweepIds
<1>5. /\ pc' \in [Workers -> PCs] /\ pc'[w] = "sweep"
      /\ \A v \in Workers : v # w => pc'[v] = pc[v]
  BY <1>4, GotoFacts DEF PCs, Lists
<1>6. "inventory_timeout" \in Outcome
  BY DEF Outcome
<1>7. /\ batch' = [v \in Workers |-> batch'[v]]
      /\ \A v \in Workers : v # w => batch'[v] = batch[v]
      /\ batch'[w] \in Seq(Requests \X Outcome)
      /\ \A i \in 1..Len(batch'[w]) : batch'[w][i][2] = "inventory_timeout"
  BY Zenon, <1>2, <1>4, <1>6, ToResolveFacts
<1>8. TypeInv'
  BY <1>1, <1>5, <1>7 DEF IInv, TypeInv, PCs
<1>9. \A i \in 1..Len(batch'[w]) : GoodEntry(batch'[w][i], cause, shutdown)
  BY <1>7 DEF GoodEntry
<1>10. \A r : ~ Listed(<<>>, r)
  BY Zenon, NothingIn
<1>11. \A r \in pending[w] : task[r].at \in Over =>
         Owed(push_[r], w, r) \/ Mentions(queue[w].high, r) \/ Listed(failed[w], r)
  BY Zenon, <1>2, <1>10 DEF WorkerInv, Ended, Working, Lists
<1>12. WorkerInv(w)'
  BY Zenon, <1>1, <1>2, <1>5, <1>7, <1>9, <1>11 DEF WorkerInv, Ended, Working, Lists
<1>13. \A v \in Workers : v # w => Same(v)
  BY <1>1, <1>5, <1>7 DEF Same
<1> QED BY <1>1, <1>3, <1>8, <1>12, <1>13, WorkerKeeps

\* A worker changes only what it runs itself.
LEMMA RunFacts ==
  ASSUME IInv, NEW w \in Workers, NEW code \in Codes, Run(w, code)
  PROVE  /\ running' \in [Workers -> Codes] /\ running'[w] = code
         /\ \A v \in Workers : v # w => running'[v] = running[v]
BY Zenon DEF IInv, TypeInv, Run

\* Running the callback of a result keeps the invariant: it is taken out first.
LEMMA DispatchCallbackInv ==
  ASSUME IInv, NEW w \in Workers, DispatchCallback(w), UNCHANGED scene
  PROVE  IInv'
<1> USE DEF queueVars, hostVars, loopVars
<1> DEFINE e == Head(batch[w])
           r == e.id
<1>1. UNCHANGED <<scene, push_, task, cause, queueVars, hostVars, loopVars>>
  BY Zenon DEF DispatchCallback
<1>2. /\ pc[w] = "batch" /\ running[w] = Idle /\ batch[w] # <<>> /\ Carries(e) /\ r \in pending[w]
      /\ Fire(w, r, Carried(r)) /\ WorkerInv(w)
  BY Zenon, WorkerPart DEF DispatchCallback, Loop, Waits
<1>3. batch[w] \in Seq(Items) /\ \A i \in 1..Len(batch[w]) : GoodItem(batch[w][i], task)
  BY Zenon, <1>2 DEF WorkerInv
<1>4. e = batch[w][1] /\ 1 \in 1..Len(batch[w])
  <2> DEFINE s == batch[w]
  <2>1. s \in Seq(Items) /\ s # <<>>
    BY Zenon, <1>2, <1>3
  <2> HIDE DEF s
  <2>2. Head(s) = s[1] /\ 1 \in 1..Len(s)
    BY <2>1, TailFacts
  <2> QED BY <2>2 DEF s
<1>5. GoodItem(e, task)
  BY Zenon, <1>3, <1>4
<1> HIDE DEF e
<1>6. r \in Requests /\ task[r].at \in Over
  BY Zenon, <1>2, <1>5 DEF GoodItem
<1>7. Carried(r) \in Outcome /\ (Carried(r) = "result" => task[r].at = "done")
      /\ (Carried(r) = "worker_overloaded" => task[r].at = "refused") /\ Carried(r) # "shutdown"
  BY Zenon, <1>6 DEF Carried, Outcome, Over
<1> HIDE DEF r
<1>8. /\ pending' \in [Workers -> SUBSET Requests] /\ fired' \in [Requests -> Seq(Outcome)]
      /\ PendingInv' /\ OutcomeIsTrue'
      /\ pending'[w] = pending[w] \ {r}
      /\ \A v \in Workers : v # w => pending'[v] = pending[v]
      /\ CallbackOf(r) \in Codes
  BY Zenon, <1>1, <1>2, <1>7, FireKeeps
<1>9. /\ running' \in [Workers -> Codes] /\ running'[w] = CallbackOf(r)
      /\ \A v \in Workers : v # w => running'[v] = running[v]
  BY Zenon, <1>2, <1>8, RunFacts DEF Fire
<1>10. TypeInv'
  BY Zenon, <1>1, <1>8, <1>9 DEF IInv, TypeInv
<1>11. CallbackOf(r).kind = "callback" /\ CallbackOf(r) # Unwinding
  BY DEF CallbackOf, Unwinding
<1>12. WorkerInv(w)'
  BY Zenon, <1>1, <1>2, <1>8, <1>9, <1>11 DEF WorkerInv, Ended, Working, Lists
<1>13. \A v \in Workers : v # w => Same(v)
  BY Zenon, <1>1, <1>8, <1>9 DEF Same
<1>14. closing' => shutdown'
  BY Zenon, <1>1 DEF IInv, EntryInv
<1> QED BY Zenon, <1>1, <1>8, <1>10, <1>12, <1>13, <1>14, WorkerKeeps

\* Working through a batch or a list.
LEMMA TailWork ==
  ASSUME IInv, NEW w \in Workers, NEW T, batch[w] \in Seq(T), batch[w] # <<>>,
         Work(w, Tail(batch[w]))
  PROVE  /\ batch' = [v \in Workers |-> batch'[v]]
         /\ \A v \in Workers : v # w => batch'[v] = batch[v]
         /\ batch'[w] \in Seq(T)
         /\ \A i \in 1..Len(batch'[w]) : i + 1 \in 1..Len(batch[w]) /\ batch'[w][i] = batch[w][i + 1]
         /\ \A i \in 1..Len(batch[w]) :
              i # 1 => i - 1 \in 1..Len(batch'[w]) /\ batch'[w][i - 1] = batch[w][i]
         /\ Head(batch[w]) = batch[w][1] /\ 1 \in 1..Len(batch[w]) /\ batch[w][1] \in T
<1> DEFINE s == batch[w]
           t == Tail(s)
<1>1. s \in Seq(T) /\ s # <<>> /\ batch' = [batch EXCEPT ![w] = t]
  BY DEF Work
<1>2. /\ batch' = [v \in Workers |-> batch'[v]]
      /\ \A v \in Workers : v # w => batch'[v] = batch[v]
      /\ batch'[w] = t
  <2> HIDE DEF t
  <2> QED BY Zenon, <1>1 DEF IInv, TypeInv
<1> HIDE DEF s
<1>3. /\ t \in Seq(T) /\ Head(s) = s[1] /\ s[1] \in T /\ 1 \in 1..Len(s)
      /\ \A i \in 1..Len(t) : i + 1 \in 1..Len(s) /\ t[i] = s[i + 1]
      /\ \A i \in 1..Len(s) : i # 1 => i - 1 \in 1..Len(t) /\ t[i - 1] = s[i]
  BY <1>1, TailFacts
<1> HIDE DEF t
<1> QED BY <1>2, <1>3 DEF s

\* The handlers of an event are code that a worker may run.
LEMMA HandlersCodes ==
  ASSUME NEW e, GoodItem(e, task), NEW code \in Handlers(e) \cup {Idle}
  PROVE  code \in Codes /\ code # Unwinding
<1>1. CASE code = Idle
  BY <1>1 DEF Codes, Idle, Unwinding
<1>2. CASE code = Global
  BY Zenon, <1>2 DEF Codes, Global, Unwinding
<1>3. CASE code = HandlerOf(e.bot) /\ e.bot \in Bots
  BY <1>3 DEF Codes, HandlerOf, Unwinding
<1>4. e.name \in {"event", "action_result", "callback_completion", "worker_overload"}
  BY DEF GoodItem, Items
<1> QED BY <1>1, <1>2, <1>3, <1>4 DEF Handlers, GoodItem

\* Running the handlers of an event keeps the invariant.
LEMMA DispatchHandlersInv ==
  ASSUME IInv, NEW w \in Workers, DispatchHandlers(w), UNCHANGED scene
  PROVE  IInv'
<1> USE DEF queueVars, hostVars, callbackVars
<1> DEFINE e == Head(batch[w])
<1>1. UNCHANGED <<scene, push_, task, cause, queueVars, hostVars, pc, callbackVars>>
  BY Zenon DEF DispatchHandlers
<1>2. /\ pc[w] = "batch" /\ batch[w] # <<>> /\ (Carries(e) => e.id \notin pending[w])
      /\ Work(w, Tail(batch[w])) /\ WorkerInv(w)
  BY WorkerPart DEF DispatchHandlers, Loop, Waits
<1>3. batch[w] \in Seq(Items) /\ \A i \in 1..Len(batch[w]) : GoodItem(batch[w][i], task)
  BY Zenon, <1>2 DEF WorkerInv
<1>4. /\ batch' = [v \in Workers |-> batch'[v]]
      /\ \A v \in Workers : v # w => batch'[v] = batch[v]
      /\ batch'[w] \in Seq(Items)
      /\ \A i \in 1..Len(batch'[w]) : i + 1 \in 1..Len(batch[w]) /\ batch'[w][i] = batch[w][i + 1]
      /\ \A i \in 1..Len(batch[w]) :
           i # 1 => i - 1 \in 1..Len(batch'[w]) /\ batch'[w][i - 1] = batch[w][i]
      /\ e = batch[w][1] /\ 1 \in 1..Len(batch[w])
  BY <1>2, <1>3, TailWork
<1>5. GoodItem(e, task)
  BY Zenon, <1>3, <1>4
<1>6. PICK code \in Handlers(e) \cup {Idle} : Run(w, code)
  BY Zenon DEF DispatchHandlers
<1> HIDE DEF e
<1>7. code \in Codes /\ code # Unwinding
  BY <1>5, HandlersCodes
<1>8. /\ running' \in [Workers -> Codes] /\ running'[w] = code
      /\ \A v \in Workers : v # w => running'[v] = running[v]
  BY Zenon, <1>6, <1>7, RunFacts
<1>9. TypeInv'
  BY Zenon, <1>1, <1>4, <1>8 DEF IInv, TypeInv
<1>10. \A s \in pending[w] : Mentions(batch[w], s) => Mentions(batch'[w], s)
  <2> SUFFICES ASSUME NEW s \in pending[w], Mentions(batch[w], s)
               PROVE  Mentions(batch'[w], s)
    BY Zenon
  <2>1. PICK i \in 1..Len(batch[w]) : Carries(batch[w][i]) /\ batch[w][i].id = s
    BY Zenon, <1>3, MentionsIn
  <2>2. i # 1
    BY Zenon, <1>2, <1>4, <2>1
  <2>3. i - 1 \in 1..Len(batch'[w]) /\ batch'[w][i - 1] = batch[w][i]
    BY <1>4, <2>2
  <2>4. \E j \in 1..Len(batch'[w]) : Carries(batch'[w][j]) /\ batch'[w][j].id = s
    BY Zenon, <2>1, <2>3
  <2> QED BY Zenon, <1>4, <2>4, MentionsIn
<1>11. \A i \in 1..Len(batch'[w]) : GoodItem(batch'[w][i], task)
  BY Zenon, <1>3, <1>4
<1>12. WorkerInv(w)'
  BY Zenon, <1>1, <1>2, <1>4, <1>7, <1>8, <1>10, <1>11 DEF WorkerInv, Ended, Working, Lists
<1>13. \A v \in Workers : v # w => Same(v)
  BY <1>1, <1>4, <1>8 DEF Same
<1>14. PendingInv' /\ OutcomeIsTrue' /\ (closing' => shutdown')
  BY Zenon, <1>1, QuietKeeps DEF IInv, EntryInv
<1> QED BY <1>1, <1>9, <1>12, <1>13, <1>14, WorkerKeeps

\* take_failed_requests keeps the invariant: the list moves to the worker whole.
LEMMA TakeFailedInv ==
  ASSUME IInv, NEW w \in Workers, take_failed_requests(w), UNCHANGED scene
  PROVE  IInv'
<1> USE DEF hostVars, callbackVars
<1>1. UNCHANGED <<scene, push_, task, cause, queue, closed, hostVars, running, callbackVars>>
  BY Zenon DEF take_failed_requests
<1>2. /\ pc[w] = "batch" /\ running[w] = Idle /\ batch[w] = <<>> /\ WorkerInv(w)
      /\ Goto(w, "overflow")
      /\ batch' = [batch EXCEPT ![w] = failed[w]] /\ failed' = [failed EXCEPT ![w] = <<>>]
  BY Zenon, WorkerPart DEF take_failed_requests, Loop, Work
<1>3. /\ pc' \in [Workers -> PCs] /\ pc'[w] = "overflow"
      /\ \A v \in Workers : v # w => pc'[v] = pc[v]
  BY <1>2, GotoFacts DEF PCs, Lists
<1>4. failed \in [Workers -> Seq(Requests \X Outcome)] /\ <<>> \in Seq(Requests \X Outcome)
  BY DEF IInv, TypeInv
<1>5. /\ batch' = [v \in Workers |-> batch'[v]] /\ batch'[w] = failed[w]
      /\ \A v \in Workers : v # w => batch'[v] = batch[v]
  BY Zenon, <1>2 DEF IInv, TypeInv
<1>6. /\ failed' \in [Workers -> Seq(Requests \X Outcome)] /\ failed'[w] = <<>>
      /\ \A v \in Workers : v # w => failed'[v] = failed[v]
  BY Zenon, <1>2, <1>4
<1>7. TypeInv'
  BY <1>1, <1>3, <1>5, <1>6 DEF IInv, TypeInv, PCs
<1>8. \A r : ~ Mentions(<<>>, r)
  BY Zenon, NothingIn
<1>9. \A r \in pending[w] : task[r].at \in Over =>
        Owed(push_[r], w, r) \/ Mentions(queue[w].high, r) \/ Listed(batch'[w], r)
  BY <1>2, <1>5, <1>8 DEF WorkerInv, Ended, Working, Lists
<1>10. batch'[w] \in Seq(Requests \X Outcome)
  BY Zenon, <1>4, <1>5
<1>11. WorkerInv(w)'
  BY <1>1, <1>2, <1>3, <1>5, <1>6, <1>9, <1>10 DEF WorkerInv, Ended, Working, Lists
<1>12. \A v \in Workers : v # w => Same(v)
  BY Zenon, <1>1, <1>3, <1>5, <1>6 DEF Same
<1>13. PendingInv' /\ OutcomeIsTrue' /\ (closing' => shutdown')
  BY Zenon, <1>1, QuietKeeps DEF IInv, EntryInv
<1> QED BY Zenon, <1>1, <1>7, <1>11, <1>12, <1>13, WorkerKeeps

\* Resolving one failed request keeps the invariant.
LEMMA ResolveInv ==
  ASSUME IInv, NEW w \in Workers, Resolve(w), UNCHANGED scene
  PROVE  IInv'
<1> USE DEF queueVars, hostVars
<1> DEFINE x == Head(batch[w])
<1>1. UNCHANGED <<scene, push_, task, cause, queueVars, hostVars, pc>>
  BY Zenon DEF Resolve, ResolveIf
<1>2. /\ pc[w] \in Lists /\ running[w] = Idle /\ batch[w] # <<>> /\ WorkerInv(w)
      /\ Work(w, Tail(batch[w]))
      /\ IF x[1] \in pending[w] THEN Fire(w, x[1], x[2]) ELSE UNCHANGED <<callbackVars, running>>
  BY Zenon, WorkerPart DEF Resolve, ResolveIf, Waits, Lists
<1>3. /\ batch[w] \in Seq(Requests \X Outcome)
      /\ \A i \in 1..Len(batch[w]) : GoodEntry(batch[w][i], cause, shutdown)
  BY Zenon, <1>2 DEF WorkerInv
<1>4. /\ batch' = [v \in Workers |-> batch'[v]]
      /\ \A v \in Workers : v # w => batch'[v] = batch[v]
      /\ batch'[w] \in Seq(Requests \X Outcome)
      /\ \A i \in 1..Len(batch'[w]) : i + 1 \in 1..Len(batch[w]) /\ batch'[w][i] = batch[w][i + 1]
      /\ \A i \in 1..Len(batch[w]) :
           i # 1 => i - 1 \in 1..Len(batch'[w]) /\ batch'[w][i - 1] = batch[w][i]
      /\ x = batch[w][1] /\ 1 \in 1..Len(batch[w]) /\ x \in Requests \X Outcome
  BY <1>2, <1>3, TailWork
<1>5. GoodEntry(x, cause, shutdown)
  BY <1>3, <1>4
<1>6. \A i \in 1..Len(batch'[w]) : GoodEntry(batch'[w][i], cause, shutdown)
  BY <1>3, <1>4
<1> HIDE DEF x
<1>7. \A s : s # x[1] /\ Listed(batch[w], s) => Listed(batch'[w], s)
  <2> SUFFICES ASSUME NEW s, s # x[1], Listed(batch[w], s)
               PROVE  Listed(batch'[w], s)
    BY Zenon
  <2>1. PICK i \in 1..Len(batch[w]) : batch[w][i][1] = s
    BY <1>3, ListedIn
  <2>2. i # 1
    BY <1>4, <2>1
  <2>3. i - 1 \in 1..Len(batch'[w]) /\ batch'[w][i - 1] = batch[w][i]
    BY <1>4, <2>2
  <2>4. \E j \in 1..Len(batch'[w]) : batch'[w][j][1] = s
    BY Zenon, <2>1, <2>3
  <2> QED BY <1>4, <2>4, ListedIn
<1>8. closing' => shutdown'
  BY <1>1 DEF IInv, EntryInv
<1>9. CASE x[1] \in pending[w]
  <2> DEFINE r == x[1]
             o == x[2]
  <2>1. /\ o \in Outcome /\ o # "result" /\ (o = "worker_overloaded" => "overflow" \in cause[r])
        /\ (o = "shutdown" => shutdown) /\ Fire(w, r, o) /\ r \in pending[w]
    BY Zenon, <1>2, <1>4, <1>5, <1>9 DEF GoodEntry
  <2> HIDE DEF r, o
  <2>2. /\ pending' \in [Workers -> SUBSET Requests] /\ fired' \in [Requests -> Seq(Outcome)]
        /\ PendingInv' /\ OutcomeIsTrue'
        /\ pending'[w] = pending[w] \ {r}
        /\ \A v \in Workers : v # w => pending'[v] = pending[v]
        /\ CallbackOf(r) \in Codes
    BY Zenon, <1>1, <2>1, FireKeeps
  <2>3. /\ running' \in [Workers -> Codes] /\ running'[w] = CallbackOf(r)
        /\ \A v \in Workers : v # w => running'[v] = running[v]
    BY Zenon, <2>1, <2>2, RunFacts DEF Fire
  <2>4. TypeInv'
    BY <1>1, <1>4, <2>2, <2>3 DEF IInv, TypeInv
  <2>5. CallbackOf(r).kind = "callback" /\ CallbackOf(r) # Unwinding
    BY DEF CallbackOf, Unwinding
  <2>6. \A s \in pending'[w] : s \in pending[w] /\ (Listed(batch[w], s) => Listed(batch'[w], s))
    BY Zenon, <1>7, <2>2 DEF r
  <2>7. WorkerInv(w)'
    BY Zenon, <1>1, <1>2, <1>4, <1>6, <2>2, <2>3, <2>5, <2>6 DEF WorkerInv, Ended, Working, Lists
  <2>8. \A v \in Workers : v # w => Same(v)
    BY Zenon, <1>1, <1>4, <2>2, <2>3 DEF Same
  <2> QED BY Zenon, <1>1, <1>8, <2>2, <2>4, <2>7, <2>8, WorkerKeeps
<1>10. CASE x[1] \notin pending[w]
  <2>1. UNCHANGED <<pending, fired, running>>
    BY Zenon, <1>2, <1>10 DEF callbackVars
  <2>2. PendingInv' /\ OutcomeIsTrue'
    BY Zenon, <1>1, <2>1, QuietKeeps
  <2>3. TypeInv'
    BY <1>1, <1>4, <2>1 DEF IInv, TypeInv
  <2>4. \A s \in pending[w] : Listed(batch[w], s) => Listed(batch'[w], s)
    BY Zenon, <1>7, <1>10
  <2>5. WorkerInv(w)'
    BY Zenon, <1>1, <1>2, <1>4, <1>6, <2>1, <2>4 DEF WorkerInv, Ended, Working, Lists
  <2>6. \A v \in Workers : v # w => Same(v)
    BY <1>1, <1>4, <2>1 DEF Same
  <2> QED BY Zenon, <1>1, <1>8, <2>2, <2>3, <2>5, <2>6, WorkerKeeps
<1> QED BY <1>9, <1>10

\* Steps that only move a worker along: none of its work is lost.
LEMMA MoveInv ==
  ASSUME IInv, NEW w \in Workers, NEW at \in PCs, NEW code \in Codes,
         Goto(w, at), Run(w, code),
         UNCHANGED <<scene, push_, task, cause, queueVars, hostVars, batch, callbackVars>>,
         \/ at = pc[w] /\ code = Idle
         \/ /\ pc[w] = "timer" \/ (pc[w] = "sweep" /\ batch[w] = <<>>)
            /\ \/ at = "head" /\ code = Idle
               \/ at = "timer" /\ code # Unwinding
         \/ pc[w] = "cleanup" /\ batch[w] = <<>> /\ at = "done" /\ code = Idle
         \/ scene.chained /\ at = "dead" /\ code = Idle
  PROVE  IInv'
<1> USE DEF queueVars, hostVars, callbackVars
<1>1. /\ pc' \in [Workers -> PCs] /\ pc'[w] = at
      /\ \A v \in Workers : v # w => pc'[v] = pc[v]
  BY Zenon, GotoFacts
<1>2. /\ running' \in [Workers -> Codes] /\ running'[w] = code
      /\ \A v \in Workers : v # w => running'[v] = running[v]
  BY Zenon, RunFacts
<1>3. TypeInv'
  BY <1>1, <1>2 DEF IInv, TypeInv, PCs
<1>4. PendingInv' /\ OutcomeIsTrue' /\ (closing' => shutdown')
  BY Zenon, QuietKeeps DEF IInv, EntryInv
<1>5. \A v \in Workers : v # w => Same(v)
  BY Zenon, <1>1, <1>2 DEF Same
<1>6. WorkerInv(w) /\ Idle.kind = "idle" /\ Idle # Unwinding
  BY Zenon, WorkerPart DEF Idle, Unwinding
<1>7. \A r : ~ Mentions(<<>>, r) /\ ~ Listed(<<>>, r)
  BY Zenon, NothingIn
<1>8. WorkerInv(w)'
  <2>1. CASE at = pc[w] /\ code = Idle
    BY Zenon, <1>1, <1>2, <1>6, <2>1 DEF WorkerInv, Ended, Working, Lists
  <2>2. CASE /\ pc[w] = "timer" \/ (pc[w] = "sweep" /\ batch[w] = <<>>)
             /\ at \in {"head", "timer"} /\ code # Unwinding
             /\ at = "head" => code = Idle
    <3>1. batch[w] = <<>>
      BY Zenon, <1>6, <2>2 DEF WorkerInv
    <3>2. \A r \in pending[w] : task[r].at \in Over =>
            Owed(push_[r], w, r) \/ Mentions(queue[w].high, r) \/ Listed(failed[w], r)
      BY Zenon, <1>6, <1>7, <2>2, <3>1 DEF WorkerInv, Ended, Working, Lists
    <3> QED BY Zenon, <1>1, <1>2, <1>6, <2>2, <3>1, <3>2 DEF WorkerInv, Ended, Working, Lists
  <2>3. CASE pc[w] = "cleanup" /\ batch[w] = <<>> /\ at = "done" /\ code = Idle
    <3>1. pending[w] = {}
      BY Zenon, <1>6, <1>7, <2>3 DEF WorkerInv
    <3> QED BY Zenon, <1>1, <1>2, <1>6, <2>3, <3>1 DEF WorkerInv, Ended, Working, Lists
  <2>4. CASE scene.chained /\ at = "dead" /\ code = Idle
    BY Zenon, <1>1, <1>2, <1>6, <2>4 DEF WorkerInv, Ended, Working, Lists
  <2> QED BY Zenon, <1>6, <2>1, <2>2, <2>3, <2>4
<1> QED BY Zenon, <1>3, <1>4, <1>5, <1>8, WorkerKeeps

\* Timers, returns, the caught panic and the exit keep the invariant.
LEMMA Moves ==
  ASSUME IInv, NEW w \in Workers, UNCHANGED scene,
         \/ fire_due(w) \/ LeaveWorker(w) \/ CatchUnwind(w)
         \/ \E succeeded \in BOOLEAN : Return(w, succeeded)
  PROVE  IInv'
<1> USE DEF Goto, Run
<1>1. /\ pc \in [Workers -> PCs] /\ running \in [Workers -> Codes] /\ WorkerInv(w)
      /\ Idle \in Codes /\ Global \in Codes /\ \A b \in Bots : TimerOf(b) \in Codes
  BY Zenon, WorkerPart DEF IInv, TypeInv, PCs, Codes
<1>2. Global # Unwinding /\ \A b \in Bots : TimerOf(b) # Unwinding
  BY Zenon DEF Global, Unwinding, TimerOf
<1>3. CASE fire_due(w)
  <2>0. /\ UNCHANGED <<scene, push_, task, cause, queueVars, hostVars, batch, callbackVars>>
        /\ pc[w] = "sweep" /\ running[w] = Idle /\ batch[w] = <<>>
    BY Zenon, <1>3 DEF fire_due, Loop
  <2>1. CASE Goto(w, "head") /\ UNCHANGED running
    <3>1. Run(w, Idle)
      BY Zenon, <1>1, <2>0, <2>1
    <3> QED BY Zenon, <1>1, <2>0, <2>1, <3>1, MoveInv DEF PCs
  <2>2. CASE Goto(w, "timer") /\ Run(w, Global)
    BY Zenon, <1>1, <1>2, <2>0, <2>2, MoveInv DEF PCs
  <2>3. CASE \E b \in Bots : Goto(w, "timer") /\ Run(w, TimerOf(b))
    BY Zenon, <1>1, <1>2, <2>0, <2>3, MoveInv DEF PCs
  <2> QED BY Zenon, <1>3, <2>1, <2>2, <2>3 DEF fire_due
<1>4. CASE LeaveWorker(w)
  <2>0. /\ UNCHANGED <<scene, push_, task, cause, queueVars, hostVars, batch, callbackVars>>
        /\ pc[w] = "cleanup" /\ running[w] = Idle /\ batch[w] = <<>> /\ Goto(w, "done")
        /\ UNCHANGED running
    BY Zenon, <1>4 DEF LeaveWorker, Loop
  <2>1. Run(w, Idle)
    BY Zenon, <1>1, <2>0
  <2> QED BY Zenon, <1>1, <2>0, <2>1, MoveInv DEF PCs
<1>5. CASE CatchUnwind(w)
  <2>0. /\ UNCHANGED <<scene, push_, task, cause, queueVars, hostVars, batch, callbackVars>>
        /\ running[w] = Unwinding /\ Goto(w, "dead") /\ Run(w, Idle)
    BY <1>5 DEF CatchUnwind
  <2>1. scene.chained
    BY Zenon, <1>1, <2>0 DEF WorkerInv
  <2> QED BY Zenon, <1>1, <2>0, <2>1, MoveInv DEF PCs
<1>6. CASE \E succeeded \in BOOLEAN : Return(w, succeeded)
  <2> DEFINE at == IF pc[w] = "timer" THEN "head" ELSE pc[w]
  <2>0. /\ UNCHANGED <<scene, push_, task, cause, queueVars, hostVars, batch, callbackVars>>
        /\ Goto(w, at) /\ Run(w, Idle)
    BY <1>1, <1>6 DEF Return
  <2>1. at \in PCs /\ (at = pc[w] \/ (pc[w] = "timer" /\ at = "head"))
    BY <1>1 DEF PCs
  <2> HIDE DEF at
  <2> QED BY Zenon, <1>1, <2>0, <2>1, MoveInv
<1> QED BY <1>3, <1>4, <1>5, <1>6

-----------------------------------------------------------------------------
\* The invariant holds before the workers start.
LEMMA InitInv == Init => IInv
<1> SUFFICES ASSUME Init PROVE IInv
  BY Zenon
<1>1. EmptyQueue \in Queues /\ EmptyQueue.high = <<>> /\ EmptyQueue.low = <<>>
  <2>1. EmptyQueue = [high |-> <<>>, order |-> <<>>, slots |-> NoSlots, low |-> <<>>,
                      lostHigh |-> 0, lostLow |-> 0]
    BY Zenon DEF EmptyQueue, NoSlots
  <2>2. <<>> \in Seq(Items)
    OBVIOUS
  <2> QED BY Zenon, <2>1, <2>2 DEF Queues
<1>2. /\ NoPush.todo = <<>> /\ Idle \in Codes /\ Idle.kind = "idle" /\ Idle # Unwinding
      /\ NoTask.at \notin Over
  BY DEF NoPush, Codes, Idle, Unwinding, NoTask, Over
<1>3. <<>> \in Seq(Requests \X Outcome) /\ <<>> \in Seq(Outcome) /\ Len(<<>>) = 0
  OBVIOUS
<1>4. TypeInv
  <2>1. /\ scene \in Scenes /\ shutdown \in BOOLEAN /\ closing \in BOOLEAN
        /\ task \in [Requests -> {NoTask} \cup
                 [at : {"running", "done", "refused"}, bot : Bots, origin : Workers]]
        /\ closed \in [Workers -> BOOLEAN]
        /\ pending \in [Workers -> SUBSET Requests]
        /\ cause \in [Requests -> SUBSET {"closed", "overflow", "evicted"}]
    BY Zenon DEF Init
  <2>2. /\ queue \in [Workers -> Queues]
        /\ push_ \in [Producers -> {NoPush} \cup Pushes]
        /\ \A p \in Producers : push_[p] = NoPush \/ push_[p].todo # <<>>
    BY Zenon, <1>1 DEF Init
  <2>3. /\ failed \in [Workers -> Seq(Requests \X Outcome)]
        /\ fired \in [Requests -> Seq(Outcome)]
        /\ running \in [Workers -> Codes]
        /\ batch = [w \in Workers |-> batch[w]]
    BY Zenon, <1>2, <1>3 DEF Init
  <2>4. pc \in [Workers -> {"head", "wait", "drained", "batch", "timer", "done", "dead"}
                          \cup Lists]
    BY Zenon DEF Init
  <2> QED BY <2>1, <2>2, <2>3, <2>4 DEF TypeInv
<1>5. /\ \A w \in Workers : /\ queue[w].high = <<>> /\ queue[w].low = <<>>
                            /\ failed[w] = <<>> /\ batch[w] = <<>> /\ running[w] = Idle
                            /\ pending[w] = {} /\ ~ closed[w] /\ pc[w] \in {"head", "dead"}
      /\ \A p \in Producers : push_[p].todo = <<>>
      /\ \A r \in Requests : task[r] = NoTask /\ fired[r] = <<>>
      /\ ~ closing
  BY Zenon, <1>1, <1>2 DEF Init
<1>6. ItemInv
  <2>1. Len(<<>>) = 0 /\ 1..0 = {}
    OBVIOUS
  <2>2. \A p \in Producers : push_[p].todo = <<>>
    BY Zenon, <1>5
  <2>3. \A w \in Workers : /\ queue[w].high = <<>> /\ queue[w].low = <<>>
                            /\ batch[w] = <<>> /\ pc[w] \notin {"drained", "batch"}
    BY Zenon, <1>5
  <2> QED BY Zenon, <2>1, <2>2, <2>3 DEF ItemInv
<1>7. EntryInv /\ RunInv
  <2>1. \A w \in Workers : /\ failed[w] = <<>> /\ running[w] = Idle /\ ~ closed[w]
                            /\ pc[w] \in {"head", "dead"}
    BY Zenon, <1>5
  <2>2. Len(<<>>) = 0 /\ 1..0 = {}
    OBVIOUS
  <2>3. \A w \in Workers : pc[w] \notin Lists /\ pc[w] # "cleanup"
    BY Zenon, <2>1 DEF Lists
  <2>4. Idle # Unwinding
    BY DEF Idle, Unwinding
  <2>5. EntryInv
    BY Zenon, <1>5, <2>1, <2>2, <2>3 DEF EntryInv
  <2>6. RunInv
    BY Zenon, <2>1, <2>3, <2>4 DEF RunInv
  <2> QED BY Zenon, <2>5, <2>6
<1>8. PendingInv
  BY <1>3, <1>5 DEF PendingInv
<1>9. OutcomeIsTrue
  BY <1>5 DEF OutcomeIsTrue
<1>10. WayInv /\ CleanInv
  BY <1>5 DEF WayInv, CleanInv, CleanExit
<1> QED BY Zenon, <1>4, <1>6, <1>7, <1>8, <1>9, <1>10 DEF IInv

\* Every step keeps the invariant.
LEMMA StepInv == IInv /\ [Next]_vars => IInv'
<1> SUFFICES ASSUME IInv, [Next]_vars PROVE IInv'
  OBVIOUS
<1>1. CASE UNCHANGED vars
  <2>1. UNCHANGED <<scene, queue, closed, failed, push_, shutdown, closing, pc, batch, running,
                    pending, fired, task, cause>>
    BY Zenon, <1>1 DEF vars, queueVars, hostVars, loopVars, callbackVars
  <2>2. TypeInv' /\ ItemInv' /\ EntryInv' /\ RunInv' /\ PendingInv'
    BY <2>1 DEF IInv, TypeInv, ItemInv, EntryInv, RunInv, PendingInv
  <2>3. OutcomeIsTrue' /\ WayInv' /\ CleanInv'
    BY <2>1 DEF IInv, OutcomeIsTrue, WayInv, CleanInv, CleanExit, Ended, Working
  <2> QED BY <2>2, <2>3 DEF IInv
<1>2. CASE Next
  <2>0. UNCHANGED scene
    BY <1>2 DEF Next
  <2>1. ASSUME NEW p \in Producers, PushStep(p) PROVE IInv'
    BY <2>0, <2>1, PushStepInv
  <2>2. ASSUME NEW b \in Bots, NEW lane \in {"High", "Low"}, dispatch_bot_event(b, lane)
        PROVE  IInv'
    BY Zenon, <2>0, <2>2, BotEventInv
  <2>3. ASSUME NEW r \in Requests, CompleteAction(r) PROVE IInv'
    BY <2>0, <2>3, CompleteActionInv
  <2>4. ASSUME NEW w \in Workers, LoopStep(w) PROVE IInv'
    <3>1. CASE LoopHead(w)
      BY <2>0, <3>1, CloseInv
    <3>2. CASE wait_for_batch(w)
      BY <2>0, <3>2, WaitInv
    <3>3. CASE CheckShutdown(w)
      BY Zenon, <2>0, <3>3, CheckShutdownInv
    <3>4. CASE DispatchCallback(w)
      BY <2>0, <3>4, DispatchCallbackInv
    <3>5. CASE DispatchHandlers(w)
      BY <2>0, <3>5, DispatchHandlersInv
    <3>6. CASE take_failed_requests(w)
      BY <2>0, <3>6, TakeFailedInv
    <3>7. CASE Resolve(w)
      BY <2>0, <3>7, ResolveInv
    <3>8. CASE \E ids \in Expired(w) : Sweep(w, ids)
      BY <2>0, <3>8, SweepInv
    <3>9. CASE \/ fire_due(w) \/ LeaveWorker(w) \/ CatchUnwind(w)
               \/ \E succeeded \in BOOLEAN : Return(w, succeeded)
      BY <2>0, <3>9, Moves
    <3> QED BY Zenon, <2>4, <3>1, <3>2, <3>3, <3>4, <3>5, <3>6, <3>7, <3>8, <3>9 DEF LoopStep
  <2>5. ASSUME NEW w \in Workers, ScriptStep(w) PROVE IInv'
    <3>1. CASE ScriptStop(w)
      <4>1. closing' \in BOOLEAN
        BY <3>1 DEF ScriptStop, IInv, TypeInv
      <4> QED BY Zenon, <2>0, <3>1, <4>1, StopInv DEF ScriptStop
    <3>2. CASE \E b \in Bots, r \in Requests : ActPlain(w, b, r) \/ ActWithCallback(w, b, r)
      BY <2>0, <3>2, ActInv
    <3>3. CASE \E b \in Bots, r \in Requests : ActWithCallbackPanics(w, b, r)
      BY <2>0, <3>3, PanicsInv
    <3> QED BY Zenon, <2>5, <3>1, <3>2, <3>3 DEF ScriptStep
  <2>6. ASSUME NEW w \in Workers, close(w) PROVE IInv'
    BY <2>0, <2>6, CloseInv
  <2>7. CASE Shutdown
    BY <2>0, <2>7, StopInv DEF Shutdown
  <2> QED BY Zenon, <1>2, <2>1, <2>2, <2>3, <2>4, <2>5, <2>6, <2>7 DEF Next
<1> QED BY <1>1, <1>2

\* The invariant holds in every reachable state.
LEMMA Invariant == Spec => []IInv
BY InitInv, StepInv, PTL DEF Spec

-----------------------------------------------------------------------------
(* A one-shot callback is called at most once, whichever of its result, a  *)
(* full queue, the timeout sweep and the shutdown get to it.               *)
THEOREM CallbacksFireOnce == Spec => []CallbackFiresOnce
<1>1. IInv => CallbackFiresOnce
  BY DEF IInv, PendingInv, CallbackFiresOnce
<1> QED BY <1>1, Invariant, PTL

(* A callback is told what happened: a result only of an action that       *)
(* ended, worker_overloaded only if no task was started or a queue was     *)
(* full, shutdown only once the swarm is shutting down.                    *)
THEOREM OutcomesAreTrue == Spec => []OutcomeIsTrue
<1>1. IInv => OutcomeIsTrue
  BY Zenon DEF IInv
<1> QED BY <1>1, Invariant, PTL

(* A result that was handed to the dispatcher while its callback waits is  *)
(* in the queue, the list of failures or the batch of the worker that      *)
(* asked, whichever worker owns the bot.                                   *)
THEOREM ResultsAreNotLost == Spec => []NoResultIsLost
<1>1. ASSUME IInv, NEW w \in Workers, NEW r \in pending[w],
             task[r].at \in {"done", "refused"}, push_[r] = NoPush, ~ Ended(w)
      PROVE  \/ Mentions(Drained(queue[w]), r)
             \/ Listed(failed[w], r)
             \/ IF pc[w] \in Lists THEN Listed(batch[w], r) ELSE Mentions(batch[w], r)
  <2> DEFINE u == queue[w]
  <2>1. u \in Queues
    BY <1>1 DEF IInv, TypeInv
  <2>2. \/ Owed(push_[r], w, r) \/ Mentions(u.high, r) \/ Listed(failed[w], r) \/ Working(w, r)
    BY Zenon, <1>1 DEF IInv, WayInv, Over
  <2>3. ~ Owed(push_[r], w, r)
    <3>1. ~ Owed(NoPush, w, r)
      BY DEF Owed, NoPush
    <3> QED BY Zenon, <1>1, <3>1
  <2> HIDE DEF u
  <2>4. Mentions(u.high, r) => Mentions(Drained(u), r)
    <3>1. u.high \in Seq(Items)
      BY <2>1 DEF Queues
    <3>2. /\ Drained(u) \in Seq(Items)
          /\ \A j \in 1..Len(u.high) : j \in 1..Len(Drained(u)) /\ Drained(u)[j] = u.high[j]
      BY Zenon, <2>1, DrainQueue
    <3> QED BY Zenon, <3>1, <3>2, MentionsGrow
  <2> QED BY Zenon, <2>2, <2>3, <2>4 DEF Working, u
<1>2. IInv => NoResultIsLost
  BY Zenon, <1>1 DEF NoResultIsLost
<1> QED BY <1>2, Invariant, PTL

(* A worker that has left its loop left no callback behind, and neither    *)
(* did one that died of anything but a callback of a callback.             *)
THEOREM WorkersLeaveNothing == Spec => []CleanExit
<1>1. IInv => CleanExit
  BY DEF IInv, CleanInv, CleanExit
<1> QED BY <1>1, Invariant, PTL

-----------------------------------------------------------------------------
(* A worker's callback registry never holds more callbacks than             *)
(* register_callback allows: the oldest one makes room.                     *)
CallbacksBounded == \A w \in Workers : Cardinality(pending[w]) <= MaxPending

\* Among requests there is an oldest one.
LEMMA OldestIn ==
  ASSUME NEW ids \in SUBSET Requests, ids # {}
  PROVE  Oldest(ids) \in ids
<1> DEFINE R == StrictSubsetOrdering(Nat)
           S == FiniteSubsetsOf(Nat)
           TT == {0..n : n \in ids}
<1>1. IsWellFoundedOn(R, S)
  BY FS_StrictSubsetOrderingWellFounded
<1>2. TT # {}
  BY Zenon
<1>0. ids \subseteq Nat
  BY LimitAssumption DEF Requests
<1>3. TT \subseteq S
  <2> SUFFICES ASSUME NEW n \in ids PROVE 0..n \in S
    OBVIOUS
  <2>1. n \in Nat /\ IsFiniteSet(0..n)
    BY <1>0, FS_Interval
  <2> QED BY <2>1 DEF FiniteSubsetsOf
<1> HIDE DEF R, S, TT
<1>4. PICK x \in TT : \A y \in TT : ~ (<<y, x>> \in R)
  BY <1>1, <1>2, <1>3, WFMin
<1>5. PICK m \in ids : x = 0..m
  BY DEF TT
<1>6. ASSUME NEW n \in ids, n < m PROVE FALSE
  <2>1. 0..n \in TT BY DEF TT
  <2>2. 0..n \subseteq 0..m /\ m \in 0..m /\ m \notin 0..n
    BY <1>0, <1>6
  <2>3. 0..n \in SUBSET Nat /\ 0..m \in SUBSET Nat /\ 0..n # 0..m
    BY <1>0, <2>2
  <2>4. <<0..n, 0..m>> \in R
    BY Zenon, <2>2, <2>3 DEF R, StrictSubsetOrdering
  <2> QED BY <1>4, <1>5, <2>1, <2>4
<1>7. \A n \in ids : m <= n
  BY <1>0, <1>6
<1> QED BY Zenon, <1>7 DEF Oldest

\* A step that takes callbacks out of registries keeps them within bounds.
LEMMA FewerCallbacks ==
  ASSUME IInv, CallbacksBounded, \A w \in Workers : pending'[w] \subseteq pending[w]
  PROVE  CallbacksBounded'
<1> SUFFICES ASSUME NEW w \in Workers PROVE Cardinality(pending'[w]) <= MaxPending
  BY Zenon DEF CallbacksBounded
<1>1. pending[w] \subseteq Requests
  BY DEF IInv, TypeInv
<1>2. IsFiniteSet(pending[w])
  <2>1. IsFiniteSet(Requests)
    BY LimitAssumption, FS_Interval DEF Requests
  <2> QED BY Zenon, <1>1, <2>1, FS_Subset
<1>3. /\ IsFiniteSet(pending'[w])
      /\ Cardinality(pending'[w]) <= Cardinality(pending[w])
  BY Zenon, <1>2, FS_Subset
<1>4. Cardinality(pending'[w]) \in Nat /\ Cardinality(pending[w]) \in Nat
  BY Zenon, <1>2, <1>3, FS_CardinalityType
<1>5. Cardinality(pending[w]) <= MaxPending
  BY Zenon DEF CallbacksBounded
<1> QED BY <1>3, <1>4, <1>5, LimitAssumption

\* register_callback makes room before it adds.
LEMMA RegisterBound ==
  ASSUME IInv, CallbacksBounded, NEW w \in Workers, NEW r \in Requests,
         register_callback(w, r)
  PROVE  CallbacksBounded'
<1> SUFFICES ASSUME NEW v \in Workers PROVE Cardinality(pending'[v]) <= MaxPending
  BY Zenon DEF CallbacksBounded
<1> DEFINE p == pending[w]
<1>1. pending \in [Workers -> SUBSET Requests] /\ p \in SUBSET Requests
  BY DEF IInv, TypeInv
<1>2. IsFiniteSet(p)
  <2>1. IsFiniteSet(Requests)
    BY LimitAssumption, FS_Interval DEF Requests
  <2> QED BY Zenon, <1>1, <2>1, FS_Subset
<1>3. Cardinality(p) \in Nat /\ Cardinality(p) <= MaxPending
  BY Zenon, <1>2, FS_CardinalityType DEF CallbacksBounded
<1>4. CASE v # w
  <2>1. pending'[v] = pending[v]
    BY <1>1, <1>4 DEF register_callback
  <2> QED BY Zenon, <2>1 DEF CallbacksBounded
<1>5. CASE v = w /\ Cardinality(p) >= MaxPending
  <2> DEFINE q == p \ {Oldest(p)}
  <2>1. pending'[v] = q \cup {r}
    BY Zenon, <1>1, <1>5 DEF register_callback
  <2>2. p # {}
    BY <1>5, FS_EmptySet, LimitAssumption
  <2>3. Oldest(p) \in p
    BY Zenon, <1>1, <2>2, OldestIn
  <2>4. IsFiniteSet(q) /\ Cardinality(q) = Cardinality(p) - 1
    BY Zenon, <1>2, <2>3, FS_RemoveElement
  <2>5. Cardinality(q \cup {r}) = Cardinality(q) \/ Cardinality(q \cup {r}) = Cardinality(q) + 1
    BY Zenon, <2>4, FS_AddElement
  <2> HIDE DEF p, q
  <2> QED BY <1>3, <2>1, <2>4, <2>5, LimitAssumption
<1>6. CASE v = w /\ ~ (Cardinality(p) >= MaxPending)
  <2>1. pending'[v] = p \cup {r}
    BY Zenon, <1>1, <1>6 DEF register_callback
  <2>2. Cardinality(p \cup {r}) = Cardinality(p) \/ Cardinality(p \cup {r}) = Cardinality(p) + 1
    BY Zenon, <1>2, FS_AddElement
  <2> HIDE DEF p
  <2> QED BY <1>3, <1>6, <2>1, <2>2, LimitAssumption
<1> QED BY Zenon, <1>4, <1>5, <1>6

(* A worker's callback registry never holds more callbacks than           *)
(* register_callback allows, however many scripts, results, sweeps and     *)
(* shutdowns get to it.                                                    *)
THEOREM CallbacksStayBounded == Spec => []CallbacksBounded
<1>1. Init => CallbacksBounded
  <2> SUFFICES ASSUME Init, NEW w \in Workers PROVE Cardinality(pending[w]) <= MaxPending
    BY Zenon DEF CallbacksBounded
  <2>1. pending[w] = {}
    BY Zenon DEF Init
  <2> QED BY <2>1, FS_EmptySet, LimitAssumption
<1>2. IInv /\ CallbacksBounded /\ [Next]_vars => CallbacksBounded'
  <2> SUFFICES ASSUME IInv, CallbacksBounded, [Next]_vars PROVE CallbacksBounded'
    OBVIOUS
  <2>0. pending \in [Workers -> SUBSET Requests]
    BY DEF IInv, TypeInv
  <2>1. ASSUME UNCHANGED pending PROVE CallbacksBounded'
    BY Zenon, <2>1 DEF CallbacksBounded
  <2>2. ASSUME NEW w \in Workers, NEW r, NEW outcome, Fire(w, r, outcome)
        PROVE  CallbacksBounded'
    <3>1. \A v \in Workers : pending'[v] \subseteq pending[v]
      BY <2>0, <2>2 DEF Fire
    <3> QED BY Zenon, <3>1, FewerCallbacks
  <2>3. CASE UNCHANGED vars
    BY Zenon, <2>1, <2>3 DEF vars, callbackVars
  <2>4. ASSUME NEW p \in Producers, PushStep(p) PROVE CallbacksBounded'
    BY Zenon, <2>1, <2>4 DEF PushStep, CheckClosed, PushLocked, ReportOverflow,
      ReportOverflowAs, callbackVars
  <2>5. ASSUME NEW b \in Bots, NEW lane \in {"High", "Low"}, dispatch_bot_event(b, lane)
        PROVE  CallbacksBounded'
    BY Zenon, <2>1, <2>5 DEF dispatch_bot_event, callbackVars
  <2>6. ASSUME NEW r \in Requests, CompleteAction(r) PROVE CallbacksBounded'
    BY Zenon, <2>1, <2>6 DEF CompleteAction, callbackVars
  <2>7. ASSUME NEW w \in Workers, LoopStep(w) PROVE CallbacksBounded'
    <3>1. CASE LoopHead(w) \/ wait_for_batch(w) \/ CheckShutdown(w)
      BY Zenon, <2>1, <3>1 DEF LoopHead, wait_for_batch, CheckShutdown, CheckShutdownThen,
        callbackVars
    <3>2. CASE DispatchCallback(w)
      BY Zenon, <2>2, <3>2 DEF DispatchCallback
    <3>3. CASE DispatchHandlers(w) \/ take_failed_requests(w)
      BY Zenon, <2>1, <3>3 DEF DispatchHandlers, take_failed_requests, callbackVars
    <3>4. CASE Resolve(w)
      BY Zenon, <2>1, <2>2, <3>4 DEF Resolve, ResolveIf, callbackVars
    <3>5. CASE \E ids \in Expired(w) : Sweep(w, ids)
      BY Zenon, <2>1, <3>5 DEF Sweep, SweepIds, callbackVars
    <3>6. CASE fire_due(w) \/ LeaveWorker(w) \/ CatchUnwind(w)
      BY Zenon, <2>1, <3>6 DEF fire_due, LeaveWorker, CatchUnwind, callbackVars
    <3>7. CASE \E succeeded \in BOOLEAN : Return(w, succeeded)
      BY Zenon, <2>1, <3>7 DEF Return, callbackVars
    <3> QED BY Zenon, <2>7, <3>1, <3>2, <3>3, <3>4, <3>5, <3>6, <3>7 DEF LoopStep
  <2>8. ASSUME NEW w \in Workers, ScriptStep(w) PROVE CallbacksBounded'
    <3>1. CASE ScriptStop(w)
      BY Zenon, <2>1, <3>1 DEF ScriptStop, callbackVars
    <3>2. ASSUME NEW b \in Bots, NEW r \in Requests, ActWithCallback(w, b, r)
          PROVE  CallbacksBounded'
      BY Zenon, <3>2, RegisterBound DEF ActWithCallback
    <3>3. ASSUME NEW b \in Bots, NEW r \in Requests,
                 ActPlain(w, b, r) \/ ActWithCallbackPanics(w, b, r)
          PROVE  CallbacksBounded'
      BY Zenon, <2>1, <3>3 DEF ActPlain, ActWithCallbackPanics, callbackVars
    <3> QED BY Zenon, <2>8, <3>1, <3>2, <3>3 DEF ScriptStep
  <2>9. ASSUME NEW w \in Workers, close(w) PROVE CallbacksBounded'
    BY Zenon, <2>1, <2>9 DEF close, callbackVars
  <2>10. CASE Shutdown
    BY Zenon, <2>1, <2>10 DEF Shutdown, callbackVars
  <2> QED BY Zenon, <2>3, <2>4, <2>5, <2>6, <2>7, <2>8, <2>9, <2>10 DEF Next
<1> QED BY <1>1, <1>2, Invariant, PTL DEF Spec
=============================================================================
