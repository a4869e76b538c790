------------------------------ MODULE LuaWorker ------------------------------
(***************************************************************************)
(* The running Lua swarm of src/src/lua: workers that each drain their own *)
(* WorkerQueue and run script code on their own thread, tasks that carry   *)
(* out the actions scripts ask for and push the results back, and bridges  *)
(* that push the bots' events.  One-shot callbacks wait in the registry of *)
(* the worker whose script asked; a result, an overflow, a timeout or the  *)
(* shutdown resolves them.                                                 *)
(*                                                                         *)
(* A step is what one thread does between two accesses of a queue, of its  *)
(* closed flag or of its list of failed requests; a worker also stops      *)
(* between two calls of script code.  A definition named after another     *)
(* one, _ and a few words is that definition with a mistake in it.         *)
(***************************************************************************)
EXTENDS PriorityQueue, FiniteSets

CONSTANTS
  Workers, Bots,
  Owner,           \* worker_index_for
  MaxRequests,     \* bound: actions asked for in one behaviour
  MaxPending,      \* MAX_PENDING_CALLBACKS
  MaxTasks,        \* MAX_CONCURRENT_ACTION_TASKS
  ErrorThreshold,  \* SandboxConfig::consecutive_error_threshold
  Scenes           \* bounds of which one is met: the workers alive (the
                   \* others have died of a panic before), how many actions
                   \* are asked for and bot events happen, and whether
                   \* scripts pass a callback from inside a callback

Requests == 1..MaxRequests
Producers == Requests \cup Bots

ASSUME OwnerAssumption == Owner \in [Bots -> Workers]
ASSUME LimitAssumption ==
  /\ MaxRequests \in Nat
  /\ MaxPending \in Nat \ {0} /\ MaxTasks \in Nat
  /\ ErrorThreshold \in Nat \ {0}
ASSUME SceneAssumption ==
  \A s \in Scenes : /\ s.alive \subseteq Workers
                    /\ s.requests \in 0..MaxRequests
                    /\ s.events \in Nat
                    /\ s.chained \in BOOLEAN

VARIABLES
  scene,     \* the member of Scenes
  queue,     \* WorkerQueue::state of each worker
  closed,    \* WorkerQueue::closed
  failed,    \* WorkerQueue::failed_requests
  push_,     \* the pushes each producer has yet to make and how far it is
  shutdown,  \* the swarm's shutdown flag
  closing,   \* RunningSwarm::shutdown has got to close_all
  pc,        \* where each worker's run_worker is
  batch,     \* what is left of the batch, or of the list, it is working on
  running,   \* the script code it is inside, or Idle
  pending,   \* the keys of CallbackRegistry::pending; the older, the smaller
  errors,    \* consecutive_errors
  disabled,  \* disabled_bots
  task,      \* the action task of each request
  events,    \* bot events so far
  fired,     \* history: what each request's callback was called with
  cause      \* history: why a request's result did not get through

queueVars == <<queue, closed, failed>>
hostVars == <<shutdown, closing>>
loopVars == <<pc, batch>>
botVars == <<errors, disabled>>
callbackVars == <<pending, fired>>
vars == <<scene, queueVars, push_, hostVars, loopVars, running, callbackVars, botVars,
          task, events, cause>>

Outcome == {"result", "worker_overloaded", "shutdown", "inventory_timeout"}

(* Script code a worker can be inside: a one-shot callback, a handler or a *)
(* timer callback of a bot, or a handler or timer of no bot in particular. *)
Idle == [kind |-> "idle"]
CallbackOf(r) == [kind |-> "callback", request |-> r]
HandlerOf(b) == [kind |-> "handler", bot |-> b]
TimerOf(b) == [kind |-> "timer", bot |-> b]

(* schedule_for_bot refuses a bot of another worker, so the timers a worker *)
(* holds for bots are those of its own.                                     *)
MayHoldTimer(w, b) == Owner[b] = w
Global == [kind |-> "global"]
Unwinding == [kind |-> "unwinding"]

(* The callback registry stays borrowed while a callback runs: the guard   *)
(* lives as long as the if let that took the callback out.                 *)
Borrowed(w) == running[w].kind = "callback"

Item(lane, b, name, r) == [lane |-> lane, bot |-> b, name |-> name, id |-> r]
Carries(e) == e.name \in {"action_result", "callback_completion"}

NoPush == [at |-> "idle", todo |-> <<>>]
NoTask == [at |-> "none"]

Init ==
  /\ scene \in Scenes
  /\ queue = [w \in Workers |-> EmptyQueue]
  /\ closed = [w \in Workers |-> FALSE]
  /\ failed = [w \in Workers |-> <<>>]
  /\ push_ = [p \in Producers |-> NoPush]
  /\ shutdown = FALSE
  /\ closing = FALSE
  /\ pc = [w \in Workers |-> IF w \in scene.alive THEN "head" ELSE "dead"]
  /\ batch = [w \in Workers |-> <<>>]
  /\ running = [w \in Workers |-> Idle]
  /\ pending = [w \in Workers |-> {}]
  /\ errors = [b \in Bots |-> 0]
  /\ disabled = {}
  /\ task = [r \in Requests |-> NoTask]
  /\ events = 0
  /\ fired = [r \in Requests |-> <<>>]
  /\ cause = [r \in Requests |-> {}]

-----------------------------------------------------------------------------
(* WorkerQueue::push, in three steps of a producer p; a producer may have  *)
(* several pushes to make.  The closed flag is read without the lock.      *)

Begin(p, todo) == push_' = [push_ EXCEPT ![p] = [at |-> "check", todo |-> todo]]

At(p, step) == push_[p].at = step
To(p) == Head(push_[p].todo).to
What(p) == Head(push_[p].todo).item

Proceed(p, step) == push_' = [push_ EXCEPT ![p].at = step]
Finish(p) ==
  push_' = [push_ EXCEPT ![p] =
              IF Len(@.todo) = 1 THEN NoPush
              ELSE [at |-> "check", todo |-> Tail(@.todo)]]

(* record_failure: only a result can have a callback waiting for it. *)
RecordFailure(p, error, why) ==
  LET e == What(p) IN
  IF Carries(e)
  THEN /\ failed' = [failed EXCEPT ![To(p)] = Append(@, <<e.id, error>>)]
       /\ cause' = [cause EXCEPT ![e.id] = @ \cup {why}]
  ELSE UNCHANGED <<failed, cause>>

CheckClosed(p) ==
  /\ At(p, "check")
  /\ \/ /\ ~ closed[To(p)]
        /\ Proceed(p, "push")
        /\ UNCHANGED <<failed, cause>>
     \/ /\ closed[To(p)]
        /\ RecordFailure(p, "shutdown", "closed")
        /\ Finish(p)
  /\ UNCHANGED <<queue, closed, hostVars, loopVars, running, callbackVars,
                 botVars, task, events>>

PushLocked(p) ==
  LET pushed == push(queue[To(p)], What(p)) IN
  /\ At(p, "push")
  /\ queue' = [queue EXCEPT ![To(p)] = pushed.queue]
  /\ IF pushed.outcome = "CriticalOverflow" THEN Proceed(p, "overflow") ELSE Finish(p)
  /\ UNCHANGED <<closed, failed, hostVars, loopVars, running, callbackVars,
                 botVars, task, events, cause>>

ReportOverflowAs(p, error) ==
  /\ At(p, "overflow")
  /\ RecordFailure(p, error, "overflow")
  /\ queue' = [queue EXCEPT ![To(p)] =
                 push(@, Item("Low", 0, "worker_overload", 0)).queue]
  /\ Finish(p)
  /\ UNCHANGED <<closed, hostVars, loopVars, running, callbackVars, botVars,
                 task, events>>

ReportOverflow_Shutdown(p) == ReportOverflowAs(p, "shutdown")

(* A refused critical item: the failure, and one diagnostic low item. *)
ReportOverflow(p) == ReportOverflowAs(p, "worker_overloaded")

-----------------------------------------------------------------------------
(* Producers: a bridge forwards a bot's event, a task ends its action.     *)
(* State that coalesces takes no part: no callback waits for it, and the   *)
(* module QueueContract is about its lane.                                 *)

dispatch_bot_event(b, lane) ==
  /\ events < scene.events
  /\ push_[b] = NoPush
  /\ events' = events + 1
  /\ Begin(b, << [to |-> Owner[b], item |-> Item(lane, b, "event", 0)] >>)
  /\ UNCHANGED <<queueVars, hostVars, loopVars, running, callbackVars, botVars,
                 task, cause>>

(* A result goes to the bot's owner and, if another worker asked, there.   *)
Deliveries_OwnerOnly(r, b, w) ==
  << [to |-> Owner[b], item |-> Item("High", b, "action_result", r)] >>

Deliveries(r, b, w) ==
  LET result == [to |-> Owner[b], item |-> Item("High", b, "action_result", r)]
      completion == [to |-> w, item |-> Item("High", b, "callback_completion", r)]
  IN  IF w = Owner[b] THEN <<result>> ELSE <<result, completion>>

CompleteAction(r) ==
  /\ task[r].at = "running"
  /\ task' = [task EXCEPT ![r].at = "done"]
  /\ Begin(r, Deliveries(r, task[r].bot, task[r].origin))
  /\ UNCHANGED <<queueVars, hostVars, loopVars, running, callbackVars, botVars,
                 events, cause>>

-----------------------------------------------------------------------------
(* Script code.  It runs to its end on the worker's thread; an action it   *)
(* asks for without a free permit is pushed by that thread itself.         *)

Pushing(w) ==
  \E r \in Requests :
    /\ task[r].at = "refused"
    /\ task[r].origin = w
    /\ push_[r] # NoPush

InScript(w) == running[w] \notin {Idle, Unwinding} /\ ~ Pushing(w)

Fresh(r) ==
  /\ r <= scene.requests
  /\ task[r] = NoTask /\ \A s \in Requests : s < r => task[s] # NoTask
Tasks(w) ==
  {r \in Requests : /\ task[r].at \in {"running", "done"}
                    /\ task[r].origin = w
                    /\ task[r].at = "done" => push_[r] # NoPush}

spawn_action(w, b, r) ==
  IF Cardinality(Tasks(w)) < MaxTasks
  THEN /\ task' = [task EXCEPT ![r] = [at |-> "running", bot |-> b, origin |-> w]]
       /\ UNCHANGED push_
  ELSE /\ task' = [task EXCEPT ![r] = [at |-> "refused", bot |-> b, origin |-> w]]
       /\ Begin(r, Deliveries(r, b, w))

(* The oldest one makes room: request ids are given out in order. *)
Oldest(ids) == CHOOSE r \in ids : \A s \in ids : r <= s

register_callback(w, r) ==
  IF Cardinality(pending[w]) >= MaxPending
  THEN LET old == Oldest(pending[w]) IN
       /\ pending' = [pending EXCEPT ![w] = (@ \ {old}) \cup {r}]
       /\ cause' = [cause EXCEPT ![old] = @ \cup {"evicted"}]
  ELSE /\ pending' = [pending EXCEPT ![w] = @ \cup {r}]
       /\ UNCHANGED cause

Act(w, b, r) ==
  /\ InScript(w)
  /\ Fresh(r)
  /\ spawn_action(w, b, r)
  /\ UNCHANGED <<queueVars, hostVars, pc, batch, running, fired, botVars, events>>

ActPlain(w, b, r) == Act(w, b, r) /\ UNCHANGED <<pending, cause>>

ActWithCallback(w, b, r) ==
  /\ ~ Borrowed(w)
  /\ Act(w, b, r)
  /\ register_callback(w, r)

(* Borrowing the registry a second time panics. *)
ActWithCallbackPanics(w, b, r) ==
  /\ scene.chained
  /\ Borrowed(w)
  /\ InScript(w)
  /\ Fresh(r)
  /\ spawn_action(w, b, r)
  /\ running' = [running EXCEPT ![w] = Unwinding]
  /\ UNCHANGED <<queueVars, hostVars, loopVars, callbackVars, botVars, events,
                 cause>>

(* The thread's catch_unwind: it ends without shutdown_cleanup. *)
CatchUnwind(w) ==
  /\ running[w] = Unwinding
  /\ ~ Pushing(w)
  /\ pc' = [pc EXCEPT ![w] = "dead"]
  /\ running' = [running EXCEPT ![w] = Idle]
  /\ UNCHANGED <<queueVars, push_, hostVars, batch, callbackVars, botVars, task,
                 events, cause>>

(* swarm:stop(); the bots it also stops are modelled by Supervisor. *)
ScriptStop(w) ==
  /\ InScript(w)
  /\ shutdown' = TRUE
  /\ UNCHANGED <<queueVars, push_, closing, loopVars, running, callbackVars,
                 botVars, task, events, cause>>

record_bot_handler_outcome(b, succeeded) ==
  IF succeeded
  THEN errors' = [errors EXCEPT ![b] = 0] /\ UNCHANGED disabled
  ELSE /\ errors' = [errors EXCEPT ![b] = @ + 1]
       /\ disabled' = IF errors'[b] >= ErrorThreshold THEN disabled \cup {b} ELSE disabled

Return(w, succeeded) ==
  /\ InScript(w)
  /\ IF running[w].kind \in {"handler", "timer"}
     THEN record_bot_handler_outcome(running[w].bot, succeeded)
     ELSE UNCHANGED botVars
  /\ running' = [running EXCEPT ![w] = Idle]
  /\ pc' = [pc EXCEPT ![w] = IF @ = "timer" THEN "head" ELSE @]
  /\ UNCHANGED <<queueVars, push_, hostVars, batch, callbackVars, task, events,
                 cause>>

-----------------------------------------------------------------------------
(* run_worker's loop.  Between two calls of script code running is Idle.   *)

Loop(w, at) == pc[w] = at /\ running[w] = Idle
Goto(w, at) == pc' = [pc EXCEPT ![w] = at]
Work(w, list) == batch' = [batch EXCEPT ![w] = list]
Run(w, code) == running' = [running EXCEPT ![w] = code]

LoopHead(w) ==
  /\ Loop(w, "head")
  /\ closed' = [closed EXCEPT ![w] = @ \/ shutdown]
  /\ Goto(w, "wait")
  /\ UNCHANGED <<queue, failed, push_, hostVars, batch, running, callbackVars,
                 botVars, task, events, cause>>

(* wait_for_batch returns with a batch, on close or, with nothing there,   *)
(* when the poll interval has passed.                                      *)
wait_for_batch(w) ==
  /\ Loop(w, "wait")
  /\ Work(w, Drained(queue[w]))
  /\ queue' = [queue EXCEPT ![w] = AfterDrain(@)]
  /\ Goto(w, "drained")
  /\ UNCHANGED <<closed, failed, push_, hostVars, running, callbackVars, botVars,
                 task, events, cause>>

(* The ids come out of the hash map in any order. *)
Orders(ids) == {list \in [1..Cardinality(ids) -> ids] : Range(list) = ids}

ToResolve(w, ids, error) ==
  \E list \in Orders(ids) : Work(w, [i \in 1..Len(list) |-> <<list[i], error>>])

CheckShutdownThen(w, flag, ids) ==
  /\ Loop(w, "drained")
  /\ IF batch[w] = <<>> /\ flag
     THEN Goto(w, "cleanup") /\ ToResolve(w, ids, "shutdown")
     ELSE Goto(w, "batch") /\ UNCHANGED batch
  /\ UNCHANGED <<queueVars, push_, hostVars, running, callbackVars, botVars,
                 task, events, cause>>

CheckShutdown_NoCleanup(w) == CheckShutdownThen(w, shutdown, {})

CheckShutdown_HostOnly(w) == CheckShutdownThen(w, closing, pending[w])

(* The loop ends on an empty batch once the flag is up; shutdown_cleanup   *)
(* then takes the ids of all pending callbacks.                            *)
CheckShutdown(w) == CheckShutdownThen(w, shutdown, pending[w])

Waits(w, r) == r \in pending[w]

Fire(w, r, outcome) ==
  /\ fired' = [fired EXCEPT ![r] = Append(@, outcome)]
  /\ pending' = [pending EXCEPT ![w] = @ \ {r}]
  /\ Run(w, CallbackOf(r))

(* resolve_callback: what the result carries. *)
Carried(r) == IF task[r].at = "refused" THEN "worker_overloaded" ELSE "result"

DispatchCallback(w) ==
  LET e == Head(batch[w]) IN
  /\ Loop(w, "batch")
  /\ batch[w] # <<>>
  /\ Carries(e)
  /\ Waits(w, e.id)
  /\ Fire(w, e.id, Carried(e.id))
  /\ UNCHANGED <<queueVars, push_, hostVars, loopVars, botVars, task, events, cause>>

(* The code an item runs besides its callback; a disabled bot's events run *)
(* none, its action results do.                                            *)
Handlers(e) ==
  CASE e.name = "event" -> IF e.bot \in disabled THEN {} ELSE {HandlerOf(e.bot)}
    [] e.name = "action_result" -> {HandlerOf(e.bot)}
    [] e.name = "callback_completion" -> {}
    [] e.name = "worker_overload" -> {Global}

(* dispatch_one after the callback: handlers, if the script registered any. *)
DispatchHandlers(w) ==
  LET e == Head(batch[w]) IN
  /\ Loop(w, "batch")
  /\ batch[w] # <<>>
  /\ Carries(e) => ~ Waits(w, e.id)
  /\ \E code \in Handlers(e) \cup {Idle} : Run(w, code)
  /\ Work(w, Tail(batch[w]))
  /\ UNCHANGED <<queueVars, push_, hostVars, pc, callbackVars, botVars, task,
                 events, cause>>

take_failed_requests(w) ==
  /\ Loop(w, "batch")
  /\ batch[w] = <<>>
  /\ Goto(w, "overflow")
  /\ Work(w, failed[w])
  /\ failed' = [failed EXCEPT ![w] = <<>>]
  /\ UNCHANGED <<queue, closed, push_, hostVars, running, callbackVars, botVars,
                 task, events, cause>>

ResolveIf(w, found) ==
  LET r == Head(batch[w])[1] IN
  /\ pc[w] \in {"overflow", "sweep", "cleanup"}
  /\ running[w] = Idle
  /\ batch[w] # <<>>
  /\ Work(w, Tail(batch[w]))
  /\ IF found THEN Fire(w, r, Head(batch[w])[2]) ELSE UNCHANGED <<callbackVars, running>>
  /\ UNCHANGED <<queueVars, push_, hostVars, pc, botVars, task, events, cause>>

Resolve_Unchecked(w) == ResolveIf(w, TRUE)

(* One callback of a list of failed, expired or shut-down requests.        *)
Resolve(w) == ResolveIf(w, Waits(w, Head(batch[w])[1]))

SweepIds(w, ids) ==
  /\ Loop(w, "overflow")
  /\ batch[w] = <<>>
  /\ Goto(w, "sweep")
  /\ ToResolve(w, ids, "inventory_timeout")
  /\ UNCHANGED <<queueVars, push_, hostVars, running, callbackVars, botVars,
                 task, events, cause>>

(* The callbacks that may be over the timeout: some of the oldest. *)
Expired(w) ==
  {ids \in SUBSET pending[w] : \A r \in ids, s \in pending[w] \ ids : r < s}

Sweep_AllButLast(w, ids) == SweepIds(w, {r \in ids : \E s \in ids : r < s})

(* sweep_callback_timeouts of the callbacks that are over it. *)
Sweep(w, ids) == SweepIds(w, ids)

(* fire_due: none, a timer of the swarm, or one of a bot of this worker    *)
(* that may run.                                                           *)
fire_due(w) ==
  /\ Loop(w, "sweep")
  /\ batch[w] = <<>>
  /\ \/ Goto(w, "head") /\ UNCHANGED running
     \/ Goto(w, "timer") /\ Run(w, Global)
     \/ \E b \in Bots \ disabled :
          MayHoldTimer(w, b) /\ Goto(w, "timer") /\ Run(w, TimerOf(b))
  /\ UNCHANGED <<queueVars, push_, hostVars, batch, callbackVars, botVars, task,
                 events, cause>>

LeaveWorker(w) ==
  /\ Loop(w, "cleanup")
  /\ batch[w] = <<>>
  /\ Goto(w, "done")
  /\ UNCHANGED <<queueVars, push_, hostVars, batch, running, callbackVars,
                 botVars, task, events, cause>>

-----------------------------------------------------------------------------
(* RunningSwarm::shutdown: the flag, then close_all, queue by queue.       *)
Shutdown ==
  /\ ~ closing
  /\ shutdown' = TRUE
  /\ closing' = TRUE
  /\ UNCHANGED <<queueVars, push_, loopVars, running, callbackVars, botVars,
                 task, events, cause>>

close(w) ==
  /\ closing
  /\ ~ closed[w]
  /\ closed' = [closed EXCEPT ![w] = TRUE]
  /\ UNCHANGED <<queue, failed, push_, hostVars, loopVars, running, callbackVars,
                 botVars, task, events, cause>>

PushStep(p) == CheckClosed(p) \/ PushLocked(p) \/ ReportOverflow(p)

LoopStep(w) ==
  \/ LoopHead(w) \/ wait_for_batch(w) \/ CheckShutdown(w)
  \/ DispatchCallback(w) \/ DispatchHandlers(w)
  \/ take_failed_requests(w) \/ Resolve(w)
  \/ \E ids \in Expired(w) : Sweep(w, ids)
  \/ fire_due(w) \/ LeaveWorker(w) \/ CatchUnwind(w)
  \/ \E succeeded \in BOOLEAN : Return(w, succeeded)

ScriptStep(w) ==
  \/ \E b \in Bots, r \in Requests :
       ActPlain(w, b, r) \/ ActWithCallback(w, b, r) \/ ActWithCallbackPanics(w, b, r)
  \/ ScriptStop(w)

Next ==
  /\ \/ \E p \in Producers : PushStep(p)
     \/ \E b \in Bots, lane \in {"High", "Low"} : dispatch_bot_event(b, lane)
     \/ \E r \in Requests : CompleteAction(r)
     \/ \E w \in Workers : LoopStep(w) \/ ScriptStep(w) \/ close(w)
     \/ Shutdown
  /\ UNCHANGED scene

Spec == Init /\ [][Next]_vars

(* Threads and tasks that can move do; script code ends (its instructions  *)
(* are counted); the oldest callback, if it stays pending, grows older     *)
(* than the timeout.  Nothing is assumed of the actions themselves.        *)
Fairness ==
  /\ \A p \in Producers : WF_vars(PushStep(p) /\ UNCHANGED scene)
  /\ \A w \in Workers :
       /\ WF_vars(LoopStep(w) /\ UNCHANGED scene)
       /\ WF_vars(close(w) /\ UNCHANGED scene)
       /\ SF_vars(/\ \E ids \in Expired(w) \ {{}} : Sweep(w, ids)
                  /\ UNCHANGED scene)

FairSpec == Spec /\ Fairness

-----------------------------------------------------------------------------
Ended(w) == pc[w] \in {"done", "dead"}
Lists == {"overflow", "sweep", "cleanup"}

(* A one-shot callback is called at most once, whichever of its result, an *)
(* overflow, the timeout sweep and the shutdown get to it, and in whatever *)
(* order they do.                                                          *)
CallbackFiresOnce == \A r \in Requests : Len(fired[r]) <= 1

(* What a callback is told happened: a result only of an action that       *)
(* ended, worker_overloaded only if no task was started or a queue was     *)
(* full, shutdown only once the swarm is shutting down.                    *)
OutcomeIsTrue ==
  \A r \in Requests : \A i \in DOMAIN fired[r] :
    CASE fired[r][i] = "result" -> task[r].at = "done"
      [] fired[r][i] = "worker_overloaded" ->
           task[r].at = "refused" \/ "overflow" \in cause[r]
      [] fired[r][i] = "shutdown" -> shutdown
      [] OTHER -> TRUE

Mentions(list, r) == \E i \in DOMAIN list : Carries(list[i]) /\ list[i].id = r
Listed(list, r) == \E i \in DOMAIN list : list[i][1] = r

(* Once an action's outcome has been handed to the dispatcher, a callback  *)
(* still waiting for it has that outcome, or the news that it was lost, on *)
(* its way: in the queue, in the batch or among the failed requests of the *)
(* worker that asked, even if another worker owns the bot.                 *)
NoResultIsLost ==
  \A w \in Workers : \A r \in pending[w] :
    (task[r].at \in {"done", "refused"} /\ push_[r] = NoPush /\ ~ Ended(w)) =>
      \/ Mentions(Drained(queue[w]), r)
      \/ Listed(failed[w], r)
      \/ IF pc[w] \in Lists THEN Listed(batch[w], r) ELSE Mentions(batch[w], r)

(* A worker whose thread has ended left no callback behind: what the       *)
(* comment before shutdown_cleanup in run_worker says.                     *)
NothingDangling == \A w \in Workers : Ended(w) => pending[w] = {}

(* A worker that leaves its loop has resolved every callback, and so has   *)
(* one that a callback of a callback did not take down with a panic        *)
(* (shutdown_cleanup).                                                     *)
CleanExit ==
  \A w \in Workers :
    Ended(w) /\ (pc[w] = "dead" => ~ scene.chained) => pending[w] = {}

(* Every callback stops waiting, whatever becomes of its action, unless    *)
(* its worker dies of a panic (resolve_callback, sweep_callback_timeouts). *)
CallbackResolved ==
  \A w \in Workers, r \in Requests :
    []<>(~ Waits(w, r) \/ pc[w] = "dead")

(* Once a script or the host asks for the shutdown every worker ends: the  *)
(* request is never taken back, and every worker comes to its end.         *)
ShutdownCompletes ==
  /\ [][shutdown => shutdown']_vars
  /\ \A w \in Workers : []<>(shutdown => Ended(w))
=============================================================================
