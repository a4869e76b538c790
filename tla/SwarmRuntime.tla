----------------------------- MODULE SwarmRuntime -----------------------------
(***************************************************************************)
(* How a swarm starts, stops and fails to start: run_swarm and             *)
(* RunningSwarm::shutdown (src/src/lua/runtime.rs), the worker threads and *)
(* the startup barrier (src/src/lua/worker.rs), and the script calls       *)
(* connect_all, disconnect_all and stop (src/src/lua/api/swarm.rs).        *)
(*                                                                         *)
(* A script is any sequence of these calls that ends; its instruction      *)
(* budget sees to that.  What a worker's queue holds is the subject of     *)
(* LuaWorker, what a bot's supervisor does of Supervisor.  spawn_all_bots  *)
(* cannot refuse a registry without dangling references, and Registry      *)
(* shows that there is no other.  Deadlines names the timeouts short       *)
(* enough to elapse.  A definition named after another one, _ and a few    *)
(* words is that definition with a mistake in it.                          *)
(***************************************************************************)
EXTENDS Naturals, Sequences, FiniteSets

CONSTANTS
  Workers,
  Coordinator,  \* the worker with index 0
  Bots,         \* what the script may configure
  MaxCalls,     \* bound on a worker's calls of connect_all
  MaxActions,   \* MAX_CONCURRENT_ACTION_TASKS
  Deadlines     \* subset of {"startup", "cleanup", "shutdown"}

ASSUME CoordinatorAssumption == Coordinator \in Workers
ASSUME DeadlinesAssumption == Deadlines \subseteq {"startup", "cleanup", "shutdown"}

VARIABLES
  pc,          \* worker: where its thread is
  base,        \* worker: whether it runs its script or its dispatch loop
  calls,       \* worker: calls of connect_all
  registry,    \* the channel config_tx/config_rx
  reports,     \* the channel startup_report_tx/rx
  barrier,     \* StartupBarrier
  started,     \* workers that hold the payload
  shutdown,    \* the flag
  actions,     \* worker: action tasks in flight
  supervisors, \* bot: its supervisor
  phase,       \* of the host
  reached,     \* workers whose report has been collected
  waited,      \* workers whose semaphore shutdown has acquired
  error,       \* what run_swarm is about to return
  elapsed      \* history: deadlines that elapsed

workerVars == <<pc, base, calls, started, actions>>
hostVars == <<phase, reached, waited, error, elapsed>>
vars == <<workerVars, registry, reports, barrier, shutdown, supervisors, hostVars>>

NoError == [kind |-> "none", worker |-> Coordinator]
Failed(w) == [kind |-> "WorkerFailed", worker |-> w]
Other(kind) == [kind |-> kind, worker |-> Coordinator]

Collecting == phase = "collecting"
Stages == {"supervisors", "bridges", "actions", "workers"}
Configured == {b \in Bots : supervisors[b] # "none"}
AllDone == \A w \in Workers : pc[w] = "done"

Init ==
  /\ pc = [w \in Workers |-> "running"]
  /\ base = [w \in Workers |-> "script"]
  /\ calls = [w \in Workers |-> 0]
  /\ registry = "unsent"
  /\ reports = <<>>
  /\ barrier = "none"
  /\ started = {}
  /\ shutdown = FALSE
  /\ actions = [w \in Workers |-> 0]
  /\ supervisors = [b \in Bots |-> "none"]
  /\ phase = "collecting"
  /\ reached = {}
  /\ waited = {}
  /\ error = NoError
  /\ elapsed = {}

Goto(w, l) == pc' = [pc EXCEPT ![w] = l]

(* The receiver goes once the reports are collected. *)
Report(w, what) ==
  reports' = IF Collecting THEN Append(reports, <<w, what>>) ELSE reports

-----------------------------------------------------------------------------
(* The workers.                                                            *)

SendRegistry(w) ==
  registry' = IF w = Coordinator /\ registry = "unsent" THEN "sent" ELSE registry

(* The registry is handed over before the worker reports. *)
connect_all(w) ==
  /\ \/ /\ pc[w] = "running" /\ calls[w] < MaxCalls
        /\ calls' = [calls EXCEPT ![w] = @ + 1]
        /\ SendRegistry(w)
        /\ Goto(w, "reporting")
        /\ UNCHANGED reports
     \/ /\ pc[w] = "reporting"
        /\ Report(w, "ReachedBarrier")
        /\ Goto(w, "barrier")
        /\ UNCHANGED <<calls, registry>>
  /\ UNCHANGED <<base, started, actions, barrier, shutdown, supervisors, hostVars>>

(* StartupBarrier::wait returns.  The error of an aborted startup ends the *)
(* script unless it is caught there, or the handler that called.           *)
Released(w) ==
  /\ pc[w] = "barrier"
  /\ \/ /\ barrier = "started"
        /\ started' = started \cup {w}
        /\ Goto(w, "running")
     \/ /\ barrier = "aborted"
        /\ UNCHANGED started
        /\ Goto(w, "running") \/ (base[w] = "script" /\ Goto(w, "failing"))
  /\ UNCHANGED <<base, calls, actions, registry, reports, barrier, shutdown, supervisors,
                 hostVars>>

(* The script's top level returns, and the dispatch loop takes over. *)
ScriptReturns(w) ==
  /\ pc[w] = "running" /\ base[w] = "script"
  /\ base' = [base EXCEPT ![w] = "loop"]
  /\ UNCHANGED <<pc, calls, started, actions, registry, reports, barrier, shutdown,
                 supervisors, hostVars>>

(* The sandbox, the script or a panic ends the worker. *)
Fails(w) ==
  /\ pc[w] = "running"
  /\ Goto(w, "failing")
  /\ UNCHANGED <<base, calls, started, actions, registry, reports, barrier, shutdown,
                 supervisors, hostVars>>

(* The report goes out while the thread still has to end: the host may     *)
(* read it, abort and begin to join before it does.                        *)
ReportsFailure(w) ==
  /\ pc[w] = "failing"
  /\ Report(w, "Failed")
  /\ Goto(w, "reported")
  /\ UNCHANGED <<base, calls, started, actions, registry, barrier, shutdown, supervisors,
                 hostVars>>

FailedThreadEnds(w) ==
  /\ pc[w] = "reported"
  /\ Goto(w, "done")
  /\ UNCHANGED <<base, calls, started, actions, registry, reports, barrier, shutdown,
                 supervisors, hostVars>>

StopRequested ==
  [b \in Bots |-> IF supervisors[b] = "running" THEN "stopping" ELSE supervisors[b]]

disconnect_all(w) ==
  /\ pc[w] = "running" /\ w \in started
  /\ supervisors' = StopRequested
  /\ UNCHANGED <<workerVars, registry, reports, barrier, shutdown, hostVars>>

stop(w) ==
  /\ pc[w] = "running"
  /\ supervisors' = IF w \in started THEN StopRequested ELSE supervisors
  /\ shutdown' = TRUE
  /\ UNCHANGED <<workerVars, registry, reports, barrier, hostVars>>

(* An action on a bot runs as a task of its own. *)
SpawnAction(w) ==
  /\ pc[w] = "running" /\ w \in started /\ Configured # {}
  /\ actions[w] < MaxActions
  /\ actions' = [actions EXCEPT ![w] = @ + 1]
  /\ UNCHANGED <<pc, base, calls, started, registry, reports, barrier, shutdown,
                 supervisors, hostVars>>

ActionEnds(w) ==
  /\ actions[w] > 0
  /\ actions' = [actions EXCEPT ![w] = @ - 1]
  /\ UNCHANGED <<pc, base, calls, started, registry, reports, barrier, shutdown,
                 supervisors, hostVars>>

(* The dispatch loop finds its queue empty and the flag up. *)
LoopExits(w) ==
  /\ pc[w] = "running" /\ base[w] = "loop" /\ shutdown
  /\ Goto(w, "done")
  /\ UNCHANGED <<base, calls, started, actions, registry, reports, barrier, shutdown,
                 supervisors, hostVars>>

-----------------------------------------------------------------------------
(* The bots' supervisors: asked to stop, or at the end of their policy.    *)
SupervisorEnds(b) ==
  /\ supervisors[b] \in {"running", "stopping"}
  /\ supervisors' = [supervisors EXCEPT ![b] = "ended"]
  /\ UNCHANGED <<workerVars, registry, reports, barrier, shutdown, hostVars>>

-----------------------------------------------------------------------------
(* The host: run_swarm.                                                    *)

hostOnly == <<workerVars, registry, barrier, shutdown, supervisors, waited>>

Abort(e) == phase' = "aborting" /\ error' = e

CollectReport_AnyReport ==
  /\ Collecting /\ reports # <<>>
  /\ reports' = Tail(reports)
  /\ reached' = reached \cup {Head(reports)[1]}
  /\ phase' = IF reached' = Workers THEN "registry" ELSE phase
  /\ UNCHANGED <<hostOnly, error, elapsed>>

CollectReport ==
  LET r == Head(reports) IN
  /\ Collecting /\ reports # <<>>
  /\ reports' = Tail(reports)
  /\ \/ /\ r[2] = "ReachedBarrier"
        /\ reached' = reached \cup {r[1]}
        /\ phase' = IF reached' = Workers THEN "registry" ELSE phase
        /\ UNCHANGED error
     \/ r[2] = "Failed" /\ Abort(Failed(r[1])) /\ UNCHANGED reached
  /\ UNCHANGED <<hostOnly, elapsed>>

(* Every sender is gone, and with it the workers. *)
ReportsClosed ==
  /\ Collecting /\ reports = <<>> /\ AllDone
  /\ Abort(Other("Worker"))
  /\ UNCHANGED <<hostOnly, reports, reached, elapsed>>

CollectJoin_Anyone(w) ==
  /\ Collecting /\ (\E v \in Workers : pc[v] = "done")
  /\ Abort(Failed(w))
  /\ UNCHANGED <<hostOnly, reports, reached, elapsed>>

(* The other arm of the select: a worker that is gone has not stayed at    *)
(* the barrier.                                                            *)
CollectJoin(w) ==
  /\ Collecting /\ pc[w] = "done"
  /\ Abort(Failed(w))
  /\ UNCHANGED <<hostOnly, reports, reached, elapsed>>

StartupTimeout_FirstReportOnly ==
  /\ Collecting /\ reached = {} /\ "startup" \in Deadlines
  /\ Abort(Other("StartupTimeout"))
  /\ elapsed' = elapsed \cup {"startup"}
  /\ UNCHANGED <<hostOnly, reports, reached>>

StartupTimeout ==
  /\ Collecting /\ "startup" \in Deadlines
  /\ Abort(Other("StartupTimeout"))
  /\ elapsed' = elapsed \cup {"startup"}
  /\ UNCHANGED <<hostOnly, reports, reached>>

(* try_recv, and the supervisor and the bridge of every bot the script     *)
(* configured: some of them, or none.                                      *)
SpawnBots ==
  /\ phase = "registry"
  /\ IF registry = "sent"
     THEN /\ supervisors' \in [Bots -> {"none", "running"}]
          /\ phase' = "publishing"
          /\ UNCHANGED error
     ELSE Abort(Other("Script")) /\ UNCHANGED supervisors
  /\ UNCHANGED <<workerVars, registry, reports, barrier, shutdown, reached, waited,
                 elapsed>>

(* The first outcome of the barrier wins. *)
publish ==
  /\ phase = "publishing"
  /\ barrier' = IF barrier = "none" THEN "started" ELSE barrier
  /\ phase' = "running"
  /\ UNCHANGED <<workerVars, registry, reports, shutdown, supervisors, reached, waited,
                 error, elapsed>>

abort_startup_LeaveBarrier ==
  /\ phase = "aborting"
  /\ shutdown' = TRUE
  /\ phase' = "cleanup"
  /\ UNCHANGED <<workerVars, registry, reports, barrier, supervisors, reached, waited,
                 error, elapsed>>

abort_startup ==
  /\ phase = "aborting"
  /\ shutdown' = TRUE
  /\ barrier' = IF barrier = "none" THEN "aborted" ELSE barrier
  /\ phase' = "cleanup"
  /\ UNCHANGED <<workerVars, registry, reports, supervisors, reached, waited, error,
                 elapsed>>

Cleaned_Unjoined ==
  /\ phase = "cleanup"
  /\ phase' = "failed"
  /\ UNCHANGED <<hostOnly, reports, reached, error, elapsed>>

(* Every worker is joined, or the time for that is up. *)
Cleaned ==
  /\ phase = "cleanup"
  /\ \/ AllDone /\ UNCHANGED elapsed
     \/ /\ "cleanup" \in Deadlines /\ ~AllDone
        /\ elapsed' = elapsed \cup {"cleanup"}
  /\ phase' = "failed"
  /\ UNCHANGED <<hostOnly, reports, reached, error>>

-----------------------------------------------------------------------------
(* The host: RunningSwarm::shutdown.                                       *)

Shutdown ==
  /\ phase = "running"
  /\ shutdown' = TRUE
  /\ supervisors' = StopRequested
  /\ phase' = "supervisors"
  /\ UNCHANGED <<workerVars, registry, reports, barrier, reached, waited, error, elapsed>>

(* Every handle of a bot holds a sender of its events.  RunningSwarm keeps *)
(* one for every bot, and so do a started worker and an action in flight.  *)
HandleHeld == phase \in {"publishing", "running"} \cup Stages
              \/ \E w \in Workers : (w \in started /\ pc[w] # "done") \/ actions[w] > 0

(* A bridge ends when the last sender of its bot's events is gone. *)
BridgeDone(b) == supervisors[b] = "ended" /\ ~HandleHeld

Stage(from, to) == phase = from /\ phase' = to

JoinTasks ==
  /\ \/ Stage("supervisors", "bridges") /\ (\A b \in Configured : supervisors[b] = "ended")
     \/ Stage("bridges", "actions") /\ (\A b \in Configured : BridgeDone(b))
     \/ Stage("actions", "workers") /\ waited = Workers
     \/ Stage("workers", "stopped") /\ AllDone
  /\ UNCHANGED <<workerVars, registry, reports, barrier, shutdown, supervisors, reached,
                 waited, error, elapsed>>

(* acquire_many on one worker's semaphore, given back at once.  The code   *)
(* goes through the workers in order; any order is allowed here.           *)
WaitActions(w) ==
  /\ phase = "actions" /\ actions[w] = 0
  /\ waited' = waited \cup {w}
  /\ UNCHANGED <<workerVars, registry, reports, barrier, shutdown, supervisors, phase,
                 reached, error, elapsed>>

ShutdownTimeout_FirstStep ==
  /\ phase = "supervisors" /\ "shutdown" \in Deadlines
  /\ phase' = "stopped"
  /\ supervisors' = [b \in Bots |-> IF b \in Configured THEN "ended" ELSE "none"]
  /\ elapsed' = elapsed \cup {"shutdown"}
  /\ UNCHANGED <<workerVars, registry, reports, barrier, shutdown, reached, waited,
                 error>>

(* The tasks are dropped with RunningSwarm, and so end; threads do not. *)
ShutdownTimeout ==
  /\ phase \in Stages /\ "shutdown" \in Deadlines
  /\ phase' = "stopped"
  /\ supervisors' = [b \in Bots |-> IF b \in Configured THEN "ended" ELSE "none"]
  /\ elapsed' = elapsed \cup {"shutdown"}
  /\ UNCHANGED <<workerVars, registry, reports, barrier, shutdown, reached, waited,
                 error>>

Progress(w) ==
  \/ pc[w] = "reporting" /\ connect_all(w)
  \/ Released(w) \/ ReportsFailure(w) \/ FailedThreadEnds(w) \/ ScriptReturns(w)
  \/ LoopExits(w)

Host ==
  \/ CollectReport \/ ReportsClosed \/ (\E w \in Workers : CollectJoin(w))
  \/ SpawnBots \/ publish \/ abort_startup \/ Cleaned
  \/ JoinTasks \/ (\E w \in Workers : WaitActions(w))

Next ==
  \/ \E w \in Workers :
       \/ connect_all(w) \/ Released(w) \/ ScriptReturns(w) \/ Fails(w) \/ ReportsFailure(w)
       \/ FailedThreadEnds(w) \/ LoopExits(w)
       \/ disconnect_all(w) \/ stop(w) \/ SpawnAction(w) \/ ActionEnds(w)
  \/ \E b \in Bots : SupervisorEnds(b)
  \/ Host \/ StartupTimeout \/ Shutdown \/ ShutdownTimeout

Spec == Init /\ [][Next]_vars

(* Threads and tasks run, a supervisor asked to stop stops, actions end,   *)
(* and time passes.  Nothing makes a script call or the host shut down.    *)
FairSpec ==
  /\ Spec
  /\ \A w \in Workers : WF_vars(Progress(w)) /\ WF_vars(ActionEnds(w))
  /\ \A b \in Bots : WF_vars(supervisors[b] = "stopping" /\ SupervisorEnds(b))
  /\ WF_vars(Host) /\ WF_vars(StartupTimeout) /\ WF_vars(ShutdownTimeout)

-----------------------------------------------------------------------------
(* Properties.                                                             *)

(* Startup is all or nothing: a swarm that failed to start has no bot, no  *)
(* worker past the barrier and, unless the cleanup ran out of time, no     *)
(* worker at all.                                                          *)
FailedStartLeavesNothing ==
  error # NoError =>
    /\ \A b \in Bots : supervisors[b] = "none"
    /\ started = {} /\ barrier # "started"
    /\ phase = "failed" /\ "cleanup" \notin elapsed => AllDone

(* No bot is spawned before every worker stands at the barrier, so none    *)
(* misses an event for want of a handler, nor before the registry is       *)
(* there: the reports name the workers that wait, none of those can leave, *)
(* and the coordinator hands the registry over before it reports, so that  *)
(* the branch run_swarm calls an internal inconsistency is never taken.    *)
BotsWaitForWorkers ==
  phase \in {"registry", "publishing"} =>
    registry = "sent" /\ \A w \in Workers : pc[w] = "barrier"

(* A startup failure is blamed on a worker that really failed, its thread  *)
(* gone or on the way out after its report, never on one that waits at the *)
(* barrier or runs on.                                                     *)
BlamesTheCulprit ==
  [][error'.kind = "WorkerFailed" /\ error = NoError =>
       pc[error'.worker] \in {"reported", "done"}]_vars

(* run_swarm returns, whatever the scripts do. *)
StartupReturns == Collecting ~> phase \in {"running", "failed"}

(* Once the flag is up every worker thread ends. *)
WorkersEnd == shutdown ~> AllDone

(* shutdown returns. *)
ShutdownReturns == phase = "supervisors" ~> phase = "stopped"

(* shutdown gets to the end of its sequence by itself: the bridges, the    *)
(* supervisors, the actions and the workers finish once they are asked to. *)
ShutdownFinishes == phase = "supervisors" ~> phase = "stopped" /\ "shutdown" \notin elapsed
=============================================================================
