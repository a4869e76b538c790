# Minerider: TLA+ models, model checks and proofs

Minerider is a headless Minecraft client engine in Rust: a library that keeps any
number of bots connected to servers, and a Lua runtime that scripts them. This
directory holds TLA+ models of its concurrent and stateful parts, TLC
configurations that check them on small instances, and TLAPS proofs of theorems
about them for every value of their constants.

Paths below are relative to the repository; the engine's crate is its `src/`, so
that `PROJECT.json` names a file as `src/src/core/supervisor.rs`.

## The system

| Part | State | Operations | What is hard about it |
|---|---|---|---|
| Connection supervisor (`core/supervisor.rs`) | watch channels for status, generation and snapshot; a bounded command channel; attempt counter; cancellation token | connect, run a session, fail, back off, stop; `send_command` | callers read three channels one after the other while sessions end and begin; `stop` at any moment |
| Play session (`minecraft/play.rs`, `player.rs`, `control.rs`) | player, controller, trackers, world, inventory | one handler per packet, command and tick | a tick between any two packets; respawns and reconfiguration in the middle of everything; events that must tell what happened |
| Inventory (`minecraft/inventory.rs`) | windows, revisions, the drag, pending and completed transactions | click, window packets, tick | the server opens and closes windows while a click is on its way; ids are reused |
| Connection, login, configuration, SOCKS5 (`network/`, `core/client.rs`, `minecraft/login.rs`, `configuration.rs`, `resource_pack.rs`) | read buffer, cipher and compression state, stage | read, send, one dialogue per stage | timeouts and ticks that cut an operation short; a mode that changes between two frames of one read |
| World and shared chunks (`minecraft/world.rs`, `shared_world.rs`) | chunks per bot, a process-wide table of weak references | load, update, unload, intern | equal hashes, dead references, eviction, several bots |
| Scoreboard, HUD, tab list, entities, presentation (`minecraft/scoreboard.rs`, `hud.rs`, `players.rs`, `entity.rs`, `presentation.rs`) | bounded maps | one packet each | one fact kept in two places; limits; events |
| Worker queues (`lua/queue.rs`, `lua/dispatcher.rs`) | three lanes, the closed flag, the failed requests | push, drain, close | full lanes; a push that races `close` |
| Lua worker (`lua/worker.rs`, `lua/api/bot.rs`) | callback registry, disabled bots, error counts | the dispatch loop, timers, one-shot callbacks, action tasks | result, overflow, timeout and shutdown race for one callback |
| Shared state (`lua/api/shared.rs`) | versioned map | get, set, update | read-modify-write by optimistic retry |
| Swarm registry (`lua/registry.rs`, `lua/api/swarm.rs`) | servers, proxies, bots, groups, id counter | add_server, add_bot, add_group, connect_all | an add_group that fails half-way is taken back |
| Swarm start and stop (`lua/runtime.rs`, `lua/worker.rs`) | barrier, reports, registry channel, shutdown flag | run_swarm, connect_all, stop, shutdown | all-or-nothing start over threads, each of which can fail at any point |
| Physics arithmetic, byte codecs, authentication, tools | see `components` in `PROJECT.json` | | |

How they interact: a bot is a supervisor task that owns a play session and
publishes its snapshots and events. A bridge task per bot turns events into work
items for the worker that owns the bot. Scripts act on bots through
`SupervisorHandle::send_command`; an action with a callback becomes a task that
awaits the outcome and pushes it into the queue of the worker that asked.
`run_swarm` starts the workers, collects the configuration their scripts build,
and spawns the bots once every worker waits at the barrier.

## Modules

Each component module has the state as VARIABLES, one action per step, `Spec`
(`RegistrySpec` and `QueueSpec` in Registry and QueueContract, each of which shares a
module of proofs with another component) and, where liveness is claimed, `FairSpec`. A module that starts with `MC` only
names model values, definitions for constants and symmetries. A definition named
after another one followed by `_` and a few words (`retries_exhausted_OffByOne`)
is that definition with a plausible mistake; it is not part of any specification
and is there to show that a property notices the mistake.

- **Supervisor** - `ClientSupervisor::run`, `handle_failure`, `run_session` and
  `SupervisorHandle::send_command`/`stop`. `pc` is where `run` is; a step is what
  one thread does between two accesses of a channel another thread sees. A biased
  `select!` is polled branch by branch (`passed`), so that a command or a
  cancellation that arrives behind the poll waits for the next one. `ConnectOk`
  publishes the generation and `PublishConnected` the status, in that order, as
  the code does. A caller makes its reads one at a time (`ReadExpected`,
  `CheckStatus`, `ReadGeneration`, `Submit`) and may give up (`Abandon`). `ran`,
  `late` and `tries` are history.
- **SupervisorContract** - what the users of a `SupervisorHandle` may rely on,
  without channels, polls and retries: sessions follow one another, a command is
  aimed at one, runs in that one or not at all, and its answer says which.
  `Supervisor` maps its state to it (`Phase`, `Aimed`, `Contract`): a session is
  live while the status says Connected, and a command waits from its acceptance
  to its reply.
- **SharedState** - `SharedStore`; a step is one critical section of its mutex,
  and the Lua function of `update` runs outside it. A value that cannot be shared
  fails `set` before it looks at the store. A value is the set of writes
  it incorporates, so that a lost write is visible in the value itself.
- **PriorityQueue** - the queue's `push` and `drain_ready` as operators on a
  record of lanes. **QueueContract** drives it with histories and states what it
  promises; its `Items` are kinds of work item, whose lane (`priority`) and name
  (`name`) are those of `lua/event.rs`. **LuaWorker** uses the queue for its workers.
- **LuaWorker** - `WorkerQueue` (three steps per push, since the closed flag is
  read without the lock), `run_worker`'s loop, `CallbackRegistry`, the action
  tasks with their permits, error counting, and shutdown from a script or the
  host. Script code is any terminating sequence of the calls that matter. The
  callbacks of a worker are a set of request ids, which are given out in order, so
  that the oldest one has the smallest.
- **Inventory** - the client side of container clicks: window packets, `prepare_click`,
  `finish_transaction`, the timeout tick, reconfiguration, and the callers
  of `inventory_click`, which watch snapshots. The play loop publishes after each
  handler and polls nothing inside one, so a handler is one step.
- **Registry** - `SwarmRegistryBuilder` under the script's calls, one step per bot
  of an `add_group`, so that every point of failure and its rollback is a state.
- **SwarmRuntime** - `run_swarm` with its deadline, the startup barrier, worker
  threads, `abort_startup`, and `RunningSwarm::shutdown` stage by stage. A worker
  whose script fails reports that first and ends later (`FailedThreadEnds`), so the
  host may act on the report while the thread is still there.
- **Connect** - `Client::connect` and the packet stream under `Client::run`: TCP or
  the SOCKS5 dialogue, handshake, login, configuration, reconfiguration, resource
  packs. `task` is what the one task of the client awaits and what its handler
  still has to write; `conn` is the `Connection`. A frame carries the mode it was
  written in. Bytes are decrypted when they are read from the socket and
  decompressed when a frame is decoded, and one read brings any number of frames
  and perhaps a part of the next (`ReadChunk`), so a frame that is read in one mode
  and decoded in another is a state of the model. The server and the proxy are
  external: they follow the protocol, and may kick the client or go away. The proxy
  answers CONNECT with any `Socks5Reply`, and credentials or a target that do not
  fit are refused before a byte is written, each with its own retry class.
- **Player** - `LocalPlayer` and `Controller` as records, one operator per method.
  Positions are whole numbers on one axis; a threshold of one of them stands for
  the distance below which no packet is sent. `set_input` takes any `f32` for
  `forward` and `strafe` (`minecraft/control.rs:481`, `lua/api/bot.rs:469`); the model
  has -1, 0 and 1, since `Controller` and the input packet compare both with zero
  only, and `KeysMatchInput` is about their signs. Their size matters to the speed
  alone, which is floating-point physics. A NaN, which no check refuses and no
  comparison sees, is left out.
- **Scoreboard**, **Trackers** - the handlers of the bounded maps, as operators from
  a record to a record and the event that is emitted. An objective or team packet
  with an unknown action, an effect with a negative id and a boss-bar update
  without its field change nothing and are told as not applied.
- **SharedWorld** - the worlds of several bots and one shard of the store that
  interns their chunks. A payload is an allocation; `heap` says what is in it, and
  it is free once no world holds it, whatever weak references remain.
- **Session** - the composition: `Connect` with the play loop's state and with
  `SharedWorld`. `heard` is what the server knows of the player, `mirror` what a
  subscriber of the events can tell.
- **SupervisorProofs**, **LuaWorkerProofs**, **InventoryProofs** - the theorems about
  the component each is named after.
- **SharedStructuresProofs** - those about SharedState and QueueContract, the two
  structures that threads share under a mutex.
- **SwarmProofs** - those about Registry and SwarmRuntime, a swarm's configuration and
  its life.
- **LinkReadProofs**, **LinkProofs** - those about the link of Session between client
  and server: the steps that read, then the steps that write and the theorems.
- **SessionProofs** - those about the rest of Session: Player, Scoreboard, Trackers and
  SharedWorld.

Three modules choose once, in the initial state, which of several families of
inputs a behaviour meets (`scene` in LuaWorker and Inventory, `traffic` in
Session). A run then explores the union of the families and not their product.
It is sound for what the properties say where the handlers of two families touch
disjoint parts of the state, which is how `Session` divides them: the packets of
the wire with every fault, the player with its world, the controller's keys, the
scoreboard's objectives, its teams (no handler of one reads the other), each
tracker, the shared chunks, and a silent server. The server
reconfigures the client in every family but the player's, the keys' and the
chunks'; what a reconfiguration does to those is to replace the state by the
initial one, and the proofs cover it in all of them.

The modules meet at interfaces that each states as an assumption and another
shows: `SwarmRuntime` takes a registry without dangling references
(`Registry!NothingDangles`), supervisors that end once asked to
(`Supervisor!StopTakesEffect`), and worker loops that leave once the flag is up
(`LuaWorker!ShutdownCompletes`); `Inventory` takes from `Supervisor` that a click
runs at most once and in the session it was made for. A connect attempt and a
session, which `Supervisor` takes as calls that end with a class of error, are
what `Connect` and `Session` model in detail.

## Runs

| Run | Instance | What it shows |
|---|---|---|
| `supervisor` | one click, one other command, channel of 1, 2 retries, 3 sessions | the supervisor implements its contract; accepted commands are answered once, and always; the retry budget; `stop` ends `run` |
| `shared_state` | 2 workers, 3 keys (one too long, one only updated), room for 1, 2 attempts, 4 writes | a swap fails only because of another's write; no update loses a write, except as in `shared_state_atomic` |
| `shared_state_atomic` | 2 workers, 1 key | **violated**: see Findings |
| `queue_contract` | 2 bots, lanes of 2 and 1, 5 pushes of 5 kinds of item (one critical, three states under two names, one low) | accepted critical items are all delivered, in order; of the state events of one name the latest wins |
| `lua_worker` | 1 worker with 2 requests, or with a request and an event, callbacks chained; 2 workers with 1 request; every limit 1 | a callback fires at most once and is told the truth; the worker that asked gets the outcome or the news of its loss; every callback is resolved; shutdown ends every worker, and a worker whose callbacks ask for none leaves none |
| `lua_worker_chained` | 2 workers, 3 requests, chained callbacks | **violated**: see Findings |
| `inventory` | 2 clicks: of a drag, or one id submitted again, each with 1 window, or with 2 windows or a window and a reconfiguration; id cycle 2, timeout of 2 ticks | a click lands in the window its caller saw; no transaction outlives its window; each ends once, and in a session that lasts always; callers hear of their own |
| `registry` | 3 names, 2 groups, 3 ids, at most 2 bots and 1 group | index and bots are inverse; nothing dangles; a failed call changes nothing |
| `swarm` | 3 workers, at most 1 bot, every deadline able to elapse | all-or-nothing start, the right worker blamed, `run_swarm` and `shutdown` return, every thread ends |
| `swarm_shutdown_bridges` | 2 workers, 1 bot, no deadline | **violated**: see Findings |
| `session` | 5 configurations, 3 login packets, 2 configuration packets, 2 frames in flight, 2 play packets, 1 fault; 3 positions in 2 chunks; limits of 1 or 2 everywhere; 2 bots in 2 worlds with 3 contents of which 2 hash alike | peers can read and expect what is sent; frames are decoded as they were written; nothing follows a cut frame; an end is noticed; the server knows the player; loading belongs to its world; keys and input agree; the scoreboard is consistent; events tell the state; a bot has its own server's chunks |
| `silent_server` | a connected client, a read timeout of 2 ticks | **violated**: see Findings |

Every property of a passing run has a mutant in `PROJECT.json` that breaks it
under the same configuration.

### Why the bounds are enough

The limits are set to 1 or 2 so that a full channel, lane, permit set, registry
or store is met within the bounded number of operations, which is always at
least one more than the limit. `MaxGeneration = 3` lets a click be read in one
session, stamped in another and dequeued in a third. The retry limit of 2 has a
first, a middle and a last retry. `MaxId = 2` with three names reaches the last
id. Two windows with an id cycle of 2 let a window be replaced while a click is
on its way; a drag and a repeated id need one, which opens and closes around
them; the exception that `ClickHitsTheWindowSeen` grants (the server comes
round to the same id) is the id wrap of the protocol. Three workers give a
coordinator, one that fails and one that waits.

In `session` two frames in flight are what a switch of modes needs: the frame that
switches and one behind it, read together, apart, or cut in the middle. Three
login packets hold encryption, compression and success; one more is the limit's
error. One fault is enough because every fault ends the connection; the write
timeout is met by a later `Client::run`. Two chunks and three positions give a
place without terrain, a step within a chunk, and one between chunks, and an
epsilon of 1 one step that is not reported and a second that is. Every register
has room for one entry less than there are keys. Two bots with one position,
three contents of which two collide, two keys in the store and one payload to a
bucket reach sharing, a collision, an uncached payload, eviction, and the reuse of
a freed allocation.

`CHECK_DEADLOCK FALSE` stands where the system may stop: a supervisor that has
returned, a swarm that has stopped, and inputs bounded in number (pushes,
requests, clicks), and a client that has returned.

### Fairness

- Supervisor: the runtime keeps polling the task, a connect attempt ends because
  it has a deadline, a backoff sleep elapses. Nothing is assumed of servers,
  sessions or callers. The session's `select!` is biased and its play future comes
  before the commands, but a future that stays ready would end the session; it is
  pending at every poll that passes it.
- LuaWorker: threads and tasks that can move do; script code ends, because the
  sandbox counts instructions; a callback that stays pending becomes older than
  its timeout (strong fairness for each worker's sweep, which runs between other
  work).
- Inventory: weak fairness of commands and ticks. The play loop's `select!` is
  biased towards the socket, so this assumes that packets are not ready without
  a gap for ever.
- Session: a task that can read, decode or write does; the connect deadline
  passes; a download ends, because it has a timeout. Nothing is assumed of the
  server, the proxy or the session server, nor of ticks and commands.
  This is assumed in the "wire" family alone: in no other does the server kick the
  client or go away.
- SwarmRuntime: threads and tasks run, deadlines elapse, a supervisor asked to
  stop stops, actions end. Nothing makes a script call anything.

Where what a property waits for, once asked for, stays asked for until it is met,
"P leads to Q" is stated as two parts: no step takes P back before Q, and it is
always so that at some later time P is not waiting (`[]<>(P => Q)`). Together they
imply `P ~> Q`, and TLC checks them much faster. `StopTakesEffect`,
`EveryCallAnswered`, `ShutdownCompletes`, `EveryClickEnds` and `EndIsNoticed` have
this form; `CallbackResolved` needs the second part only, because "pending leads to
no longer pending" is that part.

## What is proved

TLAPS checks the following for every value of the constants that satisfies the
modules' assumptions: any number of callers, workers, keys and names, any
capacity and limit. `theorems` in `PROJECT.json` lists the results. Every safety
property of every passing run is among them.

**Supervisor** (`SupervisorProofs`). The inductive invariant `IInv` is the type
invariant and five parts, each preserved by every action on its own types:

- `ControlInv`: where `run` is determines the status, the snapshot shown and the
  class of the last failure. It gives `NoStaleSnapshot`, and the action properties
  `StoppedIsFinal` (after Stopped no session opens and no command runs) and
  `ReconnectsOnlyWhenAllowed`.
- `LateInv`: after a late command the poll starts again, and the next one sees the
  token first. Without the position of the poll `StopIsPrompt` is not inductive.
- `BudgetInv`: the attempt counter and the connects made since the last stable
  session keep step, one apart once a connect has begun. It gives `RetryBudget`.
- `EventInv`: the last event broadcast is one that fits where `run` is. It gives
  `EventsInOrder`.
- `ChannelInv` and `AnswerInv`: an accepted command is in the channel exactly at
  one place until it is answered, and its stamp, its answer and the session that
  ran it agree. They give `RunsInStampedSession`, `AnswerTellsWhatHappened` and
  `AcceptedAnsweredOnce`. The two lemmas on the channel (`PopLemma`, `PushLemma`)
  carry the argument that a pop or push changes the place of no other command.

**The supervisor implements its contract** (`SupervisorProofs`). Every step maps
to a step of `SupervisorContract` or to none, from `IInv`: `LoadLemma` says that as
many commands wait for an answer as the channel holds (they are in bijection with
its places), which makes every QueueFull true; `ControlInv` gives the phase for
every other refusal, `ChannelInv` that the command taken out is one that waits.

**Shared state** (`SharedStructuresProofs`). `IInv` adds to the types what an update
knows between its read and its swap (`Reads`): its key's version is at least the
one it read, and as long as it is that one the value is the one read; and that a
key only ever updated is never at version 0 (`UpdatedOnly`). It gives
`UpdatesAreAtomic` (no write is lost to an update of a key that was present at its
read, or that is never written with `set`), `FailuresAreOthersWrites` (as many
writes of others as failed swaps, so a lone updater always succeeds),
`StoreIsBounded` and `VersionsOnlyGrow`.

**Registry** (`SwarmProofs`). `AllOrNothing` is not inductive: `RegistryInv` says that
at every point of an `add_group` taking back the bots added so far gives what was
there before (`BatchCanBeTakenBack`). That in turn needs `IndexMatches`, since
the rollback removes names by the bots' usernames, and that no group refers to a
bot of the batch. `LimitsAlwaysKept` says that MAX_BOTS, MAX_GROUPS and
MAX_BOTS_PER_GROUP hold of the builder at every point. `add_group` checks the size of
its batch once, before its loop: `BatchInv` carries that check through the loop, as
the bots added and the names left together.

**Worker queue** (`SharedStructuresProofs`). None of the three promises is inductive.
`QueueInv` says where every envelope that was pushed can be, lane by lane (`LaneInv`),
that what waits in a lane is newer than what it has delivered (`OrderInv`), and that
nothing critical that was accepted and no latest state is missing (`CompleteInv`).
`drain_ready` joins three lanes; that each of them leaves whole and in its order is
what carries `OrderInv` into the next batch. It gives `CriticalNeverLost`,
`LatestStateWins` and `DeliveredInOrder`, a high lane without room included.
`LossesAlwaysCounted` is about what may be lost: the two bounded lanes keep their
capacity, the counter behind `dropped()` is the number of low envelopes that neither
wait nor were delivered, and each of those is older than all that wait. It takes
from `QueueInv` that an envelope is in one place, so that the one evicted was not
counted before, and that the low lane is in the order of the pushes.

**Lua worker** (`LuaWorkerProofs`). `IInv` follows a result from the task that ends an
action to the callback that waits for it:

- `ItemInv`, `EntryInv`: an item names only a request that is over, in the lane that
  loses nothing unsaid, and a record of a failure tells what happened. They give
  `OutcomeIsTrue`.
- `PendingInv`: a callback waits only at the worker that asked, and has not been
  called. It gives `CallbackFiresOnce`: whoever resolves one takes it out first.
- `WayInv`: if the action is over, its result is still to be pushed to that worker,
  or in its queue, its failed list, or the batch or list it is working on. It gives
  `NoResultIsLost`; the step that needs care is the push that found the queue closed
  or full, between its unlock and the record of its failure.
- `CleanInv`: the list of `shutdown_cleanup` has every callback that waits. It gives
  `CleanExit`, with the exception of Findings, 2.

`CallbacksStayBounded` adds that no registry of callbacks outgrows the limit of
`register_callback`: at the limit there is an oldest callback (`OldestIn`), and it is
one of the registry, so that evicting it makes room for exactly the new one.

**Inventory** (`InventoryProofs`). A request is not changed once it is known
(`CallInv`), a click submitted once is in one place (`OnceInv`), an outcome is
recorded only with a verdict (`VerdictInv`), and the window that is open has the id
its number gives it (`WindowInv`). The last is what `ClickHitsTheWindowSeen` needs:
two windows with one id are a multiple of the cycle apart. `RoundStep` and
`FinishFacts` are the lemmas on the loop that ends several transactions at once.
`TransactionsStayBounded` says that MAX_PENDING_TRANSACTIONS and
MAX_COMPLETED_TRANSACTIONS hold of a session's state: each round of that loop drops
the oldest outcome before it keeps one too many (`KeepBound`), and leaves no more
transactions waiting than it was given.

**Swarm start and stop** (`SwarmProofs`). `PhaseInv` says which outcome of the
barrier, which bots and which error each phase of the host allows; `EvidenceInv` what
the channels prove to it: a report of a failure is of a thread that has ended or is
about to, one of the barrier, as long as that has no outcome, of a worker that stands at it, and the
coordinator's of a registry that was sent. They give `FailedStartLeavesNothing`,
`BotsWaitForWorkers` and the action property `BlamesTheCulprit`.

**Session** (`SessionProofs` and, for `WireInv` and `LinkInv`, `LinkReadProofs` and
`LinkProofs`). The inductive invariant has five parts. `WireInv`, `PlayInv` and
`WorldInv` stand by themselves, `SeenInv` takes the type of the player from `PlayInv`,
and `LinkInv` takes from `WireInv` that a cut frame fails the connection.

- `WireInv`: a frame of which a part was written has poisoned the connection. It
  gives `NothingFollowsAPart`, across later calls of `run` too.
- `PlayInv`: before `player_loaded` the server knows the position it gave us
  (`KnownBefore`), after it what `movement_packet` last reported (`KnownSince`), and
  the keys and the input agree. `ServerKnowsUs` alone is not inductive: that
  loading starts from a known position is what `KnownBefore` carries through
  deaths, respawns and ticks without terrain. It also gives `LoadedInThisWorld` and
  `KeysMatchInput`; `CommandsKeepTheKeys` and `BaselineIsReported` are the results on
  the controller's commands and on `movement_packet` alone.
- `WorldInv`: types and `ChunkIsMine`. `intern` returns a payload with the content
  asked for, shared or new, and a new one is taken from those no world holds
  (`InternServes`), so that nothing changes under another bot. `WorldStepKeeps` is
  the result for the store alone.
- `SeenInv`: the board is `Sound` (what is shown or scored has its objective,
  `member_teams` and the teams' members agree) and `Bounded` (every register is finite
  and within its limit), and what a subscriber was told adds up to what the trackers
  hold. It gives `ScoreboardConsistent`, for lists of members of any length, and
  `SubscriberSeesTheState`. Before the login of a new PlayState the subscriber is told
  nothing, so until then the trackers have to be empty (`Fresh`).
- `LinkInv`: the two ends of the link agree, however much is between them. The
  frames the client has not decoded yet, those of its buffer and then those of the
  socket, are one `Stream`. `ModeInv`: each was compressed if and only if the client
  will decompress when its turn comes, which is now or after a `compress` before it;
  the cipher is the same at both ends, since the server is silent while it waits for
  an encryption response. `SyncInv`: what the server is owed is what is due from the
  handler at work and then, frame by frame, what each frame of the stream obliges the
  client to answer (`Counts`), and a frame after which the server waits is the last
  one. `Shape` says what each stage may be awaiting or writing. It gives
  `PeerExpectsIt` and `ReadAsWritten`, for any number of frames in flight.

The loops of the code (members of a team, transactions that end together) are
recursive functions in the models. The provers cannot do induction, so the lemmas
about a loop take the least round at which what they say fails, from the theorem that
a nonempty set of naturals has a least element (`LeastNat`), and refute it.

What is assumed of the constants is in the named ASSUMEs of the component modules:
limits are natural numbers, positive where the code's constant has to be, every bot
has an owner, and absent values are not among the present ones. TLC evaluates them
in the runs.

Type invariants of Supervisor, SharedState and Registry, `StoreIsBounded`,
`VersionsOnlyGrow` and the supervisor's properties that its contract implies
(`RunsInStampedSession`, `AnswerTellsWhatHappened`, `NoStaleSnapshot`,
`StopIsPrompt`, `StoppedIsFinal`) as well as `ReconnectsOnlyWhenAllowed` and
`EventsInOrder` are proved and not repeated in a run. Neither are the four results on
limits, `LossesAreCounted`, `LimitsAreKept`, `TransactionsBounded` and
`CallbacksBounded`, which stand beside their proofs.

Model-checked only: liveness (`StopTakesEffect`, `EveryCallAnswered`,
`CallbackResolved`, `ShutdownCompletes`, `EveryClickEnds`, `StartupReturns`,
`ShutdownReturns`, `WorkersEnd`, `EndIsNoticed`), since the proof system has neither
fairness nor ENABLED in its reach.

## Findings

Four runs are expected to end in a violation: the code does something other than
a comment or document of the repository says.

1. `shared_state_atomic`: `read_for_update` reports an absent key as version 0,
   and `set` stores a new key at version 0. An update that found the key absent
   therefore succeeds after another worker's `set` has created it, and overwrites
   that value unseen; `docs/lua_api_reference.md:166` calls update an "Atomic
   read-modify-write". `UpdatesAreAtomic` is the exact part of that promise which
   holds, and is proved.
2. `lua_worker_chained`: a one-shot callback runs while the callback registry is
   mutably borrowed (the `if let` at `src/lua/worker.rs:571` keeps the guard). A
   callback that asks for another action with a callback borrows it again and
   panics, and the worker thread ends with callbacks pending; the comment at
   `src/lua/worker.rs:434` says that nothing is left dangling.
3. `swarm_shutdown_bridges`: `RunningSwarm::shutdown` joins the event bridges
   while it still holds the handles whose senders keep the bridges' channels
   open. With one bot or more it always lasts its whole timeout and skips the
   waits that follow; the comment at `src/lua/runtime.rs:568` promises them.
4. `silent_server`: the `select!` of `run_play` (`minecraft/play.rs:369`) creates
   `read_packet()` anew in every round, and its timeout with it; the 50 ms ticker
   wins long before 30 s are over, so in play the read timeout never elapses. A
   server that falls silent without closing the socket keeps the session for ever;
   `docs/architecture.md:175` says "never a hang (bounded by per-read timeouts)" and
   `tests/stream.rs:366` "must time out (not hang) when the peer stays silent".

Smaller disagreements between code and comments met while modelling. The models
do what the code does; the properties are stated so as to hold of it.

- `core/supervisor.rs:415`: status and generation are read separately, so a
  command that is not a click can be stamped with, and run in, the session that
  replaced the one whose status was read; the comment at lines 400-403
  says it fails "instead of running against whatever session (if any) replaces
  it".
- `core/supervisor.rs:949`: a stop leaves the last snapshot in place; line 365
  says a handle shows the default snapshot "if no session is currently connected".
- `lua/dispatcher.rs:106`: a push that passed the closed check before `close`
  enters the queue after it; line 83 says nothing is "silently accepted into a
  queue nothing will ever drain again".
- `lua/worker.rs:648`: an action result still runs the handlers of a disabled
  bot; `lua/api/timers.rs:165` says all of its script execution stops.
- `minecraft/inventory.rs:865`: the register of outcomes evicts the smallest id,
  which can be the outcome just stored; line 415 says outcomes are retained "so
  lagged event consumers can recover".
- `minecraft/inventory.rs:889`: rejecting a transaction id that is submitted again
  overwrites the outcome of the first.
- `lua/registry.rs:304`: an explicit id that was removed by a rollback can be used
  again; the comment at line 333 says it is "simply never reused".
- `lua/api/swarm.rs:269`: `stop` before `connect_all` does not keep the bots from
  being started; `docs/lua_wrapper.md:515` describes stop without that exception.

- `minecraft/play.rs:915`: "request respawn immediately, once". A tick between the
  respawn packet and the health packet that follows it finds the player dead and
  no request pending, and asks again.
- `minecraft/player.rs:280`: the baseline "doesn't redundantly resend a position the
  server already knows"; `mark_loaded` takes it from the player, so a `Look` between
  a teleport and `player_loaded` is never sent. `ServerKnowsUs` excepts exactly that
  facing (`heard.turned`), until the next turn.
- `minecraft/players.rs`: a player first seen in an update without a name, and
  named later, is never announced as joined. The property says that announced
  players are listed with a name, not the converse.
- `minecraft/hud.rs`: the slot a script selects is not stored before the server
  repeats it; effects stay after a respawn.
- `minecraft/scoreboard.rs`: moving a member emits an event for the new team only,
  so the property leaves team events out. `EntityRemoved` is emitted for entities
  that were never there.
- `network/connection.rs:153`: a proxied connection "is otherwise identical" to a
  direct one; it ignores the caller's read and write timeouts.
- `core/error.rs:65`: a server that wants online mode without a premium session is
  called an AuthFailure; `minecraft/login.rs:194` returns a Protocol error, which is
  ProtocolIncompatible.
- `minecraft/resource_pack.rs:34`: "without turning a download failure into a broken
  Minecraft connection"; the download's timeout equals the connect deadline, and
  in play the download holds up the keep-alives for as long.
- `minecraft/play.rs:1140`: without a start the batch estimate "just carries its
  current value"; the zero elapsed time lowers it.
- `core/client.rs:355`: a second `run` after an error during reconfiguration plays on
  a connection that is still in the Configuration state. `RunAgain` is the call on
  a connection in play.
- `lua/api/timers.rs`: the timer of a disabled bot stays due.
- `lua/queue.rs:190`: a full high lane refuses the new item, as
  `docs/lua_wrapper.md:254` says; `docs/lua_runtime_benchmark.md:501` still calls it
  "bounded, drop-oldest only as a last resort". `CriticalNeverLost` is about the code.
- `lua/event.rs:202`: "only the latest value per `(bot, kind)` is delivered". The slot
  is per bot and *name*, and eleven kinds of HUD change have the name `hud`: a hotbar
  change takes the place of a change of vitals that still waits. The HUD's time and
  weather changes likewise share a slot with `BotEvent::Time` and `Weather`.
  `LatestStateWins` says what is promised, per name.

## What is assumed of the server

In play, `Session` takes from the protocol that one login packet comes first in each
`PlayState` and that no other does until a reconfiguration has built a new one
(`Login` requires `~play.own`, and every other packet of play that it was seen). The
code would handle a second one like the first (`minecraft/play.rs:1304`): it enters
the new world and leaves `received_position` as it is. `LoadedInThisWorld` rests on
that assumption: after a second login the client could say `player_loaded` on the
strength of a position it was given in the world before. A respawn, which also changes
the world, is not restricted.

`Client::run` is called again (`RunAgain`) on a connection in play only; the
disagreement at `core/client.rs:355` above says what the code does otherwise.

## What is not modelled

Floating-point physics (a tick moves the player by any amount up to one unit within
terrain that is there, which leaves open what gravity, input and collisions make of
it) and batch pacing, byte-level codecs, generated packets,
HTTP sign-in, text, benchmarks, offline tools and the panel: `components` in
`PROJECT.json` gives the reason for each. Item stacks, chat text, window contents
and the fields of the HUD that are only stored are data no modelled decision
depends on. Values that a check can accept or reject (a name's length, a
malformed click) are left open: both outcomes are explored.

The definitions stand for about a tenth of the repository's lines. More than half
of those lines have no behaviour to model: `collision_data.rs` is a table of
twenty thousand lines, the packets under `minerider-protocol/src/generated` are
seventeen thousand generated ones, and the code generator, the benchmarks, the
trace tools and the command-line programs are another ten thousand. Of the
engine's own stateful code (`core/`, `network/`, `lua/`, and `minecraft/` without the
table) the models cover most control; what remains there is conversion between
formats, parsing, rendering, and methods that forward to one that is modelled.

## Plan

1. Operators: `backoff_delay` with its saturating arithmetic, VarInt, the timer
   table, each against a reference definition.
2. A contract for the session's handlers that `Inventory` and `Session` both
   implement, so that clicks and the player share one play loop.
