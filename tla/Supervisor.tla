----------------------------- MODULE Supervisor -----------------------------
(***************************************************************************)
(* The connection supervisor of src/src/core/supervisor.rs: one task that  *)
(* connects, runs a session, backs off and reconnects, and any number of   *)
(* concurrent SupervisorHandle::send_command calls that read the watch     *)
(* channels, enter the bounded command channel and wait for a one-shot     *)
(* answer.                                                                 *)
(*                                                                         *)
(* A step of this module is what one thread does between two accesses of   *)
(* state that another thread can see: a send on a watch channel, a read of *)
(* one, a push on or a pop from the command channel.                       *)
(*                                                                         *)
(* A definition whose name ends in _ and a few words is not part of the    *)
(* specification: it is the definition that follows it with a mistake one  *)
(* could make in the code, kept to show that the properties notice it.     *)
(***************************************************************************)
EXTENDS Naturals, Sequences, FiniteSets

CONSTANTS
  Calls,             \* invocations of send_command, each made once
  Clicks,            \* the ones that carry a BotCommand::InventoryClick
  Retry,             \* the error classes the policy retries; {} = disabled
  UnlimitedRetries,  \* RetryLimit::Unlimited
  MaxRetries,        \* RetryLimit::Count
  Capacity,          \* COMMAND_CHANNEL_CAPACITY
  MaxGeneration      \* bound: sessions that connect in one behaviour

RetryClass ==
  {"Transient", "ServerRejected", "AuthFailure", "ProtocolIncompatible"}

ASSUME CallsAssumption == Clicks \subseteq Calls
ASSUME PolicyAssumption ==
  /\ Retry \subseteq RetryClass
  /\ UnlimitedRetries \in BOOLEAN
  /\ MaxRetries \in Nat
ASSUME BoundAssumption == Capacity \in Nat \ {0} /\ MaxGeneration \in Nat

VARIABLES
  pc,          \* where ClientSupervisor::run is
  passed,      \* branches of the current select! poll found pending so far
  status,      \* status_tx
  generation,  \* generation_tx (and the supervisor's own copy of it)
  snapshot,    \* state_tx: the session a snapshot shows, 0 = the default one
  attempt,     \* retries made since the last stable session
  class,       \* RetryClass of the last failure
  cancelled,   \* the cancellation token
  queue,       \* the command channel
  event,       \* the last event broadcast
  call,        \* how far each send_command has got
  expected,    \* InventoryClickRequest::generation of a click
  stamp,       \* QueuedCommand::generation
  reply,       \* what send_command returns, "none" until it does
  ran,         \* history: the session a command was forwarded to, 0 = none
  late,        \* history: commands forwarded after the token was cancelled
  tries        \* history: connects begun since the last stable session

runVars  == <<pc, passed>>
watchVars == <<status, generation, snapshot>>
retryVars == <<attempt, class, tries>>
callVars == <<call, expected, stamp>>
vars == <<runVars, watchVars, retryVars, cancelled, queue, event, callVars,
          reply, ran, late>>

NoClass == "None"
NoReply == "none"

SupervisorStatus ==
  {"Disconnected", "Connecting", "Connected", "ReconnectScheduled", "Stopped"}

ControlError ==
  {"QueueFull", "NotConnected", "SessionReplaced", "SupervisorStopped"}

Replies == ControlError \cup {"Ok", NoReply}

CallStates ==
  {"new", "begun", "checked", "stamped", "waiting", "abandoned", "refused"}

LifecycleEvent ==
  {"None", "Connecting", "Connected", "Session", "Disconnected",
   "ReconnectScheduled", "RetryAttemptStarted", "StoppedByCancellation"}

\* The points of run() at which it awaits a select!.
Select == {"connecting", "session", "backoff"}

\* Branches of each select!: cancel, command, future; the session polls the
\* play future before the command, and two relays after it.
Branches(p) == IF p = "session" THEN 3 ELSE 2

TypeOK ==
  /\ pc \in Select \cup {"head", "clear", "opened", "lost", "replaced",
                         "failed", "stopping", "dropping", "gone"}
  /\ passed \in 0..3
  /\ status \in SupervisorStatus
  /\ generation \in Nat
  /\ snapshot \in Nat
  /\ attempt \in Nat
  /\ class \in RetryClass \cup {NoClass}
  /\ cancelled \in BOOLEAN
  /\ queue \in Seq(Calls)
  /\ event \in LifecycleEvent
  /\ call \in [Calls -> CallStates]
  /\ expected \in [Calls -> Nat]
  /\ stamp \in [Calls -> Nat]
  /\ reply \in [Calls -> Replies]
  /\ ran \in [Calls -> Nat]
  /\ late \in Nat
  /\ tries \in Nat

Init ==
  /\ pc = "head" /\ passed = 0
  /\ status = "Disconnected" /\ generation = 0 /\ snapshot = 0
  /\ attempt = 0 /\ class = NoClass /\ tries = 0
  /\ cancelled = FALSE
  /\ queue = <<>>
  /\ event = "None"
  /\ call = [k \in Calls |-> "new"]
  /\ expected = [k \in Calls |-> 0]
  /\ stamp = [k \in Calls |-> 0]
  /\ reply = [k \in Calls |-> NoReply]
  /\ ran = [k \in Calls |-> 0]
  /\ late = 0

-----------------------------------------------------------------------------
(* The reconnect policy.                                                   *)

decision_for(c) == IF c \in Retry THEN "Retry" ELSE "Stop"

retries_exhausted_OffByOne(n) == ~UnlimitedRetries /\ n > MaxRetries

retries_exhausted(n) == ~UnlimitedRetries /\ n >= MaxRetries

-----------------------------------------------------------------------------
(* The supervisor task.                                                    *)

Goto(p) == pc' = p /\ passed' = 0

\* Answer the oldest queued command with an error.
Reject(err) ==
  /\ queue # <<>>
  /\ queue' = Tail(queue)
  /\ reply' = [reply EXCEPT ![Head(queue)] = err]

\* reject_queued_commands: pop until the channel is found empty. Callers push
\* between two pops.
RejectQueued(here, err) ==
  /\ pc = here
  /\ Reject(err)
  /\ UNCHANGED <<runVars, watchVars, retryVars, cancelled, event, callVars,
                 ran, late>>

QueueFoundEmpty(here, there) ==
  /\ pc = here
  /\ queue = <<>>
  /\ Goto(there)
  /\ UNCHANGED <<queue, reply>>

StopGoingTo(p) ==
  /\ status' = "Stopped"
  /\ event' = "StoppedByCancellation"
  /\ Goto(p)
  /\ UNCHANGED <<generation, snapshot, retryVars, cancelled, queue, callVars,
                 reply, ran, late>>

StopCancelled_NoBreak == StopGoingTo("head")

StopCancelled == StopGoingTo("stopping")

\* The head of run()'s loop.
LoopHead ==
  /\ pc = "head"
  /\ \/ cancelled /\ StopCancelled
     \/ /\ ~cancelled
        /\ Goto("clear")
        /\ UNCHANGED <<watchVars, retryVars, cancelled, queue, event,
                       callVars, reply, ran, late>>

ClearQueue == RejectQueued("clear", "NotConnected")

BeginConnect ==
  /\ QueueFoundEmpty("clear", "connecting")
  /\ status' = "Connecting"
  /\ event' = "Connecting"
  /\ tries' = tries + 1
  /\ UNCHANGED <<generation, snapshot, attempt, class, cancelled, callVars,
                 ran, late>>

\* A biased select! polls its branches in order. "passed" counts the branches
\* this poll has already found pending, so that a command or a cancellation
\* that arrives behind the poll is only seen by the next one.
PassIf(notCancelled) ==
  /\ pc \in Select
  /\ passed < Branches(pc)
  /\ passed = 0 => notCancelled
  /\ (passed = 1 /\ pc # "session") \/ (passed = 2) => queue = <<>>
  /\ passed' = passed + 1
  /\ UNCHANGED <<pc, watchVars, retryVars, cancelled, queue, event, callVars,
                 reply, ran, late>>

PassBranch == PassIf(~cancelled)

WakeIf(woken) ==
  /\ pc \in Select
  /\ passed = Branches(pc)
  /\ woken
  /\ passed' = 0
  /\ UNCHANGED <<pc, watchVars, retryVars, cancelled, queue, event, callVars,
                 reply, ran, late>>

Wake_NotForCommands == WakeIf(cancelled)

\* Every branch was pending and a waker fired: the select! is polled again.
Wake == WakeIf(pc = "session" \/ cancelled \/ queue # <<>>)

CancelBranch ==
  /\ pc \in Select
  /\ passed = 0
  /\ cancelled
  /\ StopCancelled

\* The command branch of the connect and the backoff select!.
RejectOffline ==
  /\ pc \in {"connecting", "backoff"}
  /\ passed = 1
  /\ Reject("NotConnected")
  /\ passed' = 0
  /\ UNCHANGED <<pc, watchVars, retryVars, cancelled, event, callVars, ran,
                 late>>

\* Client::connect returned a client: the new generation is published before
\* the status.
ConnectOk ==
  /\ pc = "connecting"
  /\ passed = 2
  /\ generation < MaxGeneration
  /\ generation' = generation + 1
  /\ Goto("opened")
  /\ UNCHANGED <<status, snapshot, retryVars, cancelled, queue, event,
                 callVars, reply, ran, late>>

PublishConnected ==
  /\ pc = "opened"
  /\ status' = "Connected"
  /\ event' = "Connected"
  /\ Goto("session")
  /\ UNCHANGED <<generation, snapshot, retryVars, cancelled, queue, callVars,
                 reply, ran, late>>

ConnectErr(c) ==
  /\ pc = "connecting"
  /\ passed = 2
  /\ class' = c
  /\ Goto("failed")
  /\ UNCHANGED <<watchVars, attempt, tries, cancelled, queue, event, callVars,
                 reply, ran, late>>

\* The play future finished. A session that lasted stable_session_reset
\* clears the attempt counter.
SessionError(c, stable) ==
  /\ pc = "session"
  /\ passed = 1
  /\ class' = c
  /\ attempt' = IF stable THEN 0 ELSE attempt
  /\ tries' = IF stable THEN 1 ELSE tries
  /\ status' = "Disconnected"
  /\ Goto("lost")
  /\ UNCHANGED <<generation, snapshot, cancelled, queue, event, callVars,
                 reply, ran, late>>

PublishLost(shown) ==
  /\ pc = "lost"
  /\ snapshot' = shown
  /\ event' = "Disconnected"
  /\ Goto("replaced")
  /\ UNCHANGED <<status, generation, retryVars, cancelled, queue, callVars,
                 reply, ran, late>>

ResetSnapshot == PublishLost(0)

RejectReplaced == RejectQueued("replaced", "SessionReplaced")

EnterFailure ==
  /\ QueueFoundEmpty("replaced", "failed")
  /\ UNCHANGED <<watchVars, retryVars, cancelled, event, callVars, ran, late>>

\* The command branch of the session select!. The control channel's receiver
\* lives in the play future, which is still pending here, so the forward to
\* it cannot fail.
ForwardIf(mine, otherwise) ==
  /\ pc = "session"
  /\ passed = 2
  /\ queue # <<>>
  /\ LET k == Head(queue)
     IN /\ reply' = [reply EXCEPT ![k] = IF mine THEN "Ok" ELSE otherwise]
        /\ ran' = [ran EXCEPT ![k] = IF mine THEN generation ELSE @]
        /\ late' = IF mine /\ cancelled THEN late + 1 ELSE late
  /\ queue' = Tail(queue)
  /\ passed' = 0
  /\ UNCHANGED <<pc, watchVars, retryVars, cancelled, event, callVars>>

Current(k) == stamp[k] = generation

SessionCommand_NoGenerationCheck == ForwardIf(TRUE, "SessionReplaced")

SessionCommand == ForwardIf(Current(Head(queue)), "SessionReplaced")

\* The two relay branches: a play event, a play snapshot.
RelayEvent ==
  /\ pc = "session"
  /\ passed = 3
  /\ event' = "Session"
  /\ passed' = 0
  /\ UNCHANGED <<pc, watchVars, retryVars, cancelled, queue, callVars, reply,
                 ran, late>>

RelaySnapshot ==
  /\ pc = "session"
  /\ passed = 3
  /\ snapshot' = generation
  /\ passed' = 0
  /\ UNCHANGED <<pc, status, generation, retryVars, cancelled, queue, event,
                 callVars, reply, ran, late>>

\* handle_failure up to its select!: give up, or schedule the next attempt.
HandleFailure ==
  /\ pc = "failed"
  /\ IF decision_for(class) = "Stop" \/ retries_exhausted(attempt)
       THEN /\ status' = "Stopped"
            /\ Goto("stopping")
            /\ UNCHANGED <<attempt, event>>
       ELSE /\ attempt' = attempt + 1
            /\ status' = "ReconnectScheduled"
            /\ event' = "ReconnectScheduled"
            /\ Goto("backoff")
  /\ UNCHANGED <<generation, snapshot, class, tries, cancelled, queue,
                 callVars, reply, ran, late>>

BackoffElapsed ==
  /\ pc = "backoff"
  /\ passed = 2
  /\ event' = "RetryAttemptStarted"
  /\ Goto("head")
  /\ UNCHANGED <<watchVars, retryVars, cancelled, queue, callVars, reply, ran,
                 late>>

\* After the loop: a last drain, then run() returns and drops the receiver. A
\* command still in the channel loses its one-shot sender, which its caller
\* sees as SupervisorStopped.
RejectStopped == RejectQueued("stopping", "SupervisorStopped")

LeaveRun ==
  /\ QueueFoundEmpty("stopping", "dropping")
  /\ UNCHANGED <<watchVars, retryVars, cancelled, event, callVars, ran, late>>

DropAnswering(answer) ==
  /\ pc = "dropping"
  /\ Goto("gone")
  /\ reply' = [k \in Calls |-> IF \E i \in 1..Len(queue) : queue[i] = k
                                 THEN answer ELSE reply[k]]
  /\ queue' = <<>>
  /\ UNCHANGED <<watchVars, retryVars, cancelled, event, callVars, ran, late>>

DropReceiver_SilentDrop == DropAnswering(NoReply)

DropReceiver == DropAnswering("SupervisorStopped")

-----------------------------------------------------------------------------
(* SupervisorHandle: stop() and send_command().                            *)

stop ==
  /\ ~cancelled
  /\ cancelled' = TRUE
  /\ UNCHANGED <<runVars, watchVars, retryVars, queue, event, callVars, reply,
                 ran, late>>

\* inventory_click: a click first fixes the generation it is meant for.
ReadExpected(k) ==
  /\ k \in Clicks
  /\ call[k] = "new"
  /\ call' = [call EXCEPT ![k] = "begun"]
  /\ expected' = [expected EXCEPT ![k] = generation]
  /\ UNCHANGED <<runVars, watchVars, retryVars, cancelled, queue, event, stamp,
                 reply, ran, late>>

Refuse(k, err) ==
  /\ call' = [call EXCEPT ![k] = "refused"]
  /\ reply' = [reply EXCEPT ![k] = err]

\* send_command, first read: the status.
CheckStatus(k) ==
  /\ call[k] = IF k \in Clicks THEN "begun" ELSE "new"
  /\ IF status = "Connected"
       THEN /\ call' = [call EXCEPT ![k] = "checked"]
            /\ UNCHANGED reply
       ELSE Refuse(k, IF status = "Stopped" THEN "SupervisorStopped"
                                            ELSE "NotConnected")
  /\ UNCHANGED <<runVars, watchVars, retryVars, cancelled, queue, event,
                 expected, stamp, ran, late>>

\* send_command, second read: the generation, checked against a click's.
ReadGeneration(k) ==
  /\ call[k] = "checked"
  /\ stamp' = [stamp EXCEPT ![k] = generation]
  /\ IF k \in Clicks /\ expected[k] # generation
       THEN Refuse(k, "SessionReplaced")
       ELSE call' = [call EXCEPT ![k] = "stamped"] /\ UNCHANGED reply
  /\ UNCHANGED <<runVars, watchVars, retryVars, cancelled, queue, event,
                 expected, ran, late>>

\* send_command: try_send on the bounded channel.
Submit(k) ==
  /\ call[k] = "stamped"
  /\ IF pc = "gone" THEN Refuse(k, "SupervisorStopped") /\ UNCHANGED queue
     ELSE IF Len(queue) >= Capacity
       THEN Refuse(k, "QueueFull") /\ UNCHANGED queue
     ELSE /\ queue' = Append(queue, k)
          /\ call' = [call EXCEPT ![k] = "waiting"]
          /\ UNCHANGED reply
  /\ UNCHANGED <<runVars, watchVars, retryVars, cancelled, event, expected,
                 stamp, ran, late>>

\* The caller drops the future (a timeout of its own): the command stays
\* queued and its answer is discarded.
Abandon(k) ==
  /\ call[k] = "waiting"
  /\ reply[k] = NoReply
  /\ call' = [call EXCEPT ![k] = "abandoned"]
  /\ UNCHANGED <<runVars, watchVars, retryVars, cancelled, queue, event,
                 expected, stamp, reply, ran, late>>

-----------------------------------------------------------------------------
Connect == ConnectOk \/ \E c \in RetryClass : ConnectErr(c)

SessionEnds == \E c \in RetryClass, stable \in BOOLEAN : SessionError(c, stable)

\* What the supervisor task does by itself whenever it is scheduled.
Run ==
  \/ LoopHead \/ ClearQueue \/ BeginConnect
  \/ PassBranch \/ CancelBranch \/ RejectOffline
  \/ PublishConnected \/ ResetSnapshot \/ RejectReplaced \/ EnterFailure
  \/ SessionCommand \/ HandleFailure
  \/ RejectStopped \/ LeaveRun \/ DropReceiver

Caller(k) ==
  ReadExpected(k) \/ CheckStatus(k) \/ ReadGeneration(k) \/ Submit(k)

Next ==
  \/ Run \/ Wake \/ Connect \/ BackoffElapsed
  \/ SessionEnds \/ RelayEvent \/ RelaySnapshot
  \/ stop
  \/ \E k \in Calls : Caller(k) \/ Abandon(k)

\* The runtime keeps polling the supervisor task; a connect attempt has an
\* overall deadline and a backoff sleep elapses, so both complete. Nothing is
\* assumed of sessions, of stop(), or of when a caller calls.
Fairness ==
  /\ WF_vars(Run)
  /\ WF_vars(Wake)
  /\ WF_vars(Connect)
  /\ WF_vars(BackoffElapsed)

Spec == Init /\ [][Next]_vars

FairSpec == Spec /\ Fairness

-----------------------------------------------------------------------------
(* Properties.                                                             *)

Queued(k) == {i \in 1..Len(queue) : queue[i] = k}

Pending(k) == call[k] \in {"waiting", "abandoned"} /\ reply[k] = NoReply

\* A command only ever runs in the session whose generation it was stamped
\* with, and a click only in the one its caller fixed beforehand, however many
\* sessions end and start while it sits in the channel (run_session's
\* generation check, send_command's check of InventoryClickRequest).
RunsInStampedSession ==
  \A k \in Calls : ran[k] # 0 =>
    ran[k] = stamp[k] /\ (k \in Clicks => ran[k] = expected[k])

\* The answer tells what happened: Ok exactly for the commands a session
\* received; a caller told NotConnected, SessionReplaced, QueueFull or
\* SupervisorStopped can retry without the command running twice.
AnswerTellsWhatHappened ==
  \A k \in Calls : reply[k] = "Ok" <=> ran[k] # 0

\* A command accepted by try_send is in the channel exactly once until it is
\* answered and never after, whether or not its caller still waits; once run()
\* has returned nothing is left unanswered (the drains at every boundary of
\* the loop and the drop of the receiver).
AcceptedAnsweredOnce ==
  /\ \A k \in Calls : Cardinality(Queued(k)) = IF Pending(k) THEN 1 ELSE 0
  /\ pc = "gone" => \A k \in Calls : ~Pending(k)

\* The published snapshot never shows an earlier session than the published
\* generation does (the reset to the default snapshot when a session ends).
NoStaleSnapshot == snapshot \in {0, generation}

\* Between two stable sessions the supervisor connects at most once plus the
\* policy's retry limit (handle_failure, stable_session_reset).
RetryBudget == ~UnlimitedRetries => tries <= MaxRetries + 1

\* After stop() at most the one command whose select! poll was already past
\* the cancellation branch still runs (the biased select! of run_session).
StopIsPrompt == late <= 1

\* Stopped is final: no new session and no command run afterwards.
StoppedIsFinal ==
  [][status = "Stopped" => UNCHANGED <<status, generation, ran>>]_vars

\* A session is opened only at first or after a failure of a class the policy
\* retries: never after a kick, a sign-in or a protocol error by default.
ReconnectsOnlyWhenAllowed ==
  [][generation' # generation => class \in Retry \cup {NoClass}]_vars

\* Subscribers see the life cycle in order: Connected only after Connecting,
\* session events only between Connected and Disconnected, a retry only after
\* it was announced, nothing after StoppedByCancellation.
MayFollow ==
  [e \in LifecycleEvent |->
    CASE e = "None"                  -> {"Connecting", "StoppedByCancellation"}
      [] e = "Connecting"            -> {"Connected", "ReconnectScheduled",
                                         "StoppedByCancellation"}
      [] e \in {"Connected", "Session"} ->
           {"Session", "Disconnected", "StoppedByCancellation"}
      [] e = "Disconnected"          -> {"ReconnectScheduled"}
      [] e = "ReconnectScheduled"    -> {"RetryAttemptStarted",
                                         "StoppedByCancellation"}
      [] e = "RetryAttemptStarted"   -> {"Connecting", "StoppedByCancellation"}
      [] e = "StoppedByCancellation" -> {}]

EventsInOrder == [][event' # event => event' \in MayFollow[event]]_vars

\* stop() ends run(), whatever it interrupts: a connect attempt, a session, a
\* backoff sleep or the loop's own steps.  The cancellation is never undone,
\* and run() comes to its end.
StopTakesEffect ==
  /\ [][cancelled => cancelled']_vars
  /\ []<>(cancelled => pc = "gone")

\* Every command accepted into the channel is answered, in whatever state the
\* supervisor is: a command stops being pending only by its answer, and none
\* stays pending for a session that may never come.
EveryCallAnswered ==
  /\ [][\A k \in Calls : Pending(k) => Pending(k)' \/ reply'[k] # NoReply]_vars
  /\ \A k \in Calls : []<>~Pending(k)

-----------------------------------------------------------------------------
(* The supervisor implements its contract.                                 *)

Phase ==
  IF status = "Stopped" THEN "over"
  ELSE IF status = "Connected" THEN "live"
  ELSE IF pc = "opened" THEN "opened" ELSE "idle"

\* The session a command is meant for: the one a click's caller fixed, the
\* one read on submission for any other command.
Aimed == [k \in Calls |-> IF k \in Clicks THEN expected[k] ELSE stamp[k]]

Contract == INSTANCE SupervisorContract WITH
  session <- generation, phase <- Phase, shown <- snapshot,
  asked <- cancelled, grace <- late, aim <- Aimed,
  waiting <- {k \in Calls : Pending(k)}, answer <- reply, place <- ran

\* Whatever the supervisor and its callers do is a step of the contract or
\* none: commands run only in the live session they were aimed at, at most one
\* after stop(), Ok is said of exactly those, every refusal is true when it is
\* given (NotConnected only without a live session, SessionReplaced only when
\* the session is gone, QueueFull only at the capacity, SupervisorStopped only
\* at the end), and a new session opens only when nothing of the last one is
\* shown (run, run_session, handle_failure, send_command and stop together).
ImplementsContract == Contract!Spec
=============================================================================
