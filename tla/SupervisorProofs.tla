-------------------------- MODULE SupervisorProofs --------------------------
(***************************************************************************)
(* Proofs about Supervisor, for every set of calls, every policy and every *)
(* channel capacity: its invariants, and that it implements                *)
(* SupervisorContract, each of its steps being a step of the contract or   *)
(* leaving the contract's state alone.                                     *)
(***************************************************************************)
EXTENDS Supervisor, FiniteSetTheorems, FunctionTheorems, TLAPS

\* Every step of manager, supervisor and task keeps the types.
LEMMA TypeStep == TypeOK /\ [Next]_vars => TypeOK'
<1> SUFFICES ASSUME TypeOK, [Next]_vars PROVE TypeOK'
  OBVIOUS
<1> USE DEF TypeOK, runVars, watchVars, retryVars, callVars, SupervisorStatus,
        ControlError, LifecycleEvent, Select, RetryClass, NoClass, NoReply, Goto,
        CallStates, Replies
<1>1. CASE LoopHead
  BY <1>1 DEF LoopHead, StopCancelled, StopGoingTo
<1>2. CASE ClearQueue
  BY <1>2 DEF ClearQueue, RejectQueued, Reject
<1>3. CASE BeginConnect
  BY <1>3 DEF BeginConnect, QueueFoundEmpty
<1>4. CASE PassBranch
  BY <1>4 DEF PassBranch, PassIf, Branches
<1>5. CASE CancelBranch
  BY <1>5 DEF CancelBranch, StopCancelled, StopGoingTo
<1>6. CASE RejectOffline
  BY <1>6 DEF RejectOffline, Reject
<1>7. CASE PublishConnected
  BY <1>7 DEF PublishConnected
<1>8. CASE ResetSnapshot
  BY <1>8 DEF ResetSnapshot, PublishLost
<1>9. CASE RejectReplaced
  BY <1>9 DEF RejectReplaced, RejectQueued, Reject
<1>10. CASE EnterFailure
  BY <1>10 DEF EnterFailure, QueueFoundEmpty
<1>11. CASE SessionCommand
  BY <1>11 DEF SessionCommand, ForwardIf, Current
<1>12. CASE HandleFailure
  BY <1>12 DEF HandleFailure
<1>13. CASE RejectStopped
  BY <1>13 DEF RejectStopped, RejectQueued, Reject
<1>14. CASE LeaveRun
  BY <1>14 DEF LeaveRun, QueueFoundEmpty
<1>15. CASE DropReceiver
  BY <1>15 DEF DropReceiver, DropAnswering
<1>16. CASE Wake
  BY <1>16 DEF Wake, WakeIf
<1>17. CASE Connect
  BY <1>17 DEF Connect, ConnectOk, ConnectErr
<1>18. CASE BackoffElapsed
  BY <1>18 DEF BackoffElapsed
<1>19. CASE SessionEnds
  BY <1>19 DEF SessionEnds, SessionError
<1>20. CASE RelayEvent \/ RelaySnapshot
  BY <1>20 DEF RelayEvent, RelaySnapshot
<1>21. CASE stop
  BY <1>21 DEF stop
<1>22. ASSUME NEW k \in Calls, Caller(k) \/ Abandon(k) PROVE TypeOK'
  <2>1. CASE ReadExpected(k)
    BY <2>1 DEF ReadExpected
  <2>2. CASE CheckStatus(k)
    <3>1. CASE status = "Connected"
      BY Zenon, <2>2, <3>1 DEF CheckStatus
    <3>2. CASE status # "Connected"
      <4> DEFINE err == IF status = "Stopped" THEN "SupervisorStopped"
                                              ELSE "NotConnected"
      <4>1. err \in ControlError
        OBVIOUS
      <4> HIDE DEF err
      <4>2. Refuse(k, err)
        BY <2>2, <3>2 DEF CheckStatus, err
      <4> QED
        BY <2>2, <4>1, <4>2 DEF CheckStatus, Refuse
    <3> QED
      BY <3>1, <3>2
  <2>3. CASE ReadGeneration(k)
    <3>1. \/ Refuse(k, "SessionReplaced")
          \/ call' = [call EXCEPT ![k] = "stamped"] /\ UNCHANGED reply
      BY <2>3 DEF ReadGeneration
    <3>2. call' \in [Calls -> CallStates] /\ reply' \in [Calls -> Replies]
      BY Zenon, <3>1 DEF Refuse
    <3>3. stamp' \in [Calls -> Nat]
      BY <2>3 DEF ReadGeneration
    <3> QED
      BY <2>3, <3>2, <3>3 DEF ReadGeneration
  <2>4. CASE Submit(k)
    <3>1. \/ Refuse(k, "SupervisorStopped") /\ UNCHANGED queue
          \/ Refuse(k, "QueueFull") /\ UNCHANGED queue
          \/ /\ queue' = Append(queue, k)
             /\ call' = [call EXCEPT ![k] = "waiting"]
             /\ UNCHANGED reply
      BY <2>4 DEF Submit
    <3>2. /\ call' \in [Calls -> CallStates]
          /\ reply' \in [Calls -> Replies]
      BY Zenon, <3>1 DEF Refuse
    <3>3. queue' \in Seq(Calls)
      <4>1. queue' = queue \/ queue' = Append(queue, k)
        BY <3>1
      <4>2. queue \in Seq(Calls)
        OBVIOUS
      <4> QED
        BY ONLY <4>1, <4>2, k \in Calls
    <3> QED
      BY <2>4, <3>2, <3>3 DEF Submit
  <2>5. CASE Abandon(k)
    BY <2>5 DEF Abandon
  <2> QED
    BY <1>22, <2>1, <2>2, <2>3, <2>4, <2>5 DEF Caller
<1>23. CASE UNCHANGED vars
  BY <1>23 DEF vars
<1> QED
  BY <1>1, <1>2, <1>3, <1>4, <1>5, <1>6, <1>7, <1>8, <1>9, <1>10, <1>11,
     <1>12, <1>13, <1>14, <1>15, <1>16, <1>17, <1>18, <1>19, <1>20, <1>21,
     <1>22, <1>23 DEF Next, Run

\* run() has left its loop.
Stopping == {"stopping", "dropping", "gone"}

\* Where run() is determines the published status, the session shown and what
\* the last failure was.
ControlInv ==
  /\ pc \in {"opened", "session", "lost"} => generation > 0
  /\ status = "Stopped" <=> pc \in Stopping
  /\ status = "Connected" <=> pc = "session"
  /\ pc \in {"backoff", "head", "clear", "connecting"} =>
       class \in Retry \cup {NoClass}
  /\ pc \notin {"session", "lost"} \cup Stopping => snapshot = 0
  /\ snapshot \in {0, generation}

\* A late command ended its select! poll, and the next one sees the token.
LateInv ==
  late # 0 => /\ late = 1
              /\ cancelled
              /\ pc \in Stopping \/ (pc = "session" /\ passed = 0)

\* The attempt counter is one behind the connects once one has begun.
BudgetInv ==
  /\ pc \in {"head", "clear", "backoff"} => tries = attempt
  /\ pc \notin {"head", "clear", "backoff"} \cup Stopping =>
       tries = attempt + 1
  /\ pc \in Stopping => tries \in {attempt, attempt + 1}
  /\ ~UnlimitedRetries => attempt <= MaxRetries

\* Every step keeps the control invariant.
LEMMA ControlStep == TypeOK /\ ControlInv /\ [Next]_vars => ControlInv'
<1> SUFFICES ASSUME TypeOK, ControlInv, [Next]_vars PROVE ControlInv'
  OBVIOUS
<1> USE PolicyAssumption
<1> USE DEF ControlInv, Stopping, TypeOK, runVars, watchVars, retryVars, callVars, Select,
        RetryClass, NoClass, Goto
<1>1. CASE LoopHead
  BY <1>1 DEF LoopHead, StopCancelled, StopGoingTo
<1>2. CASE ClearQueue
  BY <1>2 DEF ClearQueue, RejectQueued, Reject
<1>3. CASE BeginConnect
  BY <1>3 DEF BeginConnect, QueueFoundEmpty
<1>4. CASE PassBranch
  BY <1>4 DEF PassBranch, PassIf, Branches
<1>5. CASE CancelBranch
  BY <1>5 DEF CancelBranch, StopCancelled, StopGoingTo
<1>6. CASE RejectOffline
  BY <1>6 DEF RejectOffline, Reject
<1>7. CASE PublishConnected
  BY <1>7 DEF PublishConnected
<1>8. CASE ResetSnapshot
  BY <1>8 DEF ResetSnapshot, PublishLost
<1>9. CASE RejectReplaced
  BY <1>9 DEF RejectReplaced, RejectQueued, Reject
<1>10. CASE EnterFailure
  BY <1>10 DEF EnterFailure, QueueFoundEmpty
<1>11. CASE SessionCommand
  BY <1>11 DEF SessionCommand, ForwardIf, Current
<1>12. CASE HandleFailure
  BY <1>12 DEF HandleFailure, decision_for,
              retries_exhausted
<1>13. CASE RejectStopped
  BY <1>13 DEF RejectStopped, RejectQueued, Reject
<1>14. CASE LeaveRun
  BY <1>14 DEF LeaveRun, QueueFoundEmpty
<1>15. CASE DropReceiver
  BY <1>15 DEF DropReceiver, DropAnswering
<1>16. CASE Wake
  BY <1>16 DEF Wake, WakeIf, Branches
<1>17. CASE Connect
  BY <1>17 DEF Connect, ConnectOk, ConnectErr
<1>18. CASE BackoffElapsed
  BY <1>18 DEF BackoffElapsed
<1>19. CASE SessionEnds
  BY <1>19 DEF SessionEnds, SessionError
<1>20. CASE RelayEvent
  BY <1>20 DEF RelayEvent
<1>21. CASE RelaySnapshot
  BY <1>21 DEF RelaySnapshot
<1>22. CASE stop
  BY <1>22 DEF stop
<1>23. ASSUME NEW k \in Calls, Caller(k) \/ Abandon(k) PROVE ControlInv'
  BY <1>23 DEF Caller, ReadExpected, CheckStatus, ReadGeneration, Submit, Abandon
<1>24. CASE UNCHANGED vars
  BY <1>24 DEF vars
<1> QED
  BY <1>1, <1>2, <1>3, <1>4, <1>5, <1>6, <1>7, <1>8, <1>9, <1>10, <1>11,
     <1>12, <1>13, <1>14, <1>15, <1>16, <1>17, <1>18, <1>19, <1>20, <1>21,
     <1>22, <1>23, <1>24
     DEF Next, Run

\* Every step keeps the bound on late commands.
LEMMA LateStep == TypeOK /\ LateInv /\ [Next]_vars => LateInv'
<1> SUFFICES ASSUME TypeOK, LateInv, [Next]_vars PROVE LateInv'
  OBVIOUS
<1> USE DEF LateInv, Stopping, TypeOK, runVars, watchVars, retryVars, callVars, Select,
        RetryClass, NoClass, Goto
<1>1. CASE LoopHead
  BY <1>1 DEF LoopHead, StopCancelled, StopGoingTo
<1>2. CASE ClearQueue
  BY <1>2 DEF ClearQueue, RejectQueued, Reject
<1>3. CASE BeginConnect
  BY <1>3 DEF BeginConnect, QueueFoundEmpty
<1>4. CASE PassBranch
  BY <1>4 DEF PassBranch, PassIf, Branches
<1>5. CASE CancelBranch
  BY <1>5 DEF CancelBranch, StopCancelled, StopGoingTo
<1>6. CASE RejectOffline
  BY <1>6 DEF RejectOffline, Reject
<1>7. CASE PublishConnected
  BY <1>7 DEF PublishConnected
<1>8. CASE ResetSnapshot
  BY <1>8 DEF ResetSnapshot, PublishLost
<1>9. CASE RejectReplaced
  BY <1>9 DEF RejectReplaced, RejectQueued, Reject
<1>10. CASE EnterFailure
  BY <1>10 DEF EnterFailure, QueueFoundEmpty
<1>11. CASE SessionCommand
  BY <1>11 DEF SessionCommand, ForwardIf, Current
<1>12. CASE HandleFailure
  BY <1>12 DEF HandleFailure, decision_for,
              retries_exhausted
<1>13. CASE RejectStopped
  BY <1>13 DEF RejectStopped, RejectQueued, Reject
<1>14. CASE LeaveRun
  BY <1>14 DEF LeaveRun, QueueFoundEmpty
<1>15. CASE DropReceiver
  BY <1>15 DEF DropReceiver, DropAnswering
<1>16. CASE Wake
  BY <1>16 DEF Wake, WakeIf, Branches
<1>17. CASE Connect
  BY <1>17 DEF Connect, ConnectOk, ConnectErr
<1>18. CASE BackoffElapsed
  BY <1>18 DEF BackoffElapsed
<1>19. CASE SessionEnds
  BY <1>19 DEF SessionEnds, SessionError
<1>20. CASE RelayEvent
  BY <1>20 DEF RelayEvent
<1>21. CASE RelaySnapshot
  BY <1>21 DEF RelaySnapshot
<1>22. CASE stop
  BY <1>22 DEF stop
<1>23. ASSUME NEW k \in Calls, Caller(k) \/ Abandon(k) PROVE LateInv'
  BY <1>23 DEF Caller, ReadExpected, CheckStatus, ReadGeneration, Submit, Abandon
<1>24. CASE UNCHANGED vars
  BY <1>24 DEF vars
<1> QED
  BY <1>1, <1>2, <1>3, <1>4, <1>5, <1>6, <1>7, <1>8, <1>9, <1>10, <1>11,
     <1>12, <1>13, <1>14, <1>15, <1>16, <1>17, <1>18, <1>19, <1>20, <1>21,
     <1>22, <1>23, <1>24
     DEF Next, Run

\* Every step keeps the attempt counter and the connects in step.
LEMMA BudgetStep == TypeOK /\ BudgetInv /\ [Next]_vars => BudgetInv'
<1> SUFFICES ASSUME TypeOK, BudgetInv, [Next]_vars PROVE BudgetInv'
  OBVIOUS
<1> USE PolicyAssumption
<1> USE DEF BudgetInv, Stopping, TypeOK, runVars, watchVars, retryVars, callVars, Select,
        RetryClass, NoClass, Goto
<1>1. CASE LoopHead
  BY <1>1 DEF LoopHead, StopCancelled, StopGoingTo
<1>2. CASE ClearQueue
  BY <1>2 DEF ClearQueue, RejectQueued, Reject
<1>3. CASE BeginConnect
  BY <1>3 DEF BeginConnect, QueueFoundEmpty
<1>4. CASE PassBranch
  BY <1>4 DEF PassBranch, PassIf, Branches
<1>5. CASE CancelBranch
  BY <1>5 DEF CancelBranch, StopCancelled, StopGoingTo
<1>6. CASE RejectOffline
  BY <1>6 DEF RejectOffline, Reject
<1>7. CASE PublishConnected
  BY <1>7 DEF PublishConnected
<1>8. CASE ResetSnapshot
  BY <1>8 DEF ResetSnapshot, PublishLost
<1>9. CASE RejectReplaced
  BY <1>9 DEF RejectReplaced, RejectQueued, Reject
<1>10. CASE EnterFailure
  BY <1>10 DEF EnterFailure, QueueFoundEmpty
<1>11. CASE SessionCommand
  BY <1>11 DEF SessionCommand, ForwardIf, Current
<1>12. CASE HandleFailure
  BY <1>12 DEF HandleFailure, decision_for,
              retries_exhausted
<1>13. CASE RejectStopped
  BY <1>13 DEF RejectStopped, RejectQueued, Reject
<1>14. CASE LeaveRun
  BY <1>14 DEF LeaveRun, QueueFoundEmpty
<1>15. CASE DropReceiver
  BY <1>15 DEF DropReceiver, DropAnswering
<1>16. CASE Wake
  BY <1>16 DEF Wake, WakeIf, Branches
<1>17. CASE Connect
  BY <1>17 DEF Connect, ConnectOk, ConnectErr
<1>18. CASE BackoffElapsed
  BY <1>18 DEF BackoffElapsed
<1>19. CASE SessionEnds
  BY <1>19 DEF SessionEnds, SessionError
<1>20. CASE RelayEvent
  BY <1>20 DEF RelayEvent
<1>21. CASE RelaySnapshot
  BY <1>21 DEF RelaySnapshot
<1>22. CASE stop
  BY <1>22 DEF stop
<1>23. ASSUME NEW k \in Calls, Caller(k) \/ Abandon(k) PROVE BudgetInv'
  BY <1>23 DEF Caller, ReadExpected, CheckStatus, ReadGeneration, Submit, Abandon
<1>24. CASE UNCHANGED vars
  BY <1>24 DEF vars
<1> QED
  BY <1>1, <1>2, <1>3, <1>4, <1>5, <1>6, <1>7, <1>8, <1>9, <1>10, <1>11,
     <1>12, <1>13, <1>14, <1>15, <1>16, <1>17, <1>18, <1>19, <1>20, <1>21,
     <1>22, <1>23, <1>24
     DEF Next, Run

\* The last event broadcast, by where run() is.
EventInv ==
  /\ pc \in {"head", "clear"} => event \in {"None", "RetryAttemptStarted"}
  /\ pc \in {"connecting", "opened"} => event = "Connecting"
  /\ pc \in {"session", "lost"} => event \in {"Connected", "Session"}
  /\ pc = "replaced" => event = "Disconnected"
  /\ pc = "failed" => event \in {"Connecting", "Disconnected"}
  /\ pc = "backoff" => event = "ReconnectScheduled"

\* Every step keeps the last event in step with run().
LEMMA EventStep == TypeOK /\ EventInv /\ [Next]_vars => EventInv'
<1> SUFFICES ASSUME TypeOK, EventInv, [Next]_vars PROVE EventInv'
  OBVIOUS
<1> USE DEF EventInv, TypeOK, runVars, watchVars, retryVars, callVars, Select,
        RetryClass, NoClass, Goto
<1>1. CASE LoopHead
  BY <1>1 DEF LoopHead, StopCancelled, StopGoingTo
<1>2. CASE ClearQueue
  BY <1>2 DEF ClearQueue, RejectQueued, Reject
<1>3. CASE BeginConnect
  BY <1>3 DEF BeginConnect, QueueFoundEmpty
<1>4. CASE PassBranch
  BY <1>4 DEF PassBranch, PassIf, Branches
<1>5. CASE CancelBranch
  BY <1>5 DEF CancelBranch, StopCancelled, StopGoingTo
<1>6. CASE RejectOffline
  BY <1>6 DEF RejectOffline, Reject
<1>7. CASE PublishConnected
  BY <1>7 DEF PublishConnected
<1>8. CASE ResetSnapshot
  BY <1>8 DEF ResetSnapshot, PublishLost
<1>9. CASE RejectReplaced
  BY <1>9 DEF RejectReplaced, RejectQueued, Reject
<1>10. CASE EnterFailure
  BY <1>10 DEF EnterFailure, QueueFoundEmpty
<1>11. CASE SessionCommand
  BY <1>11 DEF SessionCommand, ForwardIf, Current
<1>12. CASE HandleFailure
  BY <1>12 DEF HandleFailure, decision_for,
              retries_exhausted
<1>13. CASE RejectStopped
  BY <1>13 DEF RejectStopped, RejectQueued, Reject
<1>14. CASE LeaveRun
  BY <1>14 DEF LeaveRun, QueueFoundEmpty
<1>15. CASE DropReceiver
  BY <1>15 DEF DropReceiver, DropAnswering
<1>16. CASE Wake
  BY <1>16 DEF Wake, WakeIf, Branches
<1>17. CASE Connect
  BY <1>17 DEF Connect, ConnectOk, ConnectErr
<1>18. CASE BackoffElapsed
  BY <1>18 DEF BackoffElapsed
<1>19. CASE SessionEnds
  BY <1>19 DEF SessionEnds, SessionError
<1>20. CASE RelayEvent
  BY <1>20 DEF RelayEvent
<1>21. CASE RelaySnapshot
  BY <1>21 DEF RelaySnapshot
<1>22. CASE stop
  BY <1>22 DEF stop
<1>23. ASSUME NEW k \in Calls, Caller(k) \/ Abandon(k) PROVE EventInv'
  BY <1>23 DEF Caller, ReadExpected, CheckStatus, ReadGeneration, Submit, Abandon
<1>24. CASE UNCHANGED vars
  BY <1>24 DEF vars
<1> QED
  BY <1>1, <1>2, <1>3, <1>4, <1>5, <1>6, <1>7, <1>8, <1>9, <1>10, <1>11,
     <1>12, <1>13, <1>14, <1>15, <1>16, <1>17, <1>18, <1>19, <1>20, <1>21,
     <1>22, <1>23, <1>24
     DEF Next, Run

-----------------------------------------------------------------------------
(* The command channel as a sequence without duplicates.                   *)

In(k, q) == \E i \in 1..Len(q) : q[i] = k

Distinct(q) == \A i, j \in 1..Len(q) : q[i] = q[j] => i = j

\* Taking the oldest command out of the channel takes out that one only.
LEMMA PopLemma ==
  ASSUME NEW S, NEW q \in Seq(S), q # <<>>, Distinct(q)
  PROVE  /\ Head(q) \in S /\ In(Head(q), q)
         /\ Tail(q) \in Seq(S)
         /\ Distinct(Tail(q))
         /\ \A k : In(k, Tail(q)) <=> In(k, q) /\ k # Head(q)
<1>1. /\ Len(q) \in Nat \ {0}
      /\ Tail(q) \in Seq(S) /\ Len(Tail(q)) = Len(q) - 1
      /\ Head(q) = q[1] /\ Head(q) \in S
      /\ \A i \in 1..Len(Tail(q)) : Tail(q)[i] = q[i + 1]
  OBVIOUS
<1>2. In(Head(q), q)
  BY <1>1 DEF In
<1>3. Distinct(Tail(q))
  BY <1>1 DEF Distinct
<1>4. ASSUME NEW k, In(k, Tail(q)) PROVE In(k, q) /\ k # Head(q)
  <2>1. PICK i \in 1..Len(Tail(q)) : q[i + 1] = k
    BY <1>1, <1>4 DEF In
  <2> QED
    BY <1>1, <2>1 DEF In, Distinct
<1>5. ASSUME NEW k, In(k, q), k # Head(q) PROVE In(k, Tail(q))
  <2>1. PICK i \in 1..Len(q) : q[i] = k
    BY <1>5 DEF In
  <2>2. i # 1 /\ i - 1 \in 1..Len(Tail(q)) /\ Tail(q)[i - 1] = q[i]
    BY <1>1, <1>5, <2>1
  <2> QED
    BY <2>1, <2>2 DEF In
<1> QED
  BY <1>1, <1>2, <1>3, <1>4, <1>5

\* A command that is not in the channel is in it once after a push.
LEMMA PushLemma ==
  ASSUME NEW S, NEW q \in Seq(S), NEW x \in S, Distinct(q), ~In(x, q)
  PROVE  /\ Distinct(Append(q, x))
         /\ \A k : In(k, Append(q, x)) <=> In(k, q) \/ k = x
<1>1. /\ Len(q) \in Nat
      /\ Len(Append(q, x)) = Len(q) + 1
      /\ \A i \in 1..Len(q) : Append(q, x)[i] = q[i]
      /\ Append(q, x)[Len(q) + 1] = x
  OBVIOUS
<1>2. Distinct(Append(q, x))
  BY <1>1 DEF Distinct, In
<1>3. ASSUME NEW k PROVE In(k, Append(q, x)) <=> In(k, q) \/ k = x
  BY <1>1 DEF In
<1> QED
  BY <1>2, <1>3

-----------------------------------------------------------------------------
(* What becomes of a command.                                              *)

\* The commands in the channel are the accepted ones without an answer.
ChannelInv ==
  /\ Distinct(queue)
  /\ \A k \in Calls : In(k, queue) <=> Pending(k)
  /\ pc = "gone" => queue = <<>>

\* How far a call has got, its answer and the session it ran in agree.
AnswerOf(k) ==
  /\ call[k] \notin {"waiting", "abandoned", "refused"} => reply[k] = NoReply
  /\ call[k] = "refused" => reply[k] \in ControlError
  /\ reply[k] = "Ok" <=> ran[k] # 0
  /\ ran[k] # 0 => /\ call[k] \in {"waiting", "abandoned"}
                   /\ ran[k] = stamp[k]
  /\ k \in Clicks /\ call[k] \in {"stamped", "waiting", "abandoned"} =>
       expected[k] = stamp[k]

AnswerInv == \A k \in Calls : AnswerOf(k)

CommandInv == ChannelInv /\ AnswerInv

\* A step that touches neither the channel nor a call keeps the invariant.
LEMMA QuietStep ==
  ASSUME CommandInv, UNCHANGED <<queue, reply, callVars, ran>>,
         pc' = "gone" => pc = "gone"
  PROVE  CommandInv'
BY DEF CommandInv, ChannelInv, AnswerInv, AnswerOf, Pending, callVars, Distinct,
       In

\* Answering the oldest command with an error keeps the invariant.
LEMMA RejectStep ==
  ASSUME TypeOK, CommandInv, NEW err \in ControlError, Reject(err),
         UNCHANGED <<callVars, ran>>, pc' = pc, pc # "gone"
  PROVE  CommandInv'
<1> DEFINE h == Head(queue)
<1>1. /\ queue # <<>> /\ queue \in Seq(Calls) /\ Distinct(queue)
      /\ queue' = Tail(queue)
      /\ reply' = [reply EXCEPT ![h] = err]
  BY DEF TypeOK, CommandInv, ChannelInv, Reject
<1>2. /\ h \in Calls /\ In(h, queue)
      /\ Distinct(queue')
      /\ \A k : In(k, queue') <=> In(k, queue) /\ k # h
  BY <1>1, PopLemma
<1> HIDE DEF h
<1>3. Pending(h)
  BY <1>2 DEF CommandInv, ChannelInv
<1>4. reply'[h] = err /\ \A k \in Calls : k # h => reply'[k] = reply[k]
  BY <1>1, <1>2 DEF TypeOK
<1>5. err # NoReply /\ err # "Ok"
  BY DEF ControlError, NoReply
<1>6. ChannelInv'
  BY <1>2, <1>4, <1>5 DEF CommandInv, ChannelInv, Pending, callVars
<1>7. AnswerInv'
  BY <1>2, <1>3, <1>4, <1>5
     DEF CommandInv, AnswerInv, AnswerOf, Pending, callVars, NoReply
<1> QED
  BY <1>6, <1>7 DEF CommandInv

\* The session's command branch keeps the invariant: a command stamped for
\* this session is forwarded to it, another one is refused.
LEMMA ForwardStep ==
  ASSUME TypeOK, ControlInv, CommandInv, SessionCommand
  PROVE  CommandInv'
<1>0. queue # <<>> /\ queue \in Seq(Calls) /\ Distinct(queue)
  BY DEF TypeOK, CommandInv, ChannelInv, SessionCommand, ForwardIf
<1> PICK h \in Calls : h = Head(queue)
  BY <1>0, PopLemma
<1> DEFINE answer == IF Current(h) THEN "Ok" ELSE "SessionReplaced"
<1>1. /\ queue' = Tail(queue)
      /\ reply' = [reply EXCEPT ![h] = answer]
      /\ ran' = [ran EXCEPT ![h] = IF Current(h) THEN generation ELSE @]
      /\ UNCHANGED <<callVars, pc>>
      /\ pc = "session"
  BY DEF SessionCommand, ForwardIf
<1>2. /\ In(h, queue)
      /\ Distinct(queue')
      /\ \A k : In(k, queue') <=> In(k, queue) /\ k # h
  BY <1>0, <1>1, PopLemma
<1>3. generation \in Nat \ {0}
  BY <1>1 DEF ControlInv, TypeOK
<1>4. /\ reply'[h] = answer
      /\ ran'[h] = IF Current(h) THEN generation ELSE ran[h]
      /\ \A k \in Calls : k # h => reply'[k] = reply[k] /\ ran'[k] = ran[k]
  BY <1>1, <1>2 DEF TypeOK
<1>5. answer # NoReply
  BY DEF NoReply
<1>6. Pending(h) /\ ran[h] = 0
  BY <1>2 DEF CommandInv, ChannelInv, AnswerInv, AnswerOf, Pending, NoReply
<1>7. ChannelInv'
  BY <1>1, <1>2, <1>4, <1>5 DEF CommandInv, ChannelInv, Pending, callVars
<1>8. ASSUME NEW k \in Calls, k # h PROVE AnswerOf(k)'
  BY <1>1, <1>4, <1>8 DEF CommandInv, AnswerInv, AnswerOf, callVars
<1>9. AnswerOf(h)'
  <2>1. AnswerOf(h) /\ call'[h] = call[h] /\ stamp'[h] = stamp[h]
        /\ expected'[h] = expected[h]
    BY <1>1, <1>2 DEF CommandInv, AnswerInv, callVars
  <2>2. CASE Current(h)
    BY <1>3, <1>4, <1>6, <2>1, <2>2 DEF AnswerOf, Pending, Current
  <2>3. CASE ~Current(h)
    BY <1>4, <1>6, <2>1, <2>3 DEF AnswerOf, Pending
  <2> QED
    BY <2>2, <2>3
<1> QED
  BY <1>7, <1>8, <1>9 DEF CommandInv, AnswerInv

\* Dropping the receiver answers everything that is still in the channel.
LEMMA DropStep ==
  ASSUME TypeOK, CommandInv, DropReceiver
  PROVE  CommandInv'
<1>1. /\ queue' = <<>> /\ UNCHANGED <<callVars, ran>>
      /\ \A k \in Calls : reply'[k] = IF In(k, queue) THEN "SupervisorStopped"
                                                      ELSE reply[k]
  BY DEF DropReceiver, DropAnswering, In
<1>2. ChannelInv'
  BY <1>1 DEF CommandInv, ChannelInv, Pending, callVars, Distinct, In, NoReply
<1>3. AnswerInv'
  BY <1>1
     DEF CommandInv, ChannelInv, AnswerInv, AnswerOf, Pending, callVars,
         NoReply, ControlError
<1> QED
  BY <1>2, <1>3 DEF CommandInv

\* A call that is turned away before the channel keeps the invariant.
LEMMA RefuseStep ==
  ASSUME TypeOK, CommandInv, NEW c \in Calls, NEW err \in ControlError,
         call[c] \in {"new", "begun", "checked", "stamped"}, Refuse(c, err),
         UNCHANGED <<queue, ran, expected, pc>>,
         \A k \in Calls : k # c => stamp'[k] = stamp[k]
  PROVE  CommandInv'
<1>1. /\ call'[c] = "refused" /\ reply'[c] = err
      /\ \A k \in Calls : k # c => call'[k] = call[k] /\ reply'[k] = reply[k]
  BY DEF TypeOK, Refuse
<1>2. reply[c] = NoReply /\ ran[c] = 0
  BY DEF CommandInv, AnswerInv, AnswerOf, NoReply
<1>3. err # "Ok" /\ err # NoReply
  BY DEF ControlError, NoReply
<1>4. ChannelInv'
  BY <1>1, <1>2 DEF CommandInv, ChannelInv, Pending, Distinct, In
<1>5. AnswerInv'
  BY <1>1, <1>2, <1>3 DEF CommandInv, AnswerInv, AnswerOf
<1> QED
  BY <1>4, <1>5 DEF CommandInv

\* A call that goes on to its next step before the channel keeps it.
LEMMA ProceedStep ==
  ASSUME TypeOK, CommandInv, NEW c \in Calls, NEW there \in CallStates,
         call[c] \in {"new", "begun", "checked"},
         there \in {"begun", "checked", "stamped"},
         call' = [call EXCEPT ![c] = there],
         UNCHANGED <<queue, reply, ran, pc>>,
         \A k \in Calls : k # c =>
           stamp'[k] = stamp[k] /\ expected'[k] = expected[k],
         there = "stamped" /\ c \in Clicks => expected'[c] = stamp'[c]
  PROVE  CommandInv'
<1>1. /\ call'[c] = there
      /\ \A k \in Calls : k # c => call'[k] = call[k]
  BY DEF TypeOK
<1>2. reply[c] = NoReply /\ ran[c] = 0
  BY DEF CommandInv, AnswerInv, AnswerOf, NoReply
<1>3. ChannelInv'
  BY <1>1, <1>2 DEF CommandInv, ChannelInv, Pending, Distinct, In
<1>4. AnswerInv'
  BY <1>1, <1>2 DEF CommandInv, AnswerInv, AnswerOf
<1> QED
  BY <1>3, <1>4 DEF CommandInv

\* Entering the channel keeps it.
LEMMA SubmitStep ==
  ASSUME TypeOK, CommandInv, NEW c \in Calls, Submit(c)
  PROVE  CommandInv'
<1>1. /\ call[c] = "stamped"
      /\ UNCHANGED <<ran, expected, stamp, pc>>
      /\ \/ Refuse(c, "SupervisorStopped") /\ UNCHANGED queue
         \/ Refuse(c, "QueueFull") /\ UNCHANGED queue
         \/ /\ pc # "gone"
            /\ queue' = Append(queue, c)
            /\ call' = [call EXCEPT ![c] = "waiting"]
            /\ UNCHANGED reply
  BY DEF Submit, runVars
<1>2. CASE \E err \in {"SupervisorStopped", "QueueFull"} :
             Refuse(c, err) /\ UNCHANGED queue
  BY <1>1, <1>2, RefuseStep DEF ControlError
<1>3. CASE /\ pc # "gone"
           /\ queue' = Append(queue, c)
           /\ call' = [call EXCEPT ![c] = "waiting"]
           /\ UNCHANGED reply
  <2>1. reply[c] = NoReply /\ ran[c] = 0 /\ ~In(c, queue)
    BY <1>1 DEF CommandInv, ChannelInv, Pending, AnswerInv, AnswerOf, NoReply
  <2>2. queue \in Seq(Calls) /\ Distinct(queue)
    BY DEF TypeOK, CommandInv, ChannelInv
  <2>3. /\ Distinct(queue')
        /\ \A k : In(k, queue') <=> In(k, queue) \/ k = c
    BY <1>3, <2>1, <2>2, PushLemma
  <2>4. /\ call'[c] = "waiting"
        /\ \A k \in Calls : k # c => call'[k] = call[k]
    BY <1>3 DEF TypeOK
  <2>5. ChannelInv'
    BY <1>1, <1>3, <2>1, <2>3, <2>4 DEF CommandInv, ChannelInv, Pending
  <2>6. AnswerInv'
    BY <1>1, <1>3, <2>1, <2>4 DEF CommandInv, AnswerInv, AnswerOf
  <2> QED
    BY <2>5, <2>6 DEF CommandInv
<1> QED
  BY <1>1, <1>2, <1>3

\* Every step keeps commands and answers in step.
LEMMA CommandStep ==
  TypeOK /\ ControlInv /\ CommandInv /\ [Next]_vars => CommandInv'
<1> SUFFICES ASSUME TypeOK, ControlInv, CommandInv, [Next]_vars
             PROVE  CommandInv'
  OBVIOUS
<1> USE DEF runVars, Goto
<1>1. CASE \/ LoopHead \/ BeginConnect \/ PassBranch \/ CancelBranch
           \/ PublishConnected \/ ResetSnapshot \/ EnterFailure
           \/ HandleFailure \/ LeaveRun
  <2>1. /\ UNCHANGED <<queue, reply, callVars, ran>>
        /\ pc' = "gone" => pc = "gone"
    BY <1>1 DEF LoopHead, BeginConnect, PassBranch, PassIf, CancelBranch,
         PublishConnected, ResetSnapshot, PublishLost, EnterFailure,
         HandleFailure, LeaveRun, QueueFoundEmpty, StopCancelled,
         StopGoingTo
  <2> QED
    BY <2>1, QuietStep
<1>2. CASE \/ Wake \/ Connect \/ BackoffElapsed \/ SessionEnds \/ RelayEvent
           \/ RelaySnapshot \/ stop
  <2>1. /\ UNCHANGED <<queue, reply, callVars, ran>>
        /\ pc' = "gone" => pc = "gone"
    BY <1>2 DEF Wake, WakeIf, Connect, ConnectOk, ConnectErr, BackoffElapsed, SessionEnds, SessionError, RelayEvent, RelaySnapshot,
         stop
  <2> QED
    BY <2>1, QuietStep
<1>3. CASE ClearQueue \/ RejectReplaced \/ RejectStopped \/ RejectOffline
  <2>1. PICK err \in ControlError :
          /\ Reject(err) /\ UNCHANGED <<callVars, ran>>
          /\ pc' = pc /\ pc # "gone"
    BY <1>3 DEF ClearQueue, RejectReplaced, RejectStopped, RejectOffline,
         RejectQueued, ControlError
  <2> QED
    BY <2>1, RejectStep
<1>4. CASE SessionCommand
  BY <1>4, ForwardStep
<1>5. CASE DropReceiver
  BY <1>5, DropStep
<1>6. ASSUME NEW c \in Calls, Caller(c) \/ Abandon(c) PROVE CommandInv'
  <2>1. CASE ReadExpected(c)
    <3>1. /\ call[c] = "new" /\ call' = [call EXCEPT ![c] = "begun"]
          /\ UNCHANGED <<queue, reply, ran, pc, stamp>>
          /\ \A k \in Calls : k # c => expected'[k] = expected[k]
      BY <2>1 DEF ReadExpected, TypeOK
    <3> QED
      BY Zenon, <3>1, ProceedStep DEF CallStates
  <2>2. CASE CheckStatus(c)
    <3>1. /\ call[c] \in {"new", "begun"}
          /\ UNCHANGED <<queue, ran, pc, stamp, expected>>
          /\ \/ call' = [call EXCEPT ![c] = "checked"] /\ UNCHANGED reply
             \/ \E err \in {"SupervisorStopped", "NotConnected"} :
                  Refuse(c, err)
      BY <2>2 DEF CheckStatus
    <3> QED
      BY <3>1, ProceedStep, RefuseStep DEF CallStates, ControlError
  <2>3. CASE ReadGeneration(c)
    <3>1. /\ call[c] = "checked"
          /\ UNCHANGED <<queue, ran, pc, expected>>
          /\ stamp' = [stamp EXCEPT ![c] = generation]
          /\ \/ Refuse(c, "SessionReplaced")
             \/ /\ c \in Clicks => expected[c] = generation
                /\ call' = [call EXCEPT ![c] = "stamped"] /\ UNCHANGED reply
      BY <2>3 DEF ReadGeneration
    <3>2. /\ stamp'[c] = generation
          /\ \A k \in Calls : k # c => stamp'[k] = stamp[k]
      BY <3>1 DEF TypeOK
    <3> QED
      BY <3>1, <3>2, ProceedStep, RefuseStep DEF CallStates, ControlError
  <2>4. CASE Submit(c)
    BY <2>4, SubmitStep
  <2>5. CASE Abandon(c)
    <3>1. /\ call[c] = "waiting" /\ reply[c] = NoReply
          /\ UNCHANGED <<queue, reply, ran, pc, stamp, expected>>
          /\ call'[c] = "abandoned"
          /\ \A k \in Calls : k # c => call'[k] = call[k]
      BY <2>5 DEF Abandon, TypeOK
    <3>2. ChannelInv'
      BY <3>1 DEF CommandInv, ChannelInv, Pending, Distinct, In
    <3>3. AnswerInv'
      BY <3>1 DEF CommandInv, AnswerInv, AnswerOf, NoReply
    <3> QED
      BY <3>2, <3>3 DEF CommandInv
  <2> QED
    BY <1>6, <2>1, <2>2, <2>3, <2>4, <2>5 DEF Caller
<1>7. CASE UNCHANGED vars
  BY <1>7, QuietStep DEF vars
<1> QED
  BY <1>1, <1>2, <1>3, <1>4, <1>5, <1>6, <1>7 DEF Next, Run

-----------------------------------------------------------------------------
(* The theorems.                                                           *)

IInv ==
  TypeOK /\ ControlInv /\ LateInv /\ BudgetInv /\ EventInv /\ CommandInv

\* The strengthening is an inductive invariant of the supervisor.
THEOREM Inductive == Spec => []IInv
<1>1. Init => IInv
  <2> SUFFICES ASSUME Init PROVE IInv
    OBVIOUS
  <2> USE DEF Init
  <2>1. TypeOK
    <3>1. queue \in Seq(Calls)
      OBVIOUS
    <3>2. /\ call \in [Calls -> CallStates]
          /\ reply \in [Calls -> Replies]
          /\ expected \in [Calls -> Nat] /\ stamp \in [Calls -> Nat]
          /\ ran \in [Calls -> Nat]
      BY DEF CallStates, Replies
    <3>3. /\ pc = "head" /\ passed = 0
          /\ status = "Disconnected" /\ generation = 0 /\ snapshot = 0
          /\ attempt = 0 /\ class = NoClass /\ tries = 0
          /\ cancelled \in BOOLEAN /\ event = "None" /\ late = 0
      BY Zenon
    <3> QED
      BY ONLY <3>1, <3>2, <3>3 DEF TypeOK, SupervisorStatus, LifecycleEvent
  <2>2. ControlInv /\ LateInv /\ BudgetInv /\ EventInv
    BY PolicyAssumption
       DEF ControlInv, LateInv, BudgetInv, EventInv, Stopping, NoClass
  <2>3. CommandInv
    BY DEF CommandInv, ChannelInv, AnswerInv, AnswerOf, Distinct, In, Pending,
       NoReply
  <2> QED
    BY <2>1, <2>2, <2>3 DEF IInv
<1>2. IInv /\ [Next]_vars => IInv'
  BY TypeStep, ControlStep, LateStep, BudgetStep, EventStep, CommandStep
     DEF IInv
<1> QED
  BY <1>1, <1>2, PTL DEF Spec

\* Every behaviour is type-correct.
THEOREM TypeCorrect == Spec => []TypeOK
<1>1. IInv => TypeOK
  BY DEF IInv
<1> QED
  BY <1>1, Inductive, PTL

\* A command runs only in the session it was stamped for, a click only in the
\* one its caller fixed beforehand.
THEOREM CommandsStayInTheirSession == Spec => []RunsInStampedSession
<1>1. IInv => RunsInStampedSession
  BY DEF IInv, CommandInv, AnswerInv, AnswerOf, RunsInStampedSession
<1> QED
  BY <1>1, Inductive, PTL

\* A caller is told Ok exactly when a session received its command.
THEOREM AnswersAreTrue == Spec => []AnswerTellsWhatHappened
<1>1. IInv => AnswerTellsWhatHappened
  BY DEF IInv, CommandInv, AnswerInv, AnswerOf, AnswerTellsWhatHappened
<1> QED
  BY <1>1, Inductive, PTL

\* Every accepted command is in the channel once until it is answered, and no
\* answer is missing once run() has returned.
THEOREM NothingIsLost == Spec => []AcceptedAnsweredOnce
<1>1. ASSUME IInv PROVE AcceptedAnsweredOnce
  <2>1. /\ Distinct(queue)
        /\ \A k \in Calls : In(k, queue) <=> Pending(k)
        /\ pc = "gone" => queue = <<>>
        /\ Len(queue) \in Nat
    BY <1>1 DEF IInv, CommandInv, ChannelInv, TypeOK
  <2>2. ASSUME NEW k \in Calls, Pending(k) PROVE Cardinality(Queued(k)) = 1
    <3>1. PICK i \in 1..Len(queue) : queue[i] = k
      BY <2>1, <2>2 DEF In
    <3>2. Queued(k) = {i}
      BY <2>1, <3>1 DEF Queued, Distinct
    <3> QED
      BY Zenon, <3>2, FS_Singleton
  <2>3. ASSUME NEW k \in Calls, ~Pending(k) PROVE Cardinality(Queued(k)) = 0
    <3>1. Queued(k) = {}
      BY <2>1, <2>3 DEF Queued, In
    <3> QED
      BY <3>1, FS_EmptySet
  <2>4. pc = "gone" => \A k \in Calls : ~Pending(k)
    BY <2>1 DEF In
  <2> QED
    BY <2>2, <2>3, <2>4 DEF AcceptedAnsweredOnce
<1> QED
  BY <1>1, Inductive, PTL

\* The published snapshot never shows an earlier session than the generation.
THEOREM SnapshotIsCurrent == Spec => []NoStaleSnapshot
<1>1. IInv => NoStaleSnapshot
  BY DEF IInv, ControlInv, NoStaleSnapshot
<1> QED
  BY <1>1, Inductive, PTL

\* No policy makes the supervisor connect more often than its limit allows.
THEOREM RetriesAreBounded == Spec => []RetryBudget
<1>1. IInv => RetryBudget
  BY PolicyAssumption DEF IInv, BudgetInv, RetryBudget, TypeOK, Stopping
<1> QED
  BY <1>1, Inductive, PTL

\* At most one command still runs after stop().
THEOREM StopIsImmediate == Spec => []StopIsPrompt
<1>1. IInv => StopIsPrompt
  BY DEF IInv, LateInv, StopIsPrompt
<1> QED
  BY <1>1, Inductive, PTL

\* Stopped is final: no session opens and no command runs afterwards.
THEOREM StoppedStaysStopped == Spec => StoppedIsFinal
<1>1. IInv /\ [Next]_vars =>
        [status = "Stopped" => UNCHANGED <<status, generation, ran>>]_vars
  <2> SUFFICES ASSUME IInv, Next, status = "Stopped"
               PROVE  UNCHANGED <<status, generation, ran>>
    BY DEF vars
  <2>1. pc \in Stopping
    BY DEF IInv, ControlInv
  <2> USE DEF Stopping, Select, watchVars
  <2>2. CASE Run
    BY <2>1, <2>2
       DEF Run, LoopHead, ClearQueue, BeginConnect, PassBranch, PassIf,
           CancelBranch, RejectOffline, PublishConnected, ResetSnapshot,
           PublishLost, RejectReplaced, EnterFailure, SessionCommand,
           ForwardIf, HandleFailure, RejectStopped, LeaveRun,
           DropReceiver, DropAnswering, RejectQueued, QueueFoundEmpty
  <2>3. CASE ~Run
    BY <2>1, <2>3
       DEF Next, Wake, WakeIf, Connect, ConnectOk, ConnectErr, BackoffElapsed, SessionEnds, SessionError, RelayEvent,
           RelaySnapshot, stop, Caller, ReadExpected, CheckStatus,
           ReadGeneration, Submit, Abandon
  <2> QED
    BY <2>2, <2>3
<1> QED
  BY <1>1, Inductive, PTL DEF Spec, StoppedIsFinal

\* A session opens only at first or after a failure the policy retries.
THEOREM OnlyAllowedReconnects == Spec => ReconnectsOnlyWhenAllowed
<1>1. IInv /\ [Next]_vars =>
        [generation' # generation => class \in Retry \cup {NoClass}]_vars
  <2> SUFFICES ASSUME IInv, Next, generation' # generation
               PROVE  class \in Retry \cup {NoClass}
    BY DEF vars
  <2> USE DEF watchVars
  <2>1. ConnectOk
    <3>1. CASE Run
      BY <3>1
         DEF Run, LoopHead, ClearQueue, BeginConnect, PassBranch, PassIf,
             CancelBranch, RejectOffline, PublishConnected, ResetSnapshot,
             PublishLost, RejectReplaced, EnterFailure, SessionCommand,
             ForwardIf, HandleFailure, RejectStopped, LeaveRun,
             DropReceiver, DropAnswering, RejectQueued, StopCancelled,
             StopGoingTo
    <3>2. CASE ~Run
      BY <3>2
         DEF Next, Wake, WakeIf, Connect, ConnectErr, BackoffElapsed,
             SessionEnds, SessionError, RelayEvent, RelaySnapshot, stop,
             Caller, ReadExpected, CheckStatus, ReadGeneration, Submit,
             Abandon
    <3> QED
      BY <3>1, <3>2
  <2> QED
    BY <2>1 DEF ConnectOk, IInv, ControlInv
<1> QED
  BY <1>1, Inductive, PTL DEF Spec, ReconnectsOnlyWhenAllowed

\* Life-cycle events are broadcast in order.
THEOREM LifecycleOrder == Spec => EventsInOrder
<1>1. IInv /\ [Next]_vars => [event' # event => event' \in MayFollow[event]]_vars
  <2> SUFFICES ASSUME IInv, Next, event' # event
               PROVE  event' \in MayFollow[event]
    BY DEF vars
  <2>0. EventInv /\ event \in LifecycleEvent
    BY DEF IInv, TypeOK
  <2> USE DEF EventInv, MayFollow, LifecycleEvent
  <2>1. CASE Run
    BY <2>0, <2>1
       DEF Run, LoopHead, ClearQueue, BeginConnect, PassBranch, PassIf,
           CancelBranch, RejectOffline, PublishConnected, ResetSnapshot,
           PublishLost, RejectReplaced, EnterFailure, SessionCommand,
           ForwardIf, HandleFailure, RejectStopped, LeaveRun,
           DropReceiver, DropAnswering, RejectQueued, QueueFoundEmpty,
           StopCancelled, StopGoingTo, Select
  <2>2. CASE ~Run
    BY <2>0, <2>2
       DEF Next, Wake, WakeIf, Connect, ConnectOk, ConnectErr, BackoffElapsed, SessionEnds, SessionError, RelayEvent,
           RelaySnapshot, stop, Caller, ReadExpected, CheckStatus,
           ReadGeneration, Submit, Abandon
  <2> QED
    BY <2>1, <2>2
<1> QED
  BY <1>1, Inductive, PTL DEF Spec, EventsInOrder
-----------------------------------------------------------------------------
(* The refinement of SupervisorContract.                                   *)

Waiting == {k \in Calls : Pending(k)}

\* As many commands wait for an answer as the channel holds.
LEMMA LoadLemma ==
  ASSUME IInv
  PROVE  Cardinality(Waiting) = Len(queue)
<1> DEFINE f == [i \in 1..Len(queue) |-> queue[i]]
<1>1. /\ queue \in Seq(Calls) /\ Len(queue) \in Nat
      /\ \A i \in 1..Len(queue) : queue[i] \in Calls
      /\ Distinct(queue)
      /\ \A k \in Calls : In(k, queue) <=> Pending(k)
  BY DEF IInv, TypeOK, CommandInv, ChannelInv
<1>2. f \in [1..Len(queue) -> Waiting]
  BY <1>1 DEF Waiting, In
<1>3. \A i, j \in 1..Len(queue) : f[i] = f[j] => i = j
  BY <1>1 DEF Distinct
<1>4. \A k \in Waiting : \E i \in 1..Len(queue) : f[i] = k
  BY <1>1 DEF Waiting, In
<1>5. ExistsBijection(1..Len(queue), Waiting)
  BY Zenon, <1>2, <1>3, <1>4, Fun_IsBij DEF ExistsBijection
<1> QED
  BY <1>1, <1>5, FS_CountingElements

\* The contract counts with the operator of its own copy of FiniteSets.
LEMMA SameCount == \A S : Contract!Cardinality(S) = Cardinality(S)
  BY Zenon DEF Contract!Cardinality, Cardinality

\* The initial states are initial states of the contract.
LEMMA RefineInit == Init => Contract!Init
<1> SUFFICES ASSUME Init PROVE Contract!Init
  OBVIOUS
<1>1. Waiting = {}
  BY DEF Init, Waiting, Pending
<1>2. Aimed = [k \in Calls |-> 0]
  BY DEF Init, Aimed
<1> QED
  BY <1>1, <1>2 DEF Contract!Init, Init, Waiting, Phase, NoReply

\* What the contract sees of a state, apart from the commands.
Frame == <<generation, Phase, snapshot, cancelled, late>>

\* A step that leaves all of it alone leaves the contract's state alone.
LEMMA StutterLemma ==
  ASSUME UNCHANGED Frame, UNCHANGED <<callVars, reply, ran>>
  PROVE  UNCHANGED Contract!contractVars
<1>1. Waiting' = Waiting
  BY DEF Waiting, Pending, callVars
<1>2. Aimed' = Aimed
  BY DEF Aimed, callVars
<1> QED
  BY <1>1, <1>2 DEF Contract!contractVars, Frame, Waiting

\* Answering the oldest command with an error is a refusal of the contract.
LEMMA RejectRefines ==
  ASSUME IInv, NEW err \in ControlError, Reject(err),
         UNCHANGED Frame, UNCHANGED <<callVars, ran>>,
         \/ err = "NotConnected" /\ Phase \in {"idle", "opened"}
         \/ err = "SessionReplaced" /\ Phase = "idle"
         \/ err = "SupervisorStopped" /\ Phase = "over"
  PROVE  Contract!Next
<1>1. /\ queue # <<>> /\ queue \in Seq(Calls) /\ Distinct(queue)
      /\ reply' = [reply EXCEPT ![Head(queue)] = err]
      /\ reply \in [Calls -> Replies]
      /\ \A k \in Calls : In(k, queue) <=> Pending(k)
  BY DEF IInv, TypeOK, CommandInv, ChannelInv, Reject
<1>2. PICK h \in Calls : h = Head(queue) /\ In(h, queue)
  BY <1>1, PopLemma
<1>3. Pending(h) /\ err # NoReply
  BY <1>1, <1>2 DEF ControlError, NoReply
<1>4. reply'[h] = err /\ \A k \in Calls : k # h => reply'[k] = reply[k]
  BY <1>1, <1>2
<1>5. Waiting' = Waiting \ {h}
  BY <1>3, <1>4 DEF Waiting, Pending, callVars
<1>6. Aimed' = Aimed
  BY DEF Aimed, callVars
<1>7. Contract!Reason(h, err)
  BY DEF Contract!Reason
<1>8. Contract!Refuse(h, err)
  BY <1>1, <1>2, <1>3, <1>5, <1>6, <1>7
     DEF Contract!Refuse, Waiting, Frame, Pending, NoReply
<1>9. err \in Contract!Reasons
  BY DEF Contract!Reasons
<1> QED
  BY <1>8, <1>9 DEF Contract!Next

\* Turning a call away before the channel is one, too.
LEMMA RefuseRefines ==
  ASSUME IInv, NEW c \in Calls, NEW err \in ControlError, Refuse(c, err),
         call[c] \in {"new", "begun", "checked", "stamped"},
         UNCHANGED Frame, UNCHANGED <<expected, ran>>, Aimed' = Aimed,
         Contract!Reason(c, err)
  PROVE  Contract!Next
<1>1. /\ reply' = [reply EXCEPT ![c] = err]
      /\ call'[c] = "refused"
      /\ \A k \in Calls : k # c => call'[k] = call[k] /\ reply'[k] = reply[k]
  BY DEF IInv, TypeOK, Refuse
<1>2. reply[c] = NoReply /\ ~Pending(c)
  BY DEF IInv, CommandInv, AnswerInv, AnswerOf, Pending
<1>3. Waiting' = Waiting \ {c}
  BY <1>1, <1>2 DEF Waiting, Pending
<1>4. Contract!Refuse(c, err)
  BY <1>1, <1>2, <1>3 DEF Contract!Refuse, Waiting, Frame, NoReply
<1>5. err \in Contract!Reasons
  BY DEF Contract!Reasons, ControlError
<1> QED
  BY <1>4, <1>5 DEF Contract!Next

\* The session's command branch runs the command or refuses it, as the
\* contract allows.
LEMMA ForwardRefines ==
  ASSUME IInv, SessionCommand
  PROVE  Contract!Next
<1>0. queue # <<>> /\ queue \in Seq(Calls) /\ Distinct(queue)
  BY DEF IInv, TypeOK, CommandInv, ChannelInv, SessionCommand, ForwardIf
<1>1. PICK h \in Calls : h = Head(queue) /\ In(h, queue)
  BY <1>0, PopLemma
<1>2. /\ pc = "session" /\ passed = 2
      /\ reply' = [reply EXCEPT ![h] = IF Current(h) THEN "Ok"
                                                    ELSE "SessionReplaced"]
      /\ ran' = [ran EXCEPT ![h] = IF Current(h) THEN generation ELSE @]
      /\ late' = IF Current(h) /\ cancelled THEN late + 1 ELSE late
      /\ UNCHANGED <<pc, watchVars, cancelled, callVars>>
  BY <1>1 DEF SessionCommand, ForwardIf
<1>3. /\ Phase = "live" /\ Phase' = Phase
      /\ UNCHANGED <<generation, snapshot, cancelled>>
      /\ late = 0 /\ reply \in [Calls -> Replies] /\ ran \in [Calls -> Nat]
  BY <1>2 DEF IInv, ControlInv, LateInv, Phase, watchVars, TypeOK, Stopping
<1>4. /\ Pending(h) /\ reply[h] = NoReply
      /\ Aimed[h] = stamp[h]
  BY <1>1 DEF IInv, CommandInv, ChannelInv, AnswerInv, AnswerOf, Pending, Aimed
<1>5. /\ reply'[h] # NoReply
      /\ \A k \in Calls : k # h => reply'[k] = reply[k]
  BY <1>2, <1>3 DEF NoReply
<1>6. Waiting' = Waiting \ {h} /\ Aimed' = Aimed /\ h \in Waiting
  BY <1>2, <1>4, <1>5 DEF Waiting, Pending, callVars, Aimed
<1>7. CASE Current(h)
  <2>1. Contract!Execute(h)
    BY <1>2, <1>3, <1>4, <1>6, <1>7
       DEF Contract!Execute, Waiting, Current
  <2> QED
    BY <2>1 DEF Contract!Next
<1>8. CASE ~Current(h)
  <2>1. ran' = ran /\ late' = late
    BY <1>2, <1>3, <1>8
  <2>2. Contract!Refuse(h, "SessionReplaced")
    BY <1>2, <1>3, <1>4, <1>6, <1>8, <2>1
       DEF Contract!Refuse, Contract!Reason, Waiting, Current, NoReply
  <2>3. "SessionReplaced" \in Contract!Reasons
    BY DEF Contract!Reasons
  <2> QED
    BY <2>2, <2>3 DEF Contract!Next
<1> QED
  BY <1>7, <1>8

\* The drop of the receiver refuses everything that waits.
LEMMA DropRefines ==
  ASSUME IInv, DropReceiver
  PROVE  Contract!Next
<1>1. /\ pc = "dropping"
      /\ reply' = [k \in Calls |-> IF In(k, queue) THEN "SupervisorStopped"
                                                  ELSE reply[k]]
      /\ UNCHANGED <<watchVars, cancelled, callVars, ran, late>>
      /\ pc' = "gone"
  BY DEF DropReceiver, DropAnswering, In, Goto
<1>2. \A k \in Calls : In(k, queue) <=> k \in Waiting
  BY DEF IInv, CommandInv, ChannelInv, Waiting
<1>3. reply' = [k \in Calls |-> IF k \in Waiting THEN "SupervisorStopped"
                                                ELSE reply[k]]
  BY <1>1, <1>2
<1>4. Waiting' = {}
  BY <1>1, <1>3 DEF Waiting, Pending, callVars, NoReply
<1>5. Phase = "over" /\ Phase' = "over"
  BY <1>1 DEF IInv, ControlInv, Stopping, Phase, watchVars
<1>6. Aimed' = Aimed
  BY <1>1 DEF Aimed, callVars
<1>7. Contract!RefuseAll
  BY <1>1, <1>3, <1>4, <1>5, <1>6 DEF Contract!RefuseAll, Waiting, watchVars
<1> QED
  BY <1>7 DEF Contract!Next

\* Entering the channel is acceptance, and not entering it a true refusal.
LEMMA SubmitRefines ==
  ASSUME IInv, NEW c \in Calls, Submit(c)
  PROVE  Contract!Next
<1>1. /\ call[c] = "stamped"
      /\ UNCHANGED <<pc, watchVars, cancelled, expected, stamp, ran, late>>
      /\ \/ pc = "gone" /\ Refuse(c, "SupervisorStopped")
         \/ Len(queue) >= Capacity /\ Refuse(c, "QueueFull")
         \/ /\ ~(Len(queue) >= Capacity)
            /\ call' = [call EXCEPT ![c] = "waiting"]
            /\ UNCHANGED reply
  BY DEF Submit, runVars
<1>2. UNCHANGED Frame /\ Aimed' = Aimed
  BY <1>1 DEF Frame, watchVars, Phase, Aimed
<1>3. Contract!Cardinality(Waiting) = Len(queue) /\ Len(queue) \in Nat
  BY LoadLemma, SameCount DEF IInv, TypeOK
<1>4. CASE pc = "gone" /\ Refuse(c, "SupervisorStopped")
  <2>1. Contract!Reason(c, "SupervisorStopped")
    BY <1>4 DEF Contract!Reason, IInv, ControlInv, Stopping, Phase
  <2> QED
    BY <1>1, <1>2, <1>4, <2>1, RefuseRefines DEF ControlError
<1>5. CASE Len(queue) >= Capacity /\ Refuse(c, "QueueFull")
  <2>1. Contract!Reason(c, "QueueFull")
    BY <1>3, <1>5 DEF Contract!Reason, Waiting
  <2> QED
    BY <1>1, <1>2, <1>5, <2>1, RefuseRefines DEF ControlError
<1>6. CASE /\ ~(Len(queue) >= Capacity)
           /\ call' = [call EXCEPT ![c] = "waiting"]
           /\ UNCHANGED reply
  <2>1. /\ reply[c] = NoReply
        /\ call'[c] = "waiting"
        /\ \A k \in Calls : k # c => call'[k] = call[k]
    BY Zenon, <1>1, <1>6
       DEF IInv, TypeOK, CommandInv, AnswerInv, AnswerOf
  <2>2. Waiting' = Waiting \cup {c}
    BY <1>6, <2>1 DEF Waiting, Pending
  <2>3. Contract!Cardinality(Waiting) < Capacity
    BY <1>3, <1>6, BoundAssumption
  <2>4. Contract!Accept(c)
    BY <1>1, <1>2, <1>6, <2>1, <2>2, <2>3
       DEF Contract!Accept, Waiting, Frame, NoReply
  <2> QED
    BY <2>4 DEF Contract!Next
<1> QED
  BY <1>1, <1>4, <1>5, <1>6

\* A caller's reads aim the command, or turn it away for a true reason.
LEMMA CallerRefines ==
  ASSUME IInv, NEW c \in Calls, Caller(c) \/ Abandon(c)
  PROVE  [Contract!Next]_(Contract!contractVars)
<1> USE DEF runVars
<1>0. /\ \A k \in Calls : call[k] \in {"new", "begun", "checked", "stamped"} =>
           reply[k] = NoReply /\ ~Pending(k)
      /\ call \in [Calls -> CallStates]
      /\ expected \in [Calls -> Nat] /\ stamp \in [Calls -> Nat]
  BY DEF IInv, TypeOK, CommandInv, AnswerInv, AnswerOf, Pending
<1>1. CASE ReadExpected(c)
  <2>1. /\ c \in Clicks /\ call[c] = "new"
        /\ call' = [call EXCEPT ![c] = "begun"]
        /\ expected' = [expected EXCEPT ![c] = generation]
        /\ UNCHANGED <<pc, watchVars, cancelled, stamp, reply, ran, late>>
    BY <1>1 DEF ReadExpected
  <2>2. Waiting' = Waiting /\ c \notin Waiting
    BY <1>0, <2>1 DEF Waiting, Pending
  <2>3. Aimed' = [Aimed EXCEPT ![c] = generation]
    BY Zenon, <1>0, <2>1 DEF Aimed
  <2>4. Contract!Aim(c)
    BY <1>0, <2>1, <2>2, <2>3
       DEF Contract!Aim, Waiting, Phase, watchVars, NoReply
  <2> QED
    BY <2>4 DEF Contract!Next
<1>2. CASE CheckStatus(c)
  <2>1. /\ call[c] \in {"new", "begun"}
        /\ UNCHANGED <<pc, watchVars, cancelled, expected, stamp, ran, late>>
        /\ IF status = "Connected"
             THEN call' = [call EXCEPT ![c] = "checked"] /\ UNCHANGED reply
             ELSE Refuse(c, IF status = "Stopped" THEN "SupervisorStopped"
                                                  ELSE "NotConnected")
    BY <1>2 DEF CheckStatus
  <2>2. UNCHANGED Frame /\ Aimed' = Aimed
    BY Zenon, <2>1 DEF Frame, watchVars, Phase, Aimed
  <2>3. CASE status = "Connected"
    <3>1. Waiting' = Waiting
      BY <1>0, <2>1, <2>3 DEF Waiting, Pending
    <3> QED
      BY <2>1, <2>2, <2>3, <3>1 DEF Contract!contractVars, Waiting, Frame
  <2>4. CASE status = "Stopped"
    <3>1. Contract!Reason(c, "SupervisorStopped")
      BY <2>4 DEF Contract!Reason, Phase
    <3> QED
      BY <2>1, <2>2, <2>4, <3>1, RefuseRefines DEF ControlError
  <2>5. CASE status \notin {"Connected", "Stopped"}
    <3>1. Contract!Reason(c, "NotConnected")
      BY <2>5 DEF Contract!Reason, Phase
    <3> QED
      BY <2>1, <2>2, <2>5, <3>1, RefuseRefines DEF ControlError
  <2> QED
    BY <2>3, <2>4, <2>5
<1>3. CASE ReadGeneration(c)
  <2>1. /\ call[c] = "checked"
        /\ stamp' = [stamp EXCEPT ![c] = generation]
        /\ UNCHANGED <<pc, watchVars, cancelled, expected, ran, late>>
        /\ IF c \in Clicks /\ expected[c] # generation
             THEN Refuse(c, "SessionReplaced")
             ELSE call' = [call EXCEPT ![c] = "stamped"] /\ UNCHANGED reply
    BY <1>3 DEF ReadGeneration
  <2>2. UNCHANGED Frame
    BY <2>1 DEF Frame, watchVars, Phase
  <2>3. CASE c \in Clicks /\ expected[c] # generation
    <3>1. Aimed' = Aimed /\ Aimed[c] # generation
      BY <1>0, <2>1, <2>3 DEF Aimed
    <3>2. Contract!Reason(c, "SessionReplaced")
      BY <3>1 DEF Contract!Reason
    <3> QED
      BY <2>1, <2>2, <2>3, <3>1, <3>2, RefuseRefines DEF ControlError
  <2>4. CASE ~(c \in Clicks /\ expected[c] # generation)
    <3>1. Waiting' = Waiting /\ c \notin Waiting
      BY <1>0, <2>1, <2>4 DEF Waiting, Pending
    <3>2. Aimed' = [Aimed EXCEPT ![c] = generation]
      BY Zenon, <1>0, <2>1, <2>4 DEF Aimed
    <3>3. Contract!Aim(c)
      BY <1>0, <2>1, <2>2, <2>4, <3>1, <3>2
         DEF Contract!Aim, Waiting, Frame, NoReply
    <3> QED
      BY <3>3 DEF Contract!Next
  <2> QED
    BY <2>3, <2>4
<1>4. CASE Submit(c)
  BY <1>4, SubmitRefines
<1>5. CASE Abandon(c)
  <2>1. /\ call[c] = "waiting"
        /\ call' = [call EXCEPT ![c] = "abandoned"]
        /\ UNCHANGED <<pc, watchVars, cancelled, expected, stamp, reply, ran,
                       late>>
    BY <1>5 DEF Abandon
  <2>2. Waiting' = Waiting /\ Aimed' = Aimed
    BY <1>0, <2>1 DEF Waiting, Pending, Aimed
  <2> QED
    BY <2>1, <2>2 DEF Contract!contractVars, Waiting, Phase, watchVars
<1> QED
  BY <1>1, <1>2, <1>3, <1>4, <1>5 DEF Caller

\* Every step of the supervisor and its callers is a step of the contract, or
\* none.
LEMMA StepRefines ==
  ASSUME IInv, [Next]_vars
  PROVE  [Contract!Next]_(Contract!contractVars)
<1> USE DEF runVars, watchVars, Goto
<1>0. ControlInv /\ LateInv /\ TypeOK
  BY DEF IInv
<1>1. CASE \/ BeginConnect \/ PassBranch \/ EnterFailure \/ LeaveRun
           \/ Wake \/ BackoffElapsed \/ RelayEvent \/ UNCHANGED vars
           \/ \E e \in RetryClass : ConnectErr(e)
  <2>1. UNCHANGED <<generation, snapshot, cancelled, late, callVars, reply,
                    ran>>
    BY <1>1 DEF BeginConnect, PassBranch, PassIf, EnterFailure, LeaveRun, Wake,
         WakeIf, BackoffElapsed, RelayEvent, ConnectErr, QueueFoundEmpty, vars
  <2>2. Phase' = Phase
    BY <1>0, <1>1 DEF BeginConnect, PassBranch, PassIf, EnterFailure, LeaveRun,
         Wake, WakeIf, BackoffElapsed, RelayEvent, ConnectErr, QueueFoundEmpty,
         vars, Phase, ControlInv, Stopping, Select
  <2> QED
    BY <2>1, <2>2, StutterLemma DEF Frame
<1>2. CASE LoopHead \/ CancelBranch \/ HandleFailure
  <2>1. /\ UNCHANGED <<generation, snapshot, cancelled, late, callVars, reply,
                       ran>>
        /\ pc \in {"head", "failed"} \cup Select
        /\ \/ status' = "Stopped"
           \/ status' \notin {"Stopped", "Connected"} /\ pc' # "opened"
              /\ pc \in {"head", "failed"}
    BY <1>0, <1>2 DEF LoopHead, CancelBranch, HandleFailure, StopCancelled,
         StopGoingTo, Select, ControlInv, Stopping
  <2>2. Waiting' = Waiting /\ Aimed' = Aimed
    BY <2>1 DEF Waiting, Pending, Aimed, callVars
  <2>3. CASE status' = "Stopped"
    <3>1. Phase' = "over" /\ Phase \in {"idle", "live"}
      BY <1>0, <2>1, <2>3 DEF Phase, ControlInv, Stopping, Select
    <3>2. Contract!Finish
      BY <2>1, <2>2, <3>1 DEF Contract!Finish, Waiting
    <3> QED
      BY <3>2 DEF Contract!Next
  <2>4. CASE status' # "Stopped"
    <3>1. Phase' = Phase
      BY <1>0, <2>1, <2>4 DEF Phase, ControlInv, Stopping
    <3> QED
      BY <2>1, <3>1, StutterLemma DEF Frame
  <2> QED
    BY <2>3, <2>4
<1>3. CASE ClearQueue \/ RejectOffline \/ RejectReplaced \/ RejectStopped
  <2>1. UNCHANGED Frame /\ UNCHANGED <<callVars, ran>>
    BY <1>3 DEF ClearQueue, RejectOffline, RejectReplaced, RejectStopped,
         RejectQueued, Frame, Phase
  <2>2. PICK err \in ControlError : /\ Reject(err)
          /\ \/ err = "NotConnected" /\ pc \in {"clear", "connecting", "backoff"}
             \/ err = "SessionReplaced" /\ pc = "replaced"
             \/ err = "SupervisorStopped" /\ pc = "stopping"
    BY <1>3 DEF ClearQueue, RejectOffline, RejectReplaced, RejectStopped,
         RejectQueued, ControlError
  <2>3. \/ err = "NotConnected" /\ Phase \in {"idle", "opened"}
        \/ err = "SessionReplaced" /\ Phase = "idle"
        \/ err = "SupervisorStopped" /\ Phase = "over"
    BY <1>0, <2>2 DEF Phase, ControlInv, Stopping
  <2> QED
    BY <2>1, <2>2, <2>3, RejectRefines
<1>4. CASE ConnectOk \/ PublishConnected \/ SessionEnds
  <2>1. /\ UNCHANGED <<snapshot, cancelled, late, callVars, reply, ran>>
        /\ \/ /\ pc = "connecting" /\ pc' = "opened" /\ status' = status
              /\ generation' = generation + 1
           \/ /\ pc = "opened" /\ status' = "Connected"
              /\ generation' = generation
           \/ /\ pc = "session" /\ status' = "Disconnected" /\ pc' = "lost"
              /\ generation' = generation
    BY <1>4 DEF ConnectOk, PublishConnected, SessionEnds, SessionError
  <2>2. Waiting' = Waiting /\ Aimed' = Aimed
    BY <2>1 DEF Waiting, Pending, Aimed, callVars
  <2>3. Contract!Open \/ Contract!GoLive \/ Contract!Close
    BY <1>0, <2>1, <2>2 DEF Contract!Open, Contract!GoLive, Contract!Close,
         Waiting, Phase, ControlInv, Stopping
  <2> QED
    BY <2>3 DEF Contract!Next
<1>5. CASE ResetSnapshot \/ RelaySnapshot
  <2>1. /\ UNCHANGED <<generation, cancelled, late, callVars, reply, ran>>
        /\ \/ snapshot' = 0
           \/ pc = "session" /\ snapshot' = generation
    BY <1>5 DEF ResetSnapshot, PublishLost, RelaySnapshot
  <2>2. Waiting' = Waiting /\ Aimed' = Aimed /\ Phase' = Phase
    BY Zenon, <1>0, <1>5, <2>1 DEF Waiting, Pending, Aimed, callVars, ResetSnapshot,
         PublishLost, RelaySnapshot, Phase, ControlInv, Stopping
  <2>3. pc = "session" => Phase = "live"
    BY <1>0 DEF Phase, ControlInv, Stopping
  <2>4. Contract!Show
    BY <2>1, <2>2, <2>3 DEF Contract!Show, Waiting
  <2> QED
    BY <2>4 DEF Contract!Next
<1>6. CASE stop
  <2>1. /\ UNCHANGED <<generation, snapshot, Phase, late, callVars, reply, ran>>
        /\ ~cancelled /\ cancelled' = TRUE
    BY <1>6 DEF stop, Phase
  <2>2. Waiting' = Waiting /\ Aimed' = Aimed
    BY <2>1 DEF Waiting, Pending, Aimed, callVars
  <2>3. Contract!Ask
    BY <2>1, <2>2 DEF Contract!Ask, Waiting
  <2> QED
    BY <2>3 DEF Contract!Next
<1>7. CASE SessionCommand
  BY <1>7, ForwardRefines
<1>8. CASE DropReceiver
  BY <1>8, DropRefines
<1>9. ASSUME NEW c \in Calls, Caller(c) \/ Abandon(c)
      PROVE  [Contract!Next]_(Contract!contractVars)
  BY <1>9, CallerRefines
<1> QED
  BY <1>1, <1>2, <1>3, <1>4, <1>5, <1>6, <1>7, <1>8, <1>9
     DEF Next, Run, Connect

\* The supervisor implements its contract (ClientSupervisor::run with
\* run_session and handle_failure, SupervisorHandle::send_command and stop).
THEOREM SupervisorImplementsContract == Spec => ImplementsContract
<1>1. IInv /\ [Next]_vars => [Contract!Next]_(Contract!contractVars)
  BY StepRefines
<1> QED
  BY <1>1, RefineInit, Inductive, PTL DEF Spec, ImplementsContract, Contract!Spec

=============================================================================
