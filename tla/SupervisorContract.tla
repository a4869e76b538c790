------------------------- MODULE SupervisorContract -------------------------
(***************************************************************************)
(* What the users of a SupervisorHandle may rely on, without the watch     *)
(* channels, the command channel, the select! polls and the retry policy   *)
(* that provide it. Sessions follow one another, one at a time; a command  *)
(* is aimed at one of them, runs in that one or not at all, and its answer *)
(* says which; every refusal has its reason at the moment it is given.     *)
(***************************************************************************)
EXTENDS Naturals, FiniteSets

CONSTANTS Calls, Capacity

VARIABLES
  session,  \* the number of the newest session, 0 = none yet
  phase,    \* "idle", "opened", "live", "over"
  shown,    \* the session whose state is shown, 0 = none
  asked,    \* somebody has asked for the end
  grace,    \* commands that ran after that
  aim,      \* the session each command is meant for
  waiting,  \* commands accepted and not yet answered
  answer,   \* "none", "Ok" or the reason of the refusal
  place     \* the session each command ran in, 0 = none

contractVars ==
  <<session, phase, shown, asked, grace, aim, waiting, answer, place>>

Init ==
  /\ session = 0 /\ phase = "idle" /\ shown = 0
  /\ asked = FALSE /\ grace = 0
  /\ aim = [k \in Calls |-> 0]
  /\ waiting = {}
  /\ answer = [k \in Calls |-> "none"]
  /\ place = [k \in Calls |-> 0]

\* A session is opened only when there is none and nothing of an earlier one
\* is shown any more; it goes live once, and ends.
Open ==
  /\ phase = "idle"
  /\ shown = 0
  /\ session' = session + 1
  /\ phase' = "opened"
  /\ UNCHANGED <<shown, asked, grace, aim, waiting, answer, place>>

GoLive ==
  /\ phase = "opened"
  /\ phase' = "live"
  /\ UNCHANGED <<session, shown, asked, grace, aim, waiting, answer, place>>

Close ==
  /\ phase = "live"
  /\ phase' = "idle"
  /\ UNCHANGED <<session, shown, asked, grace, aim, waiting, answer, place>>

\* The end, out of a live session or between two.
Finish ==
  /\ phase \in {"idle", "live"}
  /\ phase' = "over"
  /\ UNCHANGED <<session, shown, asked, grace, aim, waiting, answer, place>>

Ask ==
  /\ ~asked
  /\ asked' = TRUE
  /\ UNCHANGED <<session, phase, shown, grace, aim, waiting, answer, place>>

\* The state of the live session is shown, or none is.
Show ==
  /\ \/ phase = "live" /\ shown' = session
     \/ shown' = 0
  /\ UNCHANGED <<session, phase, asked, grace, aim, waiting, answer, place>>

Aim(k) ==
  /\ answer[k] = "none"
  /\ k \notin waiting
  /\ aim' = [aim EXCEPT ![k] = session]
  /\ UNCHANGED <<session, phase, shown, asked, grace, waiting, answer, place>>

Accept(k) ==
  /\ answer[k] = "none"
  /\ Cardinality(waiting) < Capacity
  /\ waiting' = waiting \cup {k}
  /\ UNCHANGED <<session, phase, shown, asked, grace, aim, answer, place>>

\* A command runs in the live session, if that is the one it was aimed at;
\* once the end was asked for, one more at most.
Execute(k) ==
  /\ k \in waiting
  /\ phase = "live"
  /\ aim[k] = session
  /\ asked => grace = 0
  /\ grace' = IF asked THEN 1 ELSE grace
  /\ waiting' = waiting \ {k}
  /\ answer' = [answer EXCEPT ![k] = "Ok"]
  /\ place' = [place EXCEPT ![k] = session]
  /\ UNCHANGED <<session, phase, shown, asked, aim>>

\* Why a command may be refused.
Reason(k, r) ==
  \/ r = "NotConnected" /\ phase \in {"idle", "opened"}
  \/ r = "SessionReplaced" /\ (phase = "idle" \/ aim[k] # session)
  \/ r = "QueueFull" /\ Cardinality(waiting) >= Capacity
  \/ r = "SupervisorStopped" /\ phase = "over"

Refuse(k, r) ==
  /\ answer[k] = "none"
  /\ Reason(k, r)
  /\ answer' = [answer EXCEPT ![k] = r]
  /\ waiting' = waiting \ {k}
  /\ UNCHANGED <<session, phase, shown, asked, grace, aim, place>>

\* At the end whatever still waits is refused together.
RefuseAll ==
  /\ phase = "over"
  /\ answer' = [k \in Calls |->
                  IF k \in waiting THEN "SupervisorStopped" ELSE answer[k]]
  /\ waiting' = {}
  /\ UNCHANGED <<session, phase, shown, asked, grace, aim, place>>

Reasons ==
  {"NotConnected", "SessionReplaced", "QueueFull", "SupervisorStopped"}

Next ==
  \/ Open \/ GoLive \/ Close \/ Finish \/ Ask \/ Show \/ RefuseAll
  \/ \E k \in Calls :
       \/ Aim(k) \/ Accept(k) \/ Execute(k)
       \/ \E r \in Reasons : Refuse(k, r)

Spec == Init /\ [][Next]_contractVars
=============================================================================
