------------------------------ MODULE Inventory ------------------------------
(***************************************************************************)
(* Container clicks: the inventory of a play session                       *)
(* (src/src/minecraft/inventory.rs), which sends each click as a           *)
(* transaction and ends it by what the server does next, and the callers   *)
(* of SupervisorHandle::inventory_click (src/src/core/supervisor.rs), which *)
(* read the published snapshot, submit a click and watch the snapshots for *)
(* its outcome.                                                            *)
(*                                                                         *)
(* The play loop publishes a snapshot at the end of each handler and polls *)
(* nothing else inside one, so a handler is one step and the snapshot is   *)
(* the inventory itself.  Slots, items and the cursor are left out: the    *)
(* packets that carry only those (set_cursor_item, set_player_inventory,   *)
(* craft_progress_bar, held_item_slot) touch neither a revision nor a      *)
(* transaction.  How a command gets from the caller to the loop is the     *)
(* subject of Supervisor.  A definition named after another one, _ and a   *)
(* few words is that definition with a mistake in it.                      *)
(***************************************************************************)
EXTENDS Integers, Sequences, FiniteSets, FiniteSetsExt, Functions

CONSTANTS
  MaxClicks,     \* bound: clicks in one behaviour
  WindowCycle,   \* the server numbers windows 1..WindowCycle, 1, ...
  MaxStateId,    \* bound: revisions of a window
  MaxPending,    \* MAX_PENDING_TRANSACTIONS
  MaxCompleted,  \* MAX_COMPLETED_TRANSACTIONS
  Timeout,       \* TRANSACTION_TIMEOUT_TICKS
  Buttons,       \* DragButton
  Scenes         \* bounds of which one is met: the kinds of click callers
                 \* make, the transaction ids a ControlHandle submits again,
                 \* how often the server sends start_configuration, and how
                 \* often it does that or opens a window

Clicks == 1..MaxClicks
Player == 0
NoWindow == [id |-> Player]
NoDrag == "none"
NoRequest == [window |-> Player]

\* The clicks a caller can ask for and what each becomes.  The six modes of
\* InventoryClick that are no drag are one here: they differ in what they do
\* to the slots, which the client leaves to the server.
GuiClick ==
  {"Left", "Right", "ShiftLeft", "ShiftRight", "HotbarSwap", "OffhandSwap", "ThrowOne",
   "ThrowStack", "DoubleClick", "OutsideLeft", "OutsideRight", "DragStart",
   "DragAddSlot", "DragEnd", "CreativeClone"}

into_inventory_click(click) ==
  CASE click = "DragStart" -> "drag_start"
    [] click = "DragAddSlot" -> "drag_add"
    [] click = "DragEnd" -> "drag_end"
    [] OTHER -> "plain"

InventoryClick == {into_inventory_click(click) : click \in GuiClick}
InventoryOutcome ==
  {"Sent", "Confirmed", "Corrected", "TimedOut", "WindowClosed", "Rejected"}
Answers ==
  InventoryOutcome \cup {"none", "NoGuiOpen", "UnknownWindow", "Disconnected", "GaveUp"}

ASSUME BoundAssumption ==
  /\ {MaxClicks, MaxStateId} \subseteq Nat
  /\ {WindowCycle, MaxPending, MaxCompleted, Timeout} \subseteq Nat \ {0}
ASSUME SceneAssumption ==
  \A s \in Scenes : /\ s.kinds \subseteq InventoryClick
                    /\ s.reused \subseteq Clicks
                    /\ {s.restarts, s.opens} \subseteq Nat

VARIABLES
  scene,      \* the member of Scenes
  player,     \* player_inventory: its revision
  open,       \* open_window, or NoWindow
  opens,      \* windows opened so far
  restarts,   \* reconfigurations so far
  drag,       \* the button of the drag in progress
  pending,    \* pending_transactions: id and ticks since it was queued
  completed,  \* completed_transactions
  alive,      \* the session's connection is up
  commands,   \* clicks on their way to the play loop
  request,    \* InventoryClickRequest
  call,       \* how far each caller is
  answer,     \* what inventory_click returned
  verdicts,   \* history: how each transaction ended, once per end
  target      \* history: the window a click was sent to

windowVars == <<player, open, opens, restarts, drag>>
transactionVars == <<pending, completed, verdicts, target>>
callerVars == <<request, call, answer>>
vars == <<scene, windowVars, transactionVars, alive, commands, callerVars>>

Init ==
  /\ scene \in Scenes
  /\ player = 0
  /\ open = NoWindow
  /\ opens = 0
  /\ restarts = 0
  /\ drag = NoDrag
  /\ pending = <<>>
  /\ completed = [r \in {} |-> "none"]
  /\ alive = TRUE
  /\ commands = <<>>
  /\ request = [r \in Clicks |-> NoRequest]
  /\ call = [r \in Clicks |-> "new"]
  /\ answer = [r \in Clicks |-> "none"]
  /\ verdicts = [r \in Clicks |-> <<>>]
  /\ target = [r \in Clicks |-> <<>>]

-----------------------------------------------------------------------------
(* The windows.                                                            *)

IsOpen(w) == w = Player \/ (open # NoWindow /\ open.id = w)
StateOf(w) == IF w = Player THEN player ELSE open.state

(* Which window of all those that ever had the id w is there now. *)
InstanceOf(w) == IF w = Player THEN <<Player, restarts>> ELSE <<w, opens>>

Refresh(w, s) ==
  IF w = Player THEN player' = s /\ UNCHANGED open
  ELSE open' = [open EXCEPT !.state = s] /\ UNCHANGED player

-----------------------------------------------------------------------------
(* How transactions end.                                                   *)

(* At the limit the outcome with the smallest id makes room. *)
Keep(done, r, outcome) ==
  LET kept == IF r \notin DOMAIN done /\ Cardinality(DOMAIN done) >= MaxCompleted
              THEN DOMAIN done \ {Min(DOMAIN done)} ELSE DOMAIN done IN
  [d \in kept \cup {r} |-> IF d = r THEN outcome ELSE done[d]]

(* finish_transaction if ids names t: what is left waiting, and the        *)
(* outcomes.                                                               *)
finish_transaction(state, t, ids, outcome) ==
  IF t.id \in ids
  THEN [left |-> state.left, done |-> Keep(state.done, t.id, outcome)]
  ELSE [left |-> Append(state.left, t), done |-> state.done]

FinishLoop(waiting, ids, outcome, done) ==
  LET loop[i \in 0..Len(waiting)] ==
        IF i = 0 THEN [left |-> <<>>, done |-> done]
        ELSE finish_transaction(loop[i - 1], waiting[i], ids, outcome)
  IN  loop

(* Those of waiting that ids names are finished in turn. *)
Finish(waiting, ids, outcome) ==
  LET last == FinishLoop(waiting, ids, outcome, completed)[Len(waiting)] IN
  /\ pending' = last.left
  /\ completed' = last.done
  /\ verdicts' = [r \in Clicks |-> IF r \in ids THEN Append(verdicts[r], outcome)
                                   ELSE verdicts[r]]
  /\ UNCHANGED target

Ids(s) == {s[i].id : i \in DOMAIN s}
OfWindow(w) == {r \in Ids(pending) : request[r].window = w}
finish_window_transactions(w, outcome) == Finish(pending, OfWindow(w), outcome)

(* Between two handlers every pending transaction is Sent. *)
finish_confirmed_transactions(w, s) ==
  Finish(pending, {r \in OfWindow(w) : s > request[r].state}, "Confirmed")

(* reject_transaction: recorded whether or not the id is known already.    *)
reject_transaction(r) ==
  /\ completed' = Keep(completed, r, "Rejected")
  /\ verdicts' = [verdicts EXCEPT ![r] = Append(@, "Rejected")]
  /\ UNCHANGED <<pending, target, drag>>

-----------------------------------------------------------------------------
(* A click reaches the play loop.                                          *)

HasRoom == Len(pending) < MaxPending
IsNew(r) == r \notin Ids(pending) /\ r \notin DOMAIN completed
IsCurrent(r) ==
  LET q == request[r] IN IsOpen(q.window) /\ q.state = StateOf(q.window)

(* Whether the slot is one of the window, the button one of the hotbar and *)
(* the game mode creative where it has to be is left open: valid.          *)
validate_click(q, valid) ==
  /\ valid
  /\ q.kind \in {"plain", "drag_start"} => drag = NoDrag
  /\ q.kind \in {"drag_add", "drag_end"} => drag = q.button

prepare_click_AnyWindow(r, valid) ==
  HasRoom /\ IsNew(r) /\ open # NoWindow /\ validate_click(request[r], valid)

prepare_click_Repeated(r, valid) ==
  HasRoom /\ IsCurrent(r) /\ validate_click(request[r], valid)

prepare_click(r, valid) ==
  HasRoom /\ IsNew(r) /\ IsCurrent(r) /\ validate_click(request[r], valid)

(* The packet goes out and mark_sent follows; the first phases of a drag   *)
(* are not answered and end at once.                                       *)
SendClick(r) ==
  LET q == request[r] IN
  /\ target' = [target EXCEPT ![r] = InstanceOf(q.window)]
  /\ drag' = CASE q.kind = "drag_start" -> q.button
               [] q.kind = "drag_end" -> NoDrag
               [] OTHER -> drag
  /\ IF q.kind \in {"drag_start", "drag_add"}
     THEN /\ completed' = Keep(completed, r, "Sent")
          /\ verdicts' = [verdicts EXCEPT ![r] = Append(@, "Sent")]
          /\ UNCHANGED pending
     ELSE /\ pending' = Append(pending, [id |-> r, age |-> 0])
          /\ UNCHANGED <<completed, verdicts>>

send_inventory_click(valid) ==
  LET r == Head(commands) IN
  /\ alive
  /\ commands # <<>>
  /\ commands' = Tail(commands)
  /\ IF prepare_click(r, valid) THEN SendClick(r) ELSE reject_transaction(r)
  /\ UNCHANGED <<player, open, opens, restarts, alive, callerVars>>

-----------------------------------------------------------------------------
(* Packets of the server.                                                  *)

OpenWindow(w, ended) ==
  /\ alive
  /\ opens + restarts < scene.opens
  /\ w = (opens % WindowCycle) + 1
  /\ open' = [id |-> w, state |-> 0]
  /\ opens' = opens + 1
  /\ drag' = NoDrag
  /\ Finish(pending, ended, "WindowClosed")
  /\ UNCHANGED <<player, restarts, alive, commands, callerVars>>

open_window_KeepPending(w) == OpenWindow(w, {})

(* A window that is still open is closed first. *)
open_window(w) == OpenWindow(w, IF open = NoWindow THEN {} ELSE OfWindow(open.id))

(* The server's close_window, or our own after send_close_gui. *)
close_window ==
  /\ alive
  /\ open # NoWindow
  /\ open' = NoWindow
  /\ drag' = NoDrag
  /\ finish_window_transactions(open.id, "WindowClosed")
  /\ UNCHANGED <<player, opens, restarts, alive, commands, callerVars>>

window_items(w, s) ==
  /\ alive
  /\ IsOpen(w)
  /\ Refresh(w, s)
  /\ finish_window_transactions(w, "Corrected")
  /\ UNCHANGED <<opens, restarts, drag, alive, commands, callerVars>>

(* The packet for a slot that does not exist still brings the revision.    *)
set_slot(w, s, valid) ==
  /\ alive
  /\ IsOpen(w)
  /\ Refresh(w, s)
  /\ IF valid THEN finish_confirmed_transactions(w, s) ELSE UNCHANGED transactionVars
  /\ UNCHANGED <<opens, restarts, drag, alive, commands, callerVars>>

(* start_configuration: a PlayState of its own follows, in the same        *)
(* session and with the commands that wait for it.  Until its first        *)
(* handler the old snapshot stays published; reading it then is reading it *)
(* before this step, as the loop takes no command in between.              *)
Reconfigure ==
  /\ alive
  /\ restarts < scene.restarts /\ opens + restarts < scene.opens
  /\ restarts' = restarts + 1
  /\ player' = 0
  /\ open' = NoWindow
  /\ drag' = NoDrag
  /\ pending' = <<>>
  /\ completed' = [r \in {} |-> "none"]
  /\ UNCHANGED <<opens, verdicts, target, alive, commands, callerVars>>

SessionEnds ==
  /\ alive
  /\ alive' = FALSE
  /\ UNCHANGED <<windowVars, transactionVars, commands, callerVars>>

Aged == [i \in 1..Len(pending) |-> [pending[i] EXCEPT !.age = @ + 1]]

TickThen(waiting, expired) ==
  /\ alive
  /\ pending # <<>>
  /\ Finish(waiting, expired, "TimedOut")
  /\ UNCHANGED <<windowVars, alive, commands, callerVars>>

expire_transactions_ClockStopped == TickThen(pending, {})

(* clock.advance() and expire_transactions; a tick with nothing pending    *)
(* changes nothing here.                                                   *)
expire_transactions ==
  TickThen(Aged, {Aged[i].id : i \in {j \in DOMAIN Aged : Aged[j].age >= Timeout}})

-----------------------------------------------------------------------------
(* The callers.                                                            *)

Return(r, a) ==
  /\ call' = [call EXCEPT ![r] = "done"]
  /\ answer' = [answer EXCEPT ![r] = a]

(* click_open_gui_slot takes the window the snapshot shows; its callers    *)
(* use their transaction ids in turn.                                      *)
PickWindow(r, w) ==
  /\ call[r] = "new"
  /\ \A s \in Clicks : s < r => call[s] # "new"
  /\ w \in {Player, open.id}
  /\ request' = [request EXCEPT ![r].window = w]
  /\ call' = [call EXCEPT ![r] = "picked"]
  /\ UNCHANGED <<windowVars, transactionVars, alive, commands, answer>>

NoGuiOpen(r) ==
  /\ call[r] = "new"
  /\ \A s \in Clicks : s < r => call[s] # "new"
  /\ open = NoWindow
  /\ Return(r, "NoGuiOpen")
  /\ UNCHANGED <<windowVars, transactionVars, alive, commands, request>>

(* inventory_click_in_generation reads the revision and sends the command. *)
Submit(r, kind, button) ==
  LET w == request[r].window IN
  /\ call[r] = "picked"
  /\ IF IsOpen(w)
     THEN /\ request' = [request EXCEPT ![r] =
                           [window |-> w, state |-> StateOf(w), kind |-> kind,
                            button |-> button, saw |-> InstanceOf(w)]]
          /\ call' = [call EXCEPT ![r] = "waiting"]
          /\ commands' = Append(commands, r)
          /\ UNCHANGED answer
     ELSE Return(r, "UnknownWindow") /\ UNCHANGED <<request, commands>>
  /\ UNCHANGED <<windowVars, transactionVars, alive>>

(* ControlHandle::inventory_click with a request made before; bounded to   *)
(* ids that have not ended when they are submitted again.                  *)
Resubmit(r) ==
  /\ r \in scene.reused
  /\ call[r] = "waiting"
  /\ r \notin Range(commands)
  /\ verdicts[r] = <<>>
  /\ commands' = Append(commands, r)
  /\ UNCHANGED <<windowVars, transactionVars, alive, callerVars>>

Outcome_Oldest(r) ==
  /\ call[r] = "waiting"
  /\ DOMAIN completed # {}
  /\ Return(r, completed[Min(DOMAIN completed)])
  /\ UNCHANGED <<windowVars, transactionVars, alive, commands, request>>

(* wait_for_inventory_outcome: the outcome, else the state of the session, *)
(* else the caller's own timeout.                                          *)
Outcome(r) ==
  /\ call[r] = "waiting"
  /\ r \in DOMAIN completed
  /\ Return(r, completed[r])
  /\ UNCHANGED <<windowVars, transactionVars, alive, commands, request>>

Disconnected(r) ==
  /\ call[r] = "waiting"
  /\ r \notin DOMAIN completed
  /\ ~ alive
  /\ Return(r, "Disconnected")
  /\ UNCHANGED <<windowVars, transactionVars, alive, commands, request>>

GiveUp(r) ==
  /\ call[r] = "waiting"
  /\ Return(r, "GaveUp")
  /\ UNCHANGED <<windowVars, transactionVars, alive, commands, request>>

Server ==
  \/ \E w \in 1..WindowCycle : open_window(w)
  \/ close_window
  \/ \E w \in 0..WindowCycle, s \in 0..MaxStateId :
       window_items(w, s) \/ \E valid \in BOOLEAN : set_slot(w, s, valid)
  \/ Reconfigure
  \/ SessionEnds

Caller(r) ==
  \/ \E w \in 0..WindowCycle : PickWindow(r, w)
  \/ NoGuiOpen(r)
  \/ \E kind \in scene.kinds, button \in Buttons : Submit(r, kind, button)
  \/ Resubmit(r)
  \/ Outcome(r) \/ Disconnected(r) \/ GiveUp(r)

Handle == \E valid \in BOOLEAN : send_inventory_click(valid)

Next ==
  /\ Server \/ Handle \/ expire_transactions \/ \E r \in Clicks : Caller(r)
  /\ UNCHANGED scene

Spec == Init /\ [][Next]_vars

(* The play loop's select! takes commands and ticks as they come; nothing  *)
(* is assumed of the server.                                               *)
FairSpec ==
  /\ Spec
  /\ WF_vars(Handle /\ UNCHANGED scene)
  /\ WF_vars(expire_transactions /\ UNCHANGED scene)

-----------------------------------------------------------------------------
Sent == {r \in Clicks : target[r] # <<>>}

(* A pending transaction is one of a window that is still there: the very  *)
(* window its packet went to, not a later one with the same id.  Nothing   *)
(* that replaces, closes or resets a window leaves one behind to be        *)
(* confirmed by another window's updates.                                  *)
PendingHasItsWindow ==
  \A i \in DOMAIN pending :
    LET r == pending[i].id IN
    IsOpen(request[r].window) /\ target[r] = InstanceOf(request[r].window)

(* A transaction ends once: an id is not pending and ended at a time, and  *)
(* is not ended by two of the events that can end it.  An id submitted     *)
(* again is refused, and so gets an outcome of its own each time, but is   *)
(* not pending twice: finish_transaction takes one entry out.              *)
EndsOnce ==
  /\ \A r \in Clicks \ scene.reused :
       Len(verdicts[r]) <= 1 /\ ~ (r \in Ids(pending) /\ r \in DOMAIN completed)
  /\ \A i, j \in DOMAIN pending : pending[i].id = pending[j].id => i = j

(* A click in a container goes to the very window whose revision its       *)
(* caller read, whatever the server closed and opened before the click     *)
(* reached the play loop, unless the server came round to the same window  *)
(* id meanwhile: the id and the revision are all a click carries.          *)
ClickHitsTheWindowSeen ==
  \A r \in Sent : LET seen == request[r].saw IN
    request[r].window # Player =>
      target[r] = seen \/ target[r][2] - seen[2] >= WindowCycle

(* What a caller is told is how its own transaction ended.                 *)
AnswerIsTheVerdict ==
  \A r \in Clicks : answer[r] \in InventoryOutcome => answer[r] \in Range(verdicts[r])

(* A click on its way through the loop of a session that lasts.            *)
Underway(r) ==
  /\ alive /\ restarts = 0
  /\ r \in Range(commands) \cup Ids(pending) /\ verdicts[r] = <<>>

(* Every click that reaches the loop of a session that lasts is answered,  *)
(* by the server or by the timeout: none is lost on its way, and nothing   *)
(* stays pending.                                                          *)
EveryClickEnds ==
  /\ [][\A r \in Clicks :
          Underway(r) =>
            Underway(r)' \/ verdicts'[r] # <<>> \/ restarts' > 0 \/ ~ alive']_vars
  /\ \A r \in Clicks : []<>~ Underway(r)
=============================================================================
