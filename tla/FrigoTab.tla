------------------------------- MODULE FrigoTab -------------------------------
(***************************************************************************)
(* FrigoTab as a whole: the keyboard hook (KeyHook) on its thread, the     *)
(* queue of key inputs that Dispatcher implements, and the controller      *)
(* (Switcher) that composition/app.rs drives on the UI thread.             *)
(*                                                                         *)
(* The two sides share no state but the hook's, under its lock.  Between   *)
(* the controller's answer to a message and the hook calls App makes       *)
(* because of it, the hook thread goes on taking keys.                     *)
(***************************************************************************)
EXTENDS Integers, Sequences, FiniteSets

CONSTANTS
  Keys, HeldAtStart, RepeatingAtStart,  \* the keyboard, see KeyHook
  SendInputMayFail, Interruptions,
  MaxCandidates, NativeMayFail, Denial, \* the native session, see Switcher
  Capacity,                             \* DISPATCH_CAPACITY
  PostMayFail                           \* whether PostMessageW may fail

ASSUME FrigoTabAssumption ==
  Capacity \in Nat \ {0} /\ PostMayFail \in BOOLEAN

VARIABLES
  phys, typematic, target, seen, stray, abandoned,
  mods, consumed, active, deferredAlt, deferredShift, altForwarded, blocked,
  disposed, gestureShift, hook, ui,
  state, candidateCount, selectedIndex, consumedKeys, behavior, handling, graph,
  queue,     \* dispatched inputs on their way to the UI thread
  calls,     \* calls on the hook the UI thread's handler has yet to make
  reported   \* App::reported_session_visibility

Hook == INSTANCE KeyHook
Controller == INSTANCE Switcher WITH Keys <- Hook!SwitcherKeys

ASSUME HookAssumption == Hook!KeysAssumption

hookVars == <<phys, typematic, target, seen, stray, abandoned, mods, consumed,
              active, deferredAlt, deferredShift, altForwarded, blocked,
              disposed, gestureShift, hook, ui>>
controllerVars == <<state, candidateCount, selectedIndex, consumedKeys,
                    behavior, handling, graph>>
appVars == <<calls, reported>>
vars == <<hookVars, controllerVars, queue, appVars>>

Init ==
  /\ Hook!Init /\ Controller!Init
  /\ queue = <<>> /\ calls = <<>> /\ reported = FALSE

-----------------------------------------------------------------------------
(* The queue, with the slots of forgotten inputs still taken up.           *)

Input(k, d) ==
  [key |-> Hook!KeyOf(k), transition |-> d, injected |-> FALSE,
   alt |-> Hook!AltSnapshot(k, d), shift |-> Hook!ShiftSnapshot(k, d)]

\* is_session_ending_input; Escape stands for Alt+F4 too.
EndsSession(input) ==
  <<input.key, input.transition>> \in {<<"Alt", "up">>, <<"Escape", "down">>}

\* Mutant: no slot is kept for an input that ends a session.
LimitWithoutReserve(input) == Capacity

Limit(input) == IF EndsSession(input) THEN Capacity + 1 ELSE Capacity

Accept(input) ==
  /\ Len(queue) < Limit(input)
  /\ queue' = Append(queue, [input |-> input, live |-> TRUE])

Refuse(input) ==
  /\ Len(queue) >= Limit(input) \/ PostMayFail
  /\ UNCHANGED queue

\* invalidate_pending.
Forget ==
  queue' = [i \in DOMAIN queue |-> [input |-> queue[i].input, live |-> FALSE]]

-----------------------------------------------------------------------------
(* The hook thread.                                                        *)

TakeKey(k, d) ==
  /\ Hook!DispatchedKey(k, d)
  /\ Accept(Input(k, d)) \/ Refuse(Input(k, d))
  /\ UNCHANGED <<controllerVars, appVars>>

AdmitSession(k, d) ==
  /\ \/ Hook!AdmittingKey(k, d, TRUE) /\ Accept(Input(k, d))
     \/ Hook!AdmittingKey(k, d, FALSE) /\ Refuse(Input(k, d))
  /\ UNCHANGED <<controllerVars, appVars>>

KeepKey(k, d) ==
  /\ Hook!QuietKey(k, d)
  /\ UNCHANGED <<controllerVars, queue, appVars>>

FinishSending ==
  /\ Hook!FinishReplay \/ Hook!FinishRecovery
  /\ UNCHANGED <<controllerVars, queue, appVars>>

-----------------------------------------------------------------------------
(* The UI thread: a handler of the controller, then the hook calls it      *)
(* leads to, each under the hook's lock.                                   *)

Sync == [call |-> "sync", shift |-> FALSE]
Reset == [call |-> "reset", shift |-> FALSE]
Drop == [call |-> "drop", shift |-> FALSE]
CancelAdmission(shift) == [call |-> "cancel", shift |-> shift]

UiFree == calls = <<>> /\ ui = <<>> /\ ~disposed

\* A message handler ends in these calls.
Handler(then) ==
  /\ UiFree
  /\ calls' = then
  /\ UNCHANGED <<hookVars, reported>>

\* Mutant: a Tab that opened nothing is not given back.
HandleKeyKeeping ==
  /\ queue # <<>> /\ Head(queue).live
  /\ queue' = Tail(queue)
  /\ Controller!HandleKeyboard(Head(queue).input)
  /\ Handler(<<Sync>>)

\* App::handle_keyboard within KeyHook::dispatch_ui_message.
HandleKey ==
  /\ queue # <<>> /\ Head(queue).live
  /\ queue' = Tail(queue)
  /\ LET input == Head(queue).input
     IN /\ Controller!HandleKeyboard(input)
        /\ Handler(IF handling' = "PassThrough" /\ Controller!Opens(input)
                     THEN <<Sync, CancelAdmission(input.shift)>> ELSE <<Sync>>)

\* A callback from before an invalidation only gives its slot back.
SkipForgotten ==
  /\ UiFree
  /\ queue # <<>> /\ ~Head(queue).live
  /\ queue' = Tail(queue)
  /\ UNCHANGED <<hookVars, controllerVars, appVars>>

HandlePointerOrTimer ==
  Controller!PointerOrTimer /\ Handler(<<Sync>>) /\ UNCHANGED queue

\* deactivate_session.
LoseForeground ==
  /\ state = "Visible"
  /\ Controller!CloseSession /\ Handler(<<Sync>>) /\ UNCHANGED queue

\* Mutant: an interruption gives the keyboard back and leaves the session.
DesktopInterruptsLeaving ==
  /\ Interruptions
  /\ UNCHANGED controllerVars /\ Handler(<<Reset, Sync>>) /\ UNCHANGED queue

\* App::interrupt.
DesktopInterrupts ==
  /\ Interruptions
  /\ Controller!Interrupt /\ Handler(<<Reset, Sync>>) /\ UNCHANGED queue

\* App::relayout that ends the session.
RelayoutFails ==
  /\ Interruptions
  /\ Controller!RelayoutFails /\ Handler(<<Reset, Sync>>) /\ UNCHANGED queue

ChangeBehavior ==
  /\ \E mode \in {"Sticky", "Tap"} : Controller!SetBehavior(mode)
  /\ Handler(<<>>) /\ UNCHANGED queue

\* close_for_shutdown.
ShutDown ==
  Controller!CloseSession /\ Handler(<<Sync, Drop>>) /\ UNCHANGED queue

\* The next call of the handler.
Calls(name) ==
  /\ calls # <<>> /\ Head(calls).call = name
  /\ calls' = Tail(calls)
  /\ UNCHANGED controllerVars

\* Mutant: the hook hears of a close only if the session was closed by a key.
SyncOnOpen ==
  /\ Calls("sync")
  /\ LET visible == state = "Visible"
     IN /\ reported' = visible
        /\ IF visible /\ ~reported
             THEN Hook!SetSessionVisible(visible) ELSE UNCHANGED hookVars
        /\ UNCHANGED queue

\* sync_session_visibility.
SyncVisibility ==
  /\ Calls("sync")
  /\ LET visible == state = "Visible"
     IN /\ reported' = visible
        /\ IF visible # reported
             THEN Hook!SetSessionVisible(visible) ELSE UNCHANGED hookVars
        /\ IF reported /\ ~visible THEN Forget ELSE UNCHANGED queue

ResetHook ==
  /\ Calls("reset")
  /\ Hook!ResetInputState /\ Forget
  /\ UNCHANGED reported

\* Mutant: the gesture is given back as Shift+Tab whatever it was.
GiveGestureBackShifted ==
  /\ Calls("cancel")
  /\ Hook!CancelAdmission(TRUE) /\ Forget
  /\ UNCHANGED reported

GiveGestureBack ==
  /\ Calls("cancel")
  /\ Hook!CancelAdmission(Head(calls).shift) /\ Forget
  /\ UNCHANGED reported

SendGestureBack ==
  /\ Hook!SendOwnerRecovery
  /\ UNCHANGED <<controllerVars, queue, appVars>>

DropHook ==
  /\ Calls("drop")
  /\ Hook!Dispose
  /\ queue' = <<>>
  /\ UNCHANGED reported

-----------------------------------------------------------------------------
UiProgress ==
  \/ SyncVisibility \/ ResetHook \/ GiveGestureBack \/ SendGestureBack
  \/ DropHook

Next ==
  \/ \E k \in Keys, d \in {"down", "up"} :
       TakeKey(k, d) \/ AdmitSession(k, d) \/ KeepKey(k, d)
  \/ FinishSending
  \/ HandleKey \/ SkipForgotten
  \/ HandlePointerOrTimer \/ LoseForeground \/ DesktopInterrupts
  \/ RelayoutFails \/ ChangeBehavior \/ ShutDown
  \/ UiProgress

Spec == Init /\ [][Next]_vars

\* The UI thread finishes a handler it began, and posted keys come before new
\* input and timers.
FairSpec ==
  /\ Spec
  /\ WF_vars(UiProgress)
  /\ SF_vars(HandleKey) /\ SF_vars(SkipForgotten)
  /\ WF_vars(FinishSending)

-----------------------------------------------------------------------------
(* Properties.                                                             *)

\* Queue entries, pending calls and the reported visibility have their types.
TypeOK ==
  /\ queue \in Seq([input : Controller!KeyInput, live : BOOLEAN])
  /\ Len(queue) <= Capacity + 1
  /\ calls \in Seq([call : {"sync", "reset", "drop", "cancel"}, shift : BOOLEAN])
  /\ reported \in BOOLEAN

\* Quarantine (docs/requirements.md, "Keyboard balance"): as long as a session
\* is visible the hook keeps the keyboard from the application beneath it.
VisibleIsGuarded == state = "Visible" => active

\* And the hook keeps it for nothing else: it swallows keys only for a visible
\* session, for one about to be told it closed, or for an Alt+Tab that is on
\* its way to the controller or is about to be given back.
GuardHasReason ==
  active =>
    \/ state = "Visible"
    \/ calls # <<>>
    \/ \E i \in DOMAIN queue :
         queue[i].live /\ Controller!Opens(queue[i].input)

\* The UI thread calls the hook only in the order KeyHook assumes: what holds
\* of KeyHook holds of the hook as FrigoTab drives it.
DrivesHook == Hook!Spec

\* Tap (docs/requirements.md, "Tap (classic) Alt release"): where Tap is chosen
\* and every session keeps something selected, a session ends once Alt is up;
\* the release gets there even if Alt was let go before the session was shown.
TapEnds ==
  [](behavior = "Tap" /\ (state = "Visible" => selectedIndex # -1)) =>
    ((state = "Visible" /\ phys \cap Hook!Alts = {})
       ~> (state = "Idle" \/ phys \cap Hook!Alts # {}))

\* An admitted Alt+Tab is answered: a session is shown or the hook lets go.
AdmissionAnswered == active ~> (state = "Visible" \/ ~active)
=============================================================================
