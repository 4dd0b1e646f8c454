------------------------------- MODULE Switcher -------------------------------
(***************************************************************************)
(* The controller of a switcher session (switcher_application.rs) against  *)
(* its port, the native session (switcher_session_port.rs).  Every handler *)
(* runs on the UI thread to its end; the port's answer to each native call *)
(* is a free choice among those the trait allows.                          *)
(*                                                                         *)
(* "graph" is the port's side of the session: how many previews it shows   *)
(* and which of them is drawn as selected.  The controller never reads it, *)
(* yet what a commit activates is the port's selection, not its own.       *)
(***************************************************************************)
EXTENDS Integers, FiniteSets

CONSTANTS
  MaxCandidates,  \* bound: previews in a session
  Keys,           \* SwitcherKeys that reach the controller
  NativeMayFail,  \* whether calls of the port may fail
  Denial          \* whether the foreground may be denied to the chosen window

ASSUME SwitcherAssumption ==
  /\ MaxCandidates \in Nat \ {0}
  /\ NativeMayFail \in BOOLEAN /\ Denial \in BOOLEAN

VARIABLES
  state,           \* SwitcherState
  candidateCount,  \* candidate_count
  selectedIndex,   \* selected_index
  consumedKeys,    \* consumed_keys
  behavior,        \* alt_tab_behavior
  handling,        \* the answer to the last key
  graph            \* the port's previews and its selection

session   == <<state, candidateCount, selectedIndex, graph>>
switcherVars == <<session, consumedKeys, behavior, handling>>

NoIndex == -1
Indexes == 0 .. MaxCandidates - 1
NoGraph == [count |-> 0, selected |-> NoIndex]

\* Keys as KeyboardInput presents them.
KeyInput == [key : Keys, transition : {"down", "up"},
             alt : BOOLEAN, shift : BOOLEAN, injected : BOOLEAN]

\* D1 .. D9 and NumPad1 .. NumPad9.
Digits  == <<"D1", "D2", "D3", "D4", "D5", "D6", "D7", "D8", "D9">>
NumPads == <<"NumPad1", "NumPad2", "NumPad3", "NumPad4", "NumPad5", "NumPad6",
             "NumPad7", "NumPad8", "NumPad9">>
ChoosesDigit(key, index) == key \in {Digits[index + 1], NumPads[index + 1]}
IsDigit(key) == \E index \in 0 .. 8 : ChoosesDigit(key, index)

Init ==
  /\ state = "Idle" /\ candidateCount = 0 /\ selectedIndex = NoIndex
  /\ graph = NoGraph
  /\ consumedKeys = {}
  /\ behavior \in {"Sticky", "Tap"}
  /\ handling = "PassThrough"

-----------------------------------------------------------------------------
(* The port and the shared steps of the handlers.                          *)

IsDown(input, key) == input.transition = "down" /\ input.key = key
IsValid(index) == index \in 0 .. candidateCount - 1

\* close and reset_state.
Close ==
  /\ state' = "Idle" /\ candidateCount' = 0 /\ selectedIndex' = NoIndex
  /\ graph' = NoGraph

\* A native call fails, and with it the session.
FailAndClose == NativeMayFail /\ Close

Choose(index) ==
  /\ selectedIndex' = index
  /\ graph' = [graph EXCEPT !.selected = index]
  /\ UNCHANGED <<state, candidateCount>>

\* try_select, which leaves an index without a candidate alone.
TrySelect(index) ==
  IF IsValid(index) THEN Choose(index) \/ FailAndClose ELSE UNCHANGED session

\* try_clear_selection.
ClearSelection == Choose(NoIndex) \/ FailAndClose

\* try_commit_selection: an activation that is denied leaves the session for
\* another try; without a selection nothing is activated.
TryCommit ==
  \/ selectedIndex # NoIndex /\ Close
  \/ (selectedIndex = NoIndex \/ Denial) /\ UNCHANGED session

\* try_select and then try_commit_selection.
SelectAndCommit(index) == Close \/ (Denial /\ Choose(index))

\* The candidate after this one; from outside every candidate, the first or
\* the last.
Neighbour(index, backward) ==
  CASE index = NoIndex -> IF backward THEN candidateCount - 1 ELSE 0
    [] backward        -> IF index = 0 THEN candidateCount - 1 ELSE index - 1
    [] OTHER           -> IF index + 1 >= candidateCount THEN 0 ELSE index + 1

-----------------------------------------------------------------------------
(* handle_keyboard.                                                        *)

\* The answer, and the ledger of presses whose release is the switcher's.
Answer(input, answer) ==
  /\ handling' = answer
  /\ consumedKeys' = IF input.transition = "down" /\ answer = "Consume"
                       THEN consumedKeys \cup {input.key} ELSE consumedKeys
  /\ UNCHANGED behavior

IgnoreInjected(input) ==
  /\ input.injected
  /\ handling' = "PassThrough"
  /\ UNCHANGED <<session, consumedKeys, behavior>>

ConsumeRelease(input) ==
  /\ ~input.injected
  /\ input.transition = "up" /\ input.key \in consumedKeys
  /\ consumedKeys' = consumedKeys \ {input.key}
  /\ handling' = "Consume"
  /\ UNCHANGED <<session, behavior>>

\* The input reaches handle_idle_keyboard or handle_visible_keyboard.
Reaches(input, where) ==
  /\ ~input.injected
  /\ ~(input.transition = "up" /\ input.key \in consumedKeys)
  /\ state = where

Opens(input) == IsDown(input, "Tab") /\ input.alt

\* try_open: the session is published once its first preview is selected.
Open(input) ==
  /\ Reaches(input, "Idle") /\ Opens(input)
  /\ \E count \in 1 .. MaxCandidates :
       /\ state' = "Visible" /\ candidateCount' = count /\ selectedIndex' = 0
       /\ graph' = [count |-> count, selected |-> 0]
  /\ Answer(input, "Consume")

\* There is no candidate, or a native call fails.
OpenNothing(input) ==
  /\ Reaches(input, "Idle") /\ Opens(input)
  /\ Close
  /\ Answer(input, "PassThrough")

PassIdle(input) ==
  /\ Reaches(input, "Idle") /\ ~Opens(input)
  /\ UNCHANGED session
  /\ Answer(input, "PassThrough")

MoveSelection(input) ==
  /\ Reaches(input, "Visible") /\ Opens(input)
  /\ TrySelect(Neighbour(selectedIndex, input.shift))
  /\ Answer(input, "Consume")

\* Escape and Alt+F4.
Cancel(input) ==
  /\ Reaches(input, "Visible")
  /\ IsDown(input, "Escape") \/ (IsDown(input, "F4") /\ input.alt)
  /\ Close
  /\ Answer(input, "Consume")

\* A digit selects its candidate and activates it; one without a candidate is
\* taken and does nothing.
PickDigit(input) ==
  /\ Reaches(input, "Visible")
  /\ \E index \in 0 .. 8 :
       /\ IsDown(input, input.key) /\ ChoosesDigit(input.key, index)
       /\ IF IsValid(index) THEN SelectAndCommit(index)
                            ELSE UNCHANGED session
  /\ Answer(input, "Consume")

ReleaseAlt(input) ==
  /\ Reaches(input, "Visible")
  /\ input.transition = "up" /\ input.key = "Alt"
  /\ IF behavior = "Tap" THEN TryCommit ELSE UNCHANGED session
  /\ Answer(input, "Consume")

PassVisible(input) ==
  /\ Reaches(input, "Visible")
  /\ IF input.transition = "up" THEN input.key # "Alt"
     ELSE /\ ~Opens(input) /\ input.key # "Escape" /\ ~IsDigit(input.key)
          /\ ~(input.key = "F4" /\ input.alt)
  /\ UNCHANGED session
  /\ Answer(input, "PassThrough")

HandleKeyboard(input) ==
  \/ IgnoreInjected(input) \/ ConsumeRelease(input)
  \/ Open(input) \/ OpenNothing(input) \/ PassIdle(input)
  \/ MoveSelection(input) \/ Cancel(input) \/ PickDigit(input)
  \/ ReleaseAlt(input) \/ PassVisible(input)

-----------------------------------------------------------------------------
(* The pointer, the timers and the desktop.                                *)

Quiet == UNCHANGED <<consumedKeys, behavior, handling>>

\* handle_mouse_move over a preview, or over none.
MouseMove(hit) ==
  /\ state = "Visible"
  /\ Choose(hit) \/ FailAndClose
  /\ Quiet

\* handle_mouse_leave: only the hover changes, or the redraw fails.
MouseLeave ==
  /\ state = "Visible"
  /\ FailAndClose
  /\ Quiet

\* handle_mouse_click on a close button or on the background.
ClickBeside ==
  /\ state = "Visible"
  /\ ClearSelection
  /\ Quiet

\* handle_mouse_click on a preview.
ClickPreview(index) ==
  /\ state = "Visible"
  /\ SelectAndCommit(index)
  /\ Quiet

\* close: foreground loss, shutdown.
CloseSession == Close /\ Quiet

\* interrupt: the ledger goes with the session.
Interrupt ==
  /\ Close
  /\ consumedKeys' = {}
  /\ UNCHANGED <<behavior, handling>>

\* Mutant: the selection is not brought back among the candidates.
RelayoutUnclamped(count) ==
  /\ state = "Visible"
  /\ candidateCount' = count /\ selectedIndex' = selectedIndex
  /\ graph' = [count |-> count,
               selected |-> IF selectedIndex < count THEN selectedIndex
                            ELSE count - 1]
  /\ UNCHANGED state /\ Quiet

\* relayout: the port keeps the selection, or the last preview for it.
Relayout(count) ==
  /\ state = "Visible"
  /\ LET selected == IF selectedIndex < count THEN selectedIndex ELSE count - 1
     IN /\ candidateCount' = count /\ selectedIndex' = selected
        /\ graph' = [count |-> count, selected |-> selected]
  /\ UNCHANGED state /\ Quiet

\* relayout with an error or with nothing to show.
RelayoutFails == state = "Visible" /\ Interrupt

\* Mutant: the selection moves up with the previews, even when there is none.
RefreshShifting(count) ==
  /\ state = "Visible"
  /\ candidateCount' = count /\ selectedIndex' = selectedIndex - 1
  /\ graph' = [count |-> count, selected |-> selectedIndex - 1]
  /\ UNCHANGED state /\ Quiet

\* refresh_closed_applications with a replacement.
Refresh(count) ==
  /\ state = "Visible"
  /\ candidateCount' = count /\ selectedIndex' = NoIndex
  /\ graph' = [count |-> count, selected |-> NoIndex]
  /\ UNCHANGED state /\ Quiet

\* refresh_closed_applications: the last candidate is gone, or an error.
RefreshEmpty == state = "Visible" /\ CloseSession

\* The tray changes what a released Alt does.
SetBehavior(mode) ==
  /\ behavior' = mode /\ mode # behavior
  /\ UNCHANGED <<session, consumedKeys, handling>>

\* Handlers other than the keyboard's that leave the ledger alone.
PointerOrTimer ==
  \/ \E hit \in Indexes \cup {NoIndex} :
       (hit = NoIndex \/ IsValid(hit)) /\ MouseMove(hit)
  \/ \E index \in Indexes : IsValid(index) /\ ClickPreview(index)
  \/ MouseLeave \/ ClickBeside \/ RefreshEmpty
  \/ \E count \in 1 .. MaxCandidates : Relayout(count) \/ Refresh(count)

Next ==
  \/ \E input \in KeyInput : HandleKeyboard(input)
  \/ PointerOrTimer
  \/ CloseSession \/ Interrupt \/ RelayoutFails
  \/ \E mode \in {"Sticky", "Tap"} : SetBehavior(mode)

Spec == Init /\ [][Next]_switcherVars

-----------------------------------------------------------------------------
(* Properties.                                                             *)

\* The controller's and the port's variables have their types.
TypeOK ==
  /\ state \in {"Idle", "Visible"}
  /\ candidateCount \in 0 .. MaxCandidates
  /\ selectedIndex \in Indexes \cup {NoIndex}
  /\ consumedKeys \subseteq Keys
  /\ behavior \in {"Sticky", "Tap"}
  /\ handling \in {"Consume", "PassThrough"}
  /\ graph \in [count : 0 .. MaxCandidates, selected : Indexes \cup {NoIndex}]

\* The controller and the native session never part: a session is visible
\* exactly while previews are shown, as many as the controller counts, and
\* the preview a commit would activate is the one the controller has selected.
PortAgrees ==
  /\ state = "Visible" <=> candidateCount > 0
  /\ graph.count = candidateCount
  /\ graph.selected = selectedIndex
  /\ selectedIndex # NoIndex => IsValid(selectedIndex)

\* The controller's side of SessionPort: whatever is typed, clicked or timed,
\* and whatever fails, a step does to the session one of the few things the
\* port promises.
Port == INSTANCE SessionPort
ImplementsPort == Port!Spec

=============================================================================
