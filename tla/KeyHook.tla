------------------------------- MODULE KeyHook -------------------------------
(***************************************************************************)
(* The keyboard hook of FrigoTab: the WH_KEYBOARD_LL callback              *)
(* (input/key_hook.rs), the modifier and release ledgers it keeps          *)
(* (keyboard_modifier_state.rs, keyboard_suppression_state.rs) and the     *)
(* entry points the UI thread calls on it.  The module describes what each *)
(* physical key transition becomes: swallowed, let through, or replayed    *)
(* with SendInput.                                                         *)
(*                                                                         *)
(* Two threads touch the state.  The hook thread runs one callback at a    *)
(* time; a callback that replays or recovers works in two lock regions     *)
(* with SendInput between them, so "hook" records what it still has to     *)
(* send and steps of the UI thread may come in between.  The UI thread's   *)
(* own recovery (after a failed open) likewise unlocks before SendInput.   *)
(*                                                                         *)
(* "target" is external: the keys Windows and the foreground application   *)
(* believe to be down, given everything that was let through or injected.  *)
(***************************************************************************)
EXTENDS Naturals, Sequences, FiniteSets

CONSTANTS
  Keys,             \* the physical keys of the keyboard
  HeldAtStart,      \* keys that may be down when the hook is installed
  RepeatingAtStart, \* those of them that may be auto-repeating
  SendInputMayFail, \* whether SendInput may insert only part of its input
  Interruptions     \* whether a desktop interruption may reset the hook

Alts   == {"LAlt", "RAlt"}
Shifts == {"LShift", "RShift"}
Ctrls  == {"LCtrl", "RCtrl"}
Modifiers == Alts \cup Shifts \cup Ctrls

\* "Alt" stands for VK_MENU, which no physical key reports: in the modifier
\* state it is the sentinel for an Alt the hook never saw go down.
AltSentinel == "Alt"

None == "none"

\* The virtual keys told apart, and the SwitcherKey each maps to; "K" is any
\* key FrigoTab has no use for.  The digits behave alike, as do Escape and F4.
Vk == Modifiers \cup {"Tab", "Escape", "D1", "K"}

KeyOf(k) == CASE k \in Alts   -> "Alt"
              [] k \in Shifts -> "Shift"
              [] k \in {"Tab", "Escape", "D1"} -> k
              [] OTHER        -> "Unknown"

SwitcherKeys == {"Alt", "Shift", "Tab", "Escape", "D1"}

ASSUME KeysAssumption ==
  /\ Keys \subseteq Vk
  /\ HeldAtStart \subseteq Keys
  /\ RepeatingAtStart \subseteq HeldAtStart
  /\ SendInputMayFail \in BOOLEAN
  /\ Interruptions \in BOOLEAN

Down(k) == <<k, "down">>
Up(k)   == <<k, "up">>
Event   == Vk \X {"down", "up"}

\* A part of a sequence that is there only on a condition.
When(c, s) == IF c THEN s ELSE <<>>

VARIABLES
  phys,          \* keys physically held
  typematic,     \* the key that auto-repeats: the last one pressed
  target,        \* keys the foreground side believes to be down
  seen,          \* held keys whose press the target was given
  stray,         \* keys whose release was let through without their press
  abandoned,     \* a recovery's clean-up was refused by SendInput
  mods,          \* KeyboardModifierState
  consumed,      \* KeyboardSuppressionState::consumed_keys
  active,        \* KeyboardSuppressionState::session_active_or_pending
  deferredAlt,   \* InputState::deferred_alt_vk
  deferredShift, \* InputState::deferred_shift_vk
  altForwarded,  \* InputState::alt_forwarded
  blocked,       \* InputState::blocked_native_releases
  disposed,      \* HookShared::disposed
  gestureShift,  \* the Shift snapshot of the Tab that admitted the session
  hook,          \* what the hook callback still has to send
  ui             \* what the UI thread still has to send

external == <<phys, typematic, target, seen, stray, abandoned>>
ledger   == <<consumed, active, gestureShift>>
gate     == <<deferredAlt, deferredShift, altForwarded, blocked>>
vars     == <<external, mods, ledger, gate, disposed, hook, ui>>

Idle == [op |-> "idle", events |-> <<>>]
Work == [op : {"idle", "replay", "recover"}, events : Seq(Event)]

-----------------------------------------------------------------------------
(* The keyboard and the target.                                            *)

Press(k) ==
  /\ k \notin phys \/ typematic = k
  /\ phys' = phys \cup {k}
  /\ typematic' = k

Release(k) ==
  /\ k \in phys
  /\ phys' = phys \ {k}
  /\ typematic' = IF typematic = k THEN None ELSE typematic

Strike(k, d) == IF d = "down" THEN Press(k) ELSE Release(k)

\* What a set of held keys becomes once a sequence of transitions arrives:
\* for every key its last transition decides.
After(held, events) ==
  {k \in Vk :
     \/ \E i \in DOMAIN events :
          /\ events[i] = Down(k)
          /\ \A j \in DOMAIN events : j > i => events[j][1] # k
     \/ k \in held /\ \A i \in DOMAIN events : events[i][1] # k}

\* Keys released by the sequence that nothing had pressed.
Unpaired(held, events) ==
  {k \in Vk \ held :
     \E i \in DOMAIN events :
       /\ events[i] = Up(k)
       /\ \A j \in DOMAIN events : j < i => events[j][1] # k}

\* What the user did and the target is given: a transition let through, or
\* the replay of presses that were held back.
Deliver(events) ==
  /\ target' = After(target, events)
  /\ seen' = After(seen, events)
  /\ stray' = stray \cup Unpaired(seen, events)

\* CallNextHookEx: the transition goes on to the target.
PassOn(k, d) == Deliver(<< <<k, d>> >>)

\* The callback returns 1: the target never sees the transition.
Swallow(k, d) ==
  /\ UNCHANGED <<target, stray>>
  /\ seen' = IF d = "up" THEN seen \ {k} ELSE seen

\* What FrigoTab makes up: a balancing release or a recovered gesture.
Inject(events) ==
  /\ target' = After(target, events)
  /\ UNCHANGED stray

\* SendInput inserts the whole input or, when it may fail, a prefix of it.
SentCounts(events) ==
  IF SendInputMayFail THEN 0 .. Len(events) ELSE {Len(events)}

-----------------------------------------------------------------------------
(* KeyboardModifierState.                                                  *)

AltDown   == mods \cap (Alts \cup {AltSentinel}) # {}
ShiftDown == mods \cap Shifts # {}
CtrlDown  == mods \cap Ctrls # {}

\* LLKHF_ALTDOWN, which Windows derives from its own key state.
NativeAltDown == target \cap Alts # {}

\* KeyboardInput::alt and ::shift, taken before the transition is applied.
AltSnapshot(k, d) ==
  NativeAltDown \/ AltDown \/ (k \in Alts /\ d = "down")
ShiftSnapshot(k, d) == ShiftDown \/ (k \in Shifts /\ d = "down")

\* The modifier state after the transition.  Any Alt release clears the
\* sentinel; a later event that carries LLKHF_ALTDOWN sets it.
ModsAfter(k, d) ==
  LET plain == IF d = "down"
                 THEN mods \cup ({k} \cap Modifiers)
                 ELSE mods \ ({k} \cup IF k \in Alts THEN {AltSentinel} ELSE {})
      lostAlt == /\ NativeAltDown
                 /\ k \notin Alts
                 /\ plain \cap (Alts \cup {AltSentinel}) = {}
  IN IF lostAlt THEN plain \cup {AltSentinel} ELSE plain

-----------------------------------------------------------------------------
(* KeyboardSuppressionState::should_consume_with_token, for a known key    *)
(* and the release ledger as it stands when the question is asked.  A      *)
(* refused admission is aborted under the same lock, so the admission      *)
(* token reduces to "this very event admitted the session".                *)

Admits(k, d, owed) ==
  /\ ~active
  /\ d = "down"
  /\ KeyOf(k) = "Tab"
  /\ AltSnapshot(k, d)
  /\ "Tab" \notin owed

\* Mutant: a session owns only the keys it already holds.
TakesOwnKeysOnly(k, d, owed) == KeyOf(k) \in owed \/ Admits(k, d, owed)

Takes(k, d, owed) ==
  IF d = "up" THEN KeyOf(k) \in owed
  ELSE active \/ KeyOf(k) \in owed \/ Admits(k, d, owed)

OwedAfter(k, d, owed) ==
  IF d = "up" THEN owed \ {KeyOf(k)}
  ELSE IF active \/ Admits(k, d, owed) THEN owed \cup {KeyOf(k)} ELSE owed

-----------------------------------------------------------------------------
(* AltTabRecoveryPlan and replay_native_alt_tab.                           *)

\* The gesture that stands in for an Alt+Tab FrigoTab took and could not
\* serve.  VK_MENU and VK_SHIFT without the extended flag are the left keys.
RecoveryPlan(altReached, reverse, shiftReached) ==
  LET alt   == ~altReached
      shift == reverse /\ ~shiftReached
      lift  == ~reverse /\ shiftReached
  IN When(alt, <<Down("LAlt")>>)
     \o When(shift, <<Down("LShift")>>) \o When(lift, <<Up("LShift")>>)
     \o <<Down("Tab"), Up("Tab")>>
     \o When(shift, <<Up("LShift")>>) \o When(lift, <<Down("LShift")>>)
     \o When(alt, <<Up("LAlt")>>)

\* The opposite transition of every key a prefix leaves unbalanced, the last
\* key touched first.
Cleanup(prefix) ==
  LET unbalanced(d, k) == /\ \E i \in DOMAIN prefix : prefix[i] = <<k, d>>
                          /\ ~ \E i \in DOMAIN prefix : prefix[i] \in
                                 {Down(k), Up(k)} \ {<<k, d>>}
      undo(k) == When(unbalanced("down", k), <<Up(k)>>)
                   \o When(unbalanced("up", k), <<Down(k)>>)
  IN undo("Tab") \o undo("LShift") \o undo("LAlt")

\* A recovery is sent whole, or as a prefix followed by as much of the
\* clean-up as SendInput accepts before it inserts nothing.
SendRecovery(events) ==
  \E n \in SentCounts(events) :
    LET prefix  == SubSeq(events, 1, n)
        cleanup == IF n = Len(events) THEN <<>> ELSE Cleanup(prefix)
    IN \E m \in SentCounts(cleanup) :
         /\ Inject(prefix \o SubSeq(cleanup, 1, m))
         /\ abandoned' = (abandoned \/ m < Len(cleanup))

-----------------------------------------------------------------------------
(* The branches of hook_proc_inner, in the order of the code.              *)

\* The physical transition arrives and the modifier state follows it,
\* whatever branch is taken; the hook thread has no callback in progress.
Transition(k, d) ==
  /\ hook = Idle
  /\ ~disposed
  /\ Strike(k, d)
  /\ mods' = ModsAfter(k, d)
  /\ UNCHANGED <<abandoned, disposed, ui>>

AltBlocked == blocked \cap Alts # {}

\* A key-down swallowed by an earlier session is still to be released.
Owed(k) == ~active /\ KeyOf(k) \in consumed

\* The transition gets past the checks that come before gesture handling.
Ordinary(k) ==
  /\ k \notin blocked
  /\ ~Owed(k)
  /\ ~AltBlocked
  /\ ~altForwarded

Tracked == deferredAlt # None

\* Mutant: the swallowed release stays blocked.
SwallowKeepsBlocked(k, d) ==
  /\ Transition(k, d)
  /\ k \in blocked
  /\ consumed' = IF d = "up" THEN consumed \ {KeyOf(k)} ELSE consumed
  /\ Swallow(k, d)
  /\ UNCHANGED <<active, gestureShift, gate, hook>>

\* The release of a key whose press was kept from the target by key code.
SwallowBlocked(k, d) ==
  /\ Transition(k, d)
  /\ k \in blocked
  /\ IF d = "up"
       THEN /\ blocked' = blocked \ {k}
            /\ consumed' = consumed \ {KeyOf(k)}
       ELSE UNCHANGED <<blocked, consumed>>
  /\ Swallow(k, d)
  /\ UNCHANGED <<active, gestureShift, deferredAlt, deferredShift,
                 altForwarded, hook>>

\* A repeat or the release of a key the ledger owes, after the session.
SwallowOwed(k, d) ==
  /\ Transition(k, d)
  /\ k \notin blocked
  /\ Owed(k)
  /\ consumed' = IF d = "up" THEN consumed \ {KeyOf(k)} ELSE consumed
  /\ Swallow(k, d)
  /\ UNCHANGED <<active, gestureShift, gate, hook>>

\* A refused replay fails closed until the physical Alt is released.
FailClosed(k, d) ==
  /\ Transition(k, d)
  /\ k \notin blocked
  /\ ~Owed(k)
  /\ AltBlocked
  /\ IF d = "down" THEN blocked' = blocked \cup {k} /\ Swallow(k, d)
                   ELSE UNCHANGED blocked /\ PassOn(k, d)
  /\ UNCHANGED <<ledger, deferredAlt, deferredShift, altForwarded, hook>>

\* A chord that was handed to the target stays there until Alt is up.
StayForwarded(k, d) ==
  /\ Transition(k, d)
  /\ k \notin blocked
  /\ ~Owed(k)
  /\ ~AltBlocked
  /\ altForwarded
  /\ altForwarded' = ~(k \in Alts /\ d = "up"
                       /\ mods' \cap (Alts \cup {AltSentinel}) = {})
  /\ PassOn(k, d)
  /\ UNCHANGED <<ledger, deferredAlt, deferredShift, blocked, hook>>

\* Alt+Tab under an Alt whose press went to the target.
PassUnownedTab(k, d) ==
  /\ Transition(k, d)
  /\ Ordinary(k)
  /\ d = "down" /\ KeyOf(k) = "Tab"
  /\ AltSnapshot(k, d) /\ ~Tracked /\ ~active /\ "Alt" \notin consumed
  /\ PassOn(k, d)
  /\ UNCHANGED <<ledger, gate, hook>>

\* Alt-down within a session only enters the ledger; nothing is dispatched.
ClaimAlt(k, d) ==
  /\ Transition(k, d)
  /\ Ordinary(k)
  /\ d = "down" /\ k \in Alts /\ active
  /\ consumed' = consumed \cup {"Alt"}
  /\ Swallow(k, d)
  /\ UNCHANGED <<active, gestureShift, gate, hook>>

\* Mutant: Ctrl+Alt is let through without remembering the chord.
ForwardUnmarked(k, d) ==
  /\ Transition(k, d)
  /\ Ordinary(k)
  /\ d = "down" /\ k \in Alts /\ ~active
  /\ ~Tracked /\ CtrlDown
  /\ PassOn(k, d)
  /\ UNCHANGED <<ledger, gate, hook>>

\* Ctrl+Alt, AltGr and Ctrl+Alt+Tab belong to Windows.
ForwardCtrlAlt(k, d) ==
  /\ Transition(k, d)
  /\ Ordinary(k)
  /\ d = "down" /\ k \in Alts /\ ~active
  /\ ~Tracked /\ CtrlDown
  /\ altForwarded' = TRUE
  /\ PassOn(k, d)
  /\ UNCHANGED <<ledger, deferredAlt, deferredShift, blocked, hook>>

\* Alt-down is held back until the next key shows what it was for.
DeferAlt(k, d) ==
  /\ Transition(k, d)
  /\ Ordinary(k)
  /\ d = "down" /\ k \in Alts /\ ~active
  /\ ~Tracked /\ ~CtrlDown
  /\ deferredAlt' = k
  /\ Swallow(k, d)
  /\ UNCHANGED <<ledger, deferredShift, altForwarded, blocked, hook>>

\* The Shift snapshot of create_input is taken before the transition, so a
\* Shift that was down before Alt is not held back a second time.
DeferShift(k, d) ==
  /\ Transition(k, d)
  /\ Ordinary(k)
  /\ d = "down" /\ k \in Shifts
  /\ Tracked /\ deferredShift = None /\ ~ShiftDown
  /\ deferredShift' = k
  /\ Swallow(k, d)
  /\ UNCHANGED <<ledger, deferredAlt, altForwarded, blocked, hook>>

PassHeldShift(k, d) ==
  /\ Transition(k, d)
  /\ Ordinary(k)
  /\ d = "down" /\ k \in Shifts
  /\ Tracked /\ deferredShift = None /\ ShiftDown
  /\ PassOn(k, d)
  /\ UNCHANGED <<ledger, gate, hook>>

RepeatDeferred(k, d) ==
  /\ Transition(k, d)
  /\ Ordinary(k)
  /\ d = "down" /\ k \in {deferredAlt, deferredShift}
  /\ Swallow(k, d)
  /\ UNCHANGED <<ledger, gate, hook>>

\* What was held back, in the order it was pressed.
Deferred == <<Down(deferredAlt)>>
            \o When(deferredShift # None, <<Down(deferredShift)>>)

\* Any other key under a deferred Alt makes it an ordinary shortcut: the held
\* back presses and this one are to be replayed in order.
ReplayChord(k, d) ==
  /\ Transition(k, d)
  /\ Ordinary(k)
  /\ d = "down" /\ ~(k \in Alts /\ active)
  /\ Tracked /\ k \notin {deferredAlt, deferredShift}
  /\ k \in Shifts => deferredShift # None
  /\ ~(KeyOf(k) = "Tab" /\ AltSnapshot(k, d))
  /\ hook' = [op |-> "replay", events |-> Deferred \o <<Down(k)>>]
  /\ deferredAlt' = None /\ deferredShift' = None
  /\ Swallow(k, d)
  /\ UNCHANGED <<ledger, altForwarded, blocked>>

\* Alt or Shift released without a Tab: the gesture was not for FrigoTab.
ReplayRelease(k, d) ==
  /\ Transition(k, d)
  /\ Ordinary(k)
  /\ d = "up" /\ Tracked /\ k \in {deferredAlt, deferredShift}
  /\ hook' = [op |-> "replay", events |-> Deferred \o <<Up(k)>>]
  /\ consumed' = consumed \ {KeyOf(k)}
  /\ deferredAlt' = None /\ deferredShift' = None
  /\ Swallow(k, d)
  /\ UNCHANGED <<active, gestureShift, altForwarded, blocked>>

\* Tab admits a session, or the queue refuses it ("ok" is the dispatcher's
\* answer) and the native Alt+Tab is to be recovered outside the lock.
Admission(k, d, owed, ok) ==
  /\ Admits(k, d, owed)
  /\ consumed' = OwedAfter(k, d, owed)
  /\ active' = ok
  /\ gestureShift' = (ok /\ ShiftSnapshot(k, d))
  /\ hook' = IF ok THEN Idle
             ELSE [op |-> "recover",
                   events |-> RecoveryPlan(
                     "Alt" \notin consumed' /\ AltDown',
                     ShiftSnapshot(k, d),
                     "Shift" \notin consumed' /\ ShiftDown')]

\* Alt and a deferred Shift become part of the switcher gesture.
PromoteTab(k, d, ok) ==
  /\ Transition(k, d)
  /\ Ordinary(k)
  /\ d = "down" /\ KeyOf(k) = "Tab" /\ AltSnapshot(k, d) /\ Tracked
  /\ deferredShift # None \/ ~ShiftSnapshot(k, d)
  /\ Admission(k, d, consumed \cup {"Alt"} \cup
                       IF deferredShift = None THEN {} ELSE {"Shift"}, ok)
  /\ deferredAlt' = None /\ deferredShift' = None
  /\ Swallow(k, d)
  /\ UNCHANGED <<altForwarded, blocked>>

\* A Shift that was down before Alt is already with the target: it is
\* released there first, while the lock is held.  If SendInput leaves one
\* down, the gesture is discarded and only its Tab is taken.
HeldShifts == When("LShift" \in mods, <<"LShift">>)
                \o When("RShift" \in mods, <<"RShift">>)

BalanceShift(k, d, sent) ==
  /\ Transition(k, d)
  /\ Ordinary(k)
  /\ d = "down" /\ KeyOf(k) = "Tab" /\ AltSnapshot(k, d) /\ Tracked
  /\ deferredShift = None /\ ShiftSnapshot(k, d)
  /\ Inject([i \in 1 .. sent |-> Up(HeldShifts[i])])
  /\ UNCHANGED seen
  /\ blocked' = blocked \cup {HeldShifts[i] : i \in 1 .. sent}
  /\ deferredAlt' = None
  /\ UNCHANGED <<deferredShift, altForwarded>>

PromoteTabOverShift(k, d, ok) ==
  /\ BalanceShift(k, d, Len(HeldShifts))
  /\ Admission(k, d, consumed \cup {"Alt", "Shift"}, ok)

DiscardGesture(k, d) ==
  /\ \E sent \in SentCounts(HeldShifts) \ {Len(HeldShifts)} :
       BalanceShift(k, d, sent)
  /\ consumed' = consumed \cup {"Alt", "Tab"}
  /\ UNCHANGED <<active, gestureShift, hook>>

\* Alt is still held after a session: a new Tab opens the next one.
ReopenTab(k, d, ok) ==
  /\ Transition(k, d)
  /\ Ordinary(k)
  /\ d = "down" /\ KeyOf(k) = "Tab" /\ AltSnapshot(k, d)
  /\ ~Tracked /\ ~active /\ "Alt" \in consumed
  /\ Admission(k, d, consumed, ok)
  /\ Swallow(k, d)
  /\ UNCHANGED gate

\* Every transition the gesture handling leaves to the suppression policy.
LeftToPolicy(k, d) ==
  /\ Ordinary(k)
  /\ IF d = "up" THEN k \notin {deferredAlt, deferredShift}
                 ELSE ~Tracked /\ k \notin Alts
  /\ ~(KeyOf(k) = "Tab" /\ d = "down" /\ AltSnapshot(k, d) /\ ~active)

\* A key of the current gesture, or the release of one; it is dispatched.
TakeKey(k, d) ==
  /\ Transition(k, d)
  /\ LeftToPolicy(k, d)
  /\ KeyOf(k) # "Unknown"
  /\ Takes(k, d, consumed)
  /\ consumed' = OwedAfter(k, d, consumed)
  /\ Swallow(k, d)
  /\ UNCHANGED <<active, gestureShift, gate, hook>>

\* A known key that is not part of a gesture: let through and dispatched.
PassKey(k, d) ==
  /\ Transition(k, d)
  /\ LeftToPolicy(k, d)
  /\ KeyOf(k) # "Unknown"
  /\ ~Takes(k, d, consumed)
  /\ PassOn(k, d)
  /\ UNCHANGED <<ledger, gate, hook>>

\* Within a session any other key is kept from the old target by key code.
QuarantineKey(k, d) ==
  /\ Transition(k, d)
  /\ LeftToPolicy(k, d)
  /\ KeyOf(k) = "Unknown" /\ d = "down" /\ active
  /\ blocked' = blocked \cup {k}
  /\ Swallow(k, d)
  /\ UNCHANGED <<ledger, deferredAlt, deferredShift, altForwarded, hook>>

PassUnknown(k, d) ==
  /\ Transition(k, d)
  /\ LeftToPolicy(k, d)
  /\ KeyOf(k) = "Unknown" /\ ~(d = "down" /\ active)
  /\ PassOn(k, d)
  /\ UNCHANGED <<ledger, gate, hook>>

\* A disposed hook lets everything through.
PassDisposed(k, d) ==
  /\ disposed /\ hook = Idle
  /\ Strike(k, d)
  /\ PassOn(k, d)
  /\ UNCHANGED <<abandoned, mods, ledger, gate, disposed, hook, ui>>

\* Mutant: the physical release is swallowed even if the replay broke off
\* between its press and it.
FinishReplaySwallowing ==
  /\ hook.op = "replay"
  /\ \E n \in SentCounts(hook.events) :
       LET events == hook.events
           last   == events[Len(events)]
           unsent == {events[i][1] : i \in n + 1 .. Len(events)}
           leaves == events[1][1] # last[1] \/ last[2] = "down"
       IN /\ Deliver(SubSeq(events, 1, n))
          /\ altForwarded' = (altForwarded \/ (leaves /\ n > 0))
          /\ blocked' = blocked \cup {k \in unsent : last # Up(k)}
  /\ hook' = Idle
  /\ UNCHANGED <<phys, typematic, abandoned, mods, ledger, deferredAlt,
                 deferredShift, disposed, ui>>

\* SendInput and the second lock region of a replay: presses that were not
\* sent have their physical release blocked, and a release that was not sent
\* is let through if its press was.
FinishReplay ==
  /\ hook.op = "replay"
  /\ \E n \in SentCounts(hook.events) :
       LET events  == hook.events
           last    == events[Len(events)]
           unsent  == {events[i][1] : i \in n + 1 .. Len(events)}
           passes  == /\ last[2] = "up" /\ n < Len(events)
                      /\ \E i \in 1 .. n : events[i] = Down(last[1])
           leaves  == events[1][1] # last[1] \/ last[2] = "down"
       IN /\ Deliver(SubSeq(events, 1, n) \o When(passes, <<last>>))
          /\ altForwarded' = (altForwarded \/ (leaves /\ n > 0))
          /\ blocked' = blocked \cup
               {k \in unsent : last # Up(k)}
  /\ hook' = Idle
  /\ UNCHANGED <<phys, typematic, abandoned, mods, ledger, deferredAlt,
                 deferredShift, disposed, ui>>

\* The hook thread's recovery of a refused admission.
FinishRecovery ==
  /\ hook.op = "recover"
  /\ SendRecovery(hook.events)
  /\ hook' = Idle
  /\ UNCHANGED <<phys, typematic, seen, mods, ledger, gate, disposed, ui>>

-----------------------------------------------------------------------------
(* The entry points of the UI thread, each atomic under the input lock.    *)

UiIdle == ui = <<>> /\ ~disposed

UiStep == UNCHANGED <<external, mods, gate, disposed, hook>>

\* set_session_visible: the release ledger survives a close.
SetSessionVisible(visible) ==
  /\ UiIdle
  /\ active' = visible
  /\ gestureShift' = (gestureShift /\ visible)
  /\ UiStep /\ UNCHANGED <<consumed, ui>>

\* Mutant: the interruption forgets the deferred Alt but not its Shift.
ResetKeepsShift ==
  /\ UiIdle
  /\ consumed' = consumed \cup (IF Tracked THEN {"Alt"} ELSE {})
  /\ deferredAlt' = None
  /\ mods' = {}
  /\ active' = FALSE /\ gestureShift' = FALSE
  /\ UNCHANGED <<external, deferredShift, altForwarded, blocked, disposed,
                 hook, ui>>

\* Mutant: the interruption clears the release ledger as Drop does.
ResetForgetsLedger ==
  /\ UiIdle
  /\ consumed' = {}
  /\ deferredAlt' = None /\ deferredShift' = None
  /\ mods' = {}
  /\ active' = FALSE /\ gestureShift' = FALSE
  /\ UNCHANGED <<external, altForwarded, blocked, disposed, hook, ui>>

\* reset_input_state: held back presses become owed releases.
ResetInputState ==
  /\ UiIdle
  /\ consumed' = consumed \cup (IF Tracked THEN {"Alt"} ELSE {})
                   \cup (IF deferredShift # None THEN {"Shift"} ELSE {})
  /\ deferredAlt' = None /\ deferredShift' = None
  /\ mods' = {}
  /\ active' = FALSE /\ gestureShift' = FALSE
  /\ UNCHANGED <<external, altForwarded, blocked, disposed, hook, ui>>

\* dispatch_ui_message when the handler did not take the admitting Tab: the
\* admission is cancelled under the lock, the gesture is sent outside it.
CancelAdmission(shift) ==
  /\ UiIdle
  /\ active' = FALSE /\ gestureShift' = FALSE
  /\ ui' = RecoveryPlan("Alt" \notin consumed /\ AltDown,
                        shift,
                        "Shift" \notin consumed /\ ShiftDown)
  /\ UiStep /\ UNCHANGED consumed

SendOwnerRecovery ==
  /\ ui # <<>>
  /\ SendRecovery(ui)
  /\ ui' = <<>>
  /\ UNCHANGED <<phys, typematic, seen, mods, ledger, gate, disposed, hook>>

\* Drop: the hook forgets everything and is removed.
Dispose ==
  /\ UiIdle
  /\ disposed' = TRUE
  /\ deferredAlt' = None /\ deferredShift' = None
  /\ altForwarded' = FALSE /\ blocked' = {}
  /\ mods' = {} /\ consumed' = {}
  /\ active' = FALSE /\ gestureShift' = FALSE
  /\ UNCHANGED <<external, hook, ui>>

-----------------------------------------------------------------------------
(* The environment's order of calls: an admitted session is shown (which   *)
(* leaves "active" as it is), closed, reset or cancelled at any moment     *)
(* after its admission.  FrigoTab.tla replaces this by the real UI thread. *)

Init ==
  /\ phys \in SUBSET HeldAtStart
  /\ typematic \in (phys \cap RepeatingAtStart) \cup {None}
  /\ target = phys /\ seen = phys
  /\ stray = {} /\ abandoned = FALSE
  /\ mods = {} /\ consumed = {}
  /\ active = FALSE /\ gestureShift = FALSE
  /\ deferredAlt = None /\ deferredShift = None
  /\ altForwarded = FALSE /\ blocked = {}
  /\ disposed = FALSE
  /\ hook = Idle /\ ui = <<>>

\* Callbacks whose key reaches the dispatcher.
DispatchedKey(k, d) == TakeKey(k, d) \/ PassKey(k, d)

AdmittingKey(k, d, ok) ==
  \/ PromoteTab(k, d, ok)
  \/ PromoteTabOverShift(k, d, ok)
  \/ ReopenTab(k, d, ok)

\* Callbacks decided before the dispatcher is asked.
QuietKey(k, d) ==
  \/ SwallowBlocked(k, d)
  \/ SwallowOwed(k, d)
  \/ FailClosed(k, d)
  \/ StayForwarded(k, d)
  \/ PassUnownedTab(k, d)
  \/ ClaimAlt(k, d)
  \/ ForwardCtrlAlt(k, d)
  \/ DeferAlt(k, d)
  \/ DeferShift(k, d)
  \/ PassHeldShift(k, d)
  \/ RepeatDeferred(k, d)
  \/ ReplayChord(k, d)
  \/ ReplayRelease(k, d)
  \/ DiscardGesture(k, d)
  \/ QuarantineKey(k, d)
  \/ PassUnknown(k, d)
  \/ PassDisposed(k, d)

HookThread ==
  \/ \E k \in Keys, d \in {"down", "up"} :
       \/ QuietKey(k, d)
       \/ DispatchedKey(k, d)
       \/ \E ok \in BOOLEAN : AdmittingKey(k, d, ok)
  \/ FinishReplay
  \/ FinishRecovery

UiThread ==
  \/ SetSessionVisible(FALSE)
  \/ Interruptions /\ ResetInputState
  \/ active /\ CancelAdmission(gestureShift)
  \/ SendOwnerRecovery
  \/ Dispose

Next == HookThread \/ UiThread

Spec == Init /\ [][Next]_vars

-----------------------------------------------------------------------------
(* Properties.                                                             *)

\* Every variable keeps its type: the ledgers hold only keys, and what waits
\* to be sent is a sequence of key transitions.
TypeOK ==
  /\ phys \subseteq Keys
  /\ typematic \in Keys \cup {None}
  /\ target \subseteq Vk /\ seen \subseteq Vk /\ stray \subseteq Vk
  /\ abandoned \in BOOLEAN
  /\ mods \subseteq Modifiers \cup {AltSentinel}
  /\ consumed \subseteq SwitcherKeys
  /\ active \in BOOLEAN /\ gestureShift \in BOOLEAN /\ disposed \in BOOLEAN
  /\ deferredAlt \in Alts \cup {None}
  /\ deferredShift \in Shifts \cup {None}
  /\ altForwarded \in BOOLEAN
  /\ blocked \subseteq Vk
  /\ hook \in Work
  /\ ui \in Seq(Event)

\* The owners of an Alt exclude each other (the gate in hook_proc_inner): a
\* deferred Alt, a session, a chord forwarded to the target and a refused
\* replay never coexist, Shift is held back only under a deferred Alt, and
\* while the callback is between its lock regions there is neither a deferred
\* Alt nor a session, whatever the UI thread does meanwhile.
GateExclusive ==
  /\ deferredShift # None => Tracked
  /\ Tracked => ~active /\ ~altForwarded /\ ~AltBlocked /\ "Alt" \notin consumed
  /\ active => ~altForwarded /\ ~AltBlocked /\ ~disposed
  /\ hook.op # "idle" => ~Tracked /\ ~active

\* Keyboard balance, in the target's favour (docs/requirements.md, "Keyboard
\* balance"): when no key is held and nothing is left to send, the target
\* believes no key is down, whatever was replayed, refused, cancelled, reset
\* or only partly accepted on the way.  A clean-up SendInput refuses is the
\* one case the code gives up on.
NoStuckKey ==
  phys = {} /\ hook = Idle /\ ui = <<>> /\ ~abandoned => target = {}

\* Keyboard balance, in FrigoTab's favour: a press kept from the target has
\* its release kept too, so until the hook is removed no physical release
\* gets through for a key the target never saw pressed.
NoStrayRelease ==
  ~disposed => stray = {}

\* Once all keys are up, nothing of a gesture lingers in the gate: no chord
\* stays forwarded, no release stays blocked, nothing stays held back.
GateClears ==
  phys = {} /\ hook = Idle /\ ~disposed =>
    /\ ~altForwarded /\ blocked = {}
    /\ deferredAlt = None /\ deferredShift = None

\* Alt-chord isolation (docs/requirements.md): a session is admitted only
\* while the target holds no Alt, so it cannot take the gesture for its own
\* shortcut or be left with Alt down when the foreground moves.
SessionOwnsAlt == active /\ ~abandoned => target \cap Alts = {}

\* Quarantine (docs/requirements.md, "Keyboard balance"): while a session
\* stays active no key goes down in the target, though keys repeat, chords
\* are being released and sessions come and go.  What the UI thread itself
\* injects to recover an earlier gesture is not part of it.
Quarantine == [][active /\ active' /\ ui' = ui => target' \subseteq target]_vars

=============================================================================
