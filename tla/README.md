# A verification project for FrigoTab

FrigoTab (src/Readme.md) replaces the Windows Alt+Tab switcher: one Win32
executable, one low-level keyboard hook thread, one UI thread, one worker
thread for desktop snapshots. The modules here model the parts that decide
*what happens to a key press*, *when a switcher session begins and ends*, *what
it shows and is painted on* and *which process serves the desktop at all*.

## 1. Inventory of the system

| Part (source under src/src) | State it keeps | Operations | Talks to | What makes it correct |
|---|---|---|---|---|
| Keyboard hook gate: `input/key_hook.rs`, `input_state.rs`, `hook_shared.rs` | deferred Alt and Shift, `alt_forwarded`, blocked native releases, `disposed` | one callback per physical key transition; `set_session_visible`, `reset_input_state`, `dispatch_ui_message`, `Drop` from the UI thread | modifier and suppression state (under one mutex), dispatcher, `SendInput` (outside the mutex), Windows | key balance: the foreground application sees a release for every press it was given and no other; a session owns Alt; nothing lingers when all keys are up |
| Modifier state: `keyboard_modifier_state.rs` | pressed modifiers, a sentinel for an Alt never seen going down | `create_input_with_modifier`, `reset` | hook gate | agrees with what was pressed, recovers after a reset |
| Suppression state: `keyboard_suppression_state.rs` | release ledger, `session_active_or_pending`, admission token | `should_consume_with_token`, `set_session_visible`, `abort_pending_admission`, resets | hook gate | a swallowed press has its release swallowed; a session is admitted by a fresh Alt+Tab only |
| Recovery: `alt_tab_recovery_plan.rs`, `replay_native_alt_tab` | none | build the native gesture, clean up a partly accepted one | `SendInput` | leaves no key down |
| Dispatcher: `deferred_keyboard_dispatcher.rs`, `callback_queue.rs`, `pending_release.rs`, `delivered_inputs.rs` and `pending_hook_inputs` in `main.rs` | pending count, generation, callback slots, posted messages, delivered inputs | dispatch (hook thread), invalidate, take and run (UI thread), drain | hook gate, Windows message queue, controller | bounded, in order, no input of an earlier generation reaches the controller, no slot is lost |
| Controller: `switcher/switcher_application.rs` | state, selection, own key ledger, Sticky or Tap | keyboard, mouse, close, interrupt, relayout, refresh | session port | selection is valid, opens and closes the session exactly once |
| Session window: `switcher/session_window.rs` | window resources, snapshot worker, refresh and relayout timers, closes in progress | open, close, relayout, refresh, snapshot publish | Win32, DWM, worker thread | one capture at a time and none posted to a window that is gone, a visible session keeps its frame, the retained frame follows the desktop, no handler waits for Explorer; a replacement of the previews keeps the selected window where it can, the tile of a dead window goes |
| Application windows: `window/application_windows.rs`, `application_window.rs` | previews, selected, hovered and pointer index | build, select, hit test, close target, activate, dispose | DWM thumbnails | collection, tiles and pictures agree although redraws fail half-way |
| App and window procedure: `composition/app.rs`, `main.rs` | object graph, `reported_session_visibility`, `pending_hook_inputs` | one handler per window message | everything on the UI thread | hook and controller agree on visibility; a re-entrant message is not lost |
| Window enumeration and grouping: `window/window_finder.rs`, `window_handle.rs` | none | filter and order top-level windows | Win32 | every eligible group appears, and once |
| Layout: `geometry/` | none | place previews in a grid on each monitor | session window | tiles lie within the monitor and do not overlap |
| Window icons: `window/window_icon.rs`, `owned_icon.rs` | icon, owned or borrowed | asynchronous icon query | Win32 | an owned icon is destroyed once |
| Single instance: `system/single_instance_guard.rs` | named mutex | acquire, drop | Win32 | one instance serves; none is turned away by a dead one |
| Tray: `tray/` | icon registration | popup menu, icon | Win32 | no icon without its window; a close inside the menu is not lost |
| Hook thread: `key_hook.rs` (`start_inner`, `hook_thread`, `shutdown_thread`), `completion_signal.rs` | the hook, `disposed`, startup and completion channels | start with a timeout, shut down in two bounded waits, detach | Windows, main thread | a hook that was given up goes; nobody waits for ever |
| Rendering: `rendering/`, `desktop/`, `switcher/session_painter.rs` | GDI and DWM objects | draw, capture | Win32 | resources released |

### Hard behaviours

* **Two lock regions.** A hook callback that replays or recovers a gesture
  unlocks, calls `SendInput`, and locks again. The UI thread may reset, close,
  cancel or dispose the hook in between.
* **Partial `SendInput`.** Any injected sequence may be cut after a prefix.
* **Delayed answers.** A Tab that admits a session is answered by the UI thread
  later; meanwhile keys go on arriving, the session may be cancelled, the queue
  may be full, a later input may belong to an earlier generation.
* **Left and right keys.** The ledgers know one Alt and one Shift; a keyboard
  has two of each.
* **Keys already down** when the hook starts or is reset after a desktop
  interruption.
* **Re-entrancy.** Win32 calls made while the application object is borrowed
  can dispatch another message to the same window procedure.
* **Timers and workers** that answer after the session they were meant for.
* **Windows of other programs** that show, hide, change their styles or die
  between the steps of an enumeration, between an enumeration and its use, and
  while a selection is held by index.
* **Native failures half-way**: a redraw that fails between two tiles, a
  session that opens and whose first selection fails.
* **Life and death of processes**: a second instance, one that is killed, hangs
  or times out in start-up, and a close that arrives in a nested message loop.

## 2. Plan and structure

Each step is a module, its runs, then its proofs; all are done.

| Module | Models | Composes or refines | Proofs |
|---|---|---|---|
| `KeyHook` | the hook gate with both ledgers and recovery, against the keys the foreground application believes to be down | | `KeyHookProofs` |
| `Dispatcher` | the bounded queue between the threads at the grain of its atomic operations | refines `KeyQueue` | `DispatcherProofs` |
| `Switcher` | the controller against a session port whose answers are nondeterministic | refines `SessionPort` | `SwitcherProofs` |
| `FrigoTab` | `App` and the window procedure | composes `KeyHook`, a queue and `Switcher` | `FrigoTabProofs` |
| `Backdrop` | the retained desktop frame, the worker that captures it, the display timer | | `BackdropProofs` |
| `Session` | the previews: collection, tiles, refresh, pending closes | refines `SessionPort`, from the other side | `SessionProofs` |
| `Candidates` over `GridLayout` | the enumeration of windows, and where their tiles go | | `CandidatesProofs` |
| `Program` | processes, their mutex, window, icon and hook thread | | `ProgramProofs` |

`SessionPort` is the contract between controller and session: `Switcher` keeps it
whatever the native session answers, `Session` keeps it whatever the controller
asks.

Every safety property and refinement a run checks is proved for all constants
(under the hypotheses named below); liveness stays with TLC.

## 3. The keyboard hook: `KeyHook`

One action per branch of `hook_proc_inner`, in the order of the code; the
names of the variables are those of the source (`deferredAlt` is
`deferred_alt_vk`, `blocked` is `blocked_native_releases`, `mods` the pressed
modifiers, `consumed` and `active` the suppression state). `Transition` is the
part every branch shares: the physical key moves and the modifier state
follows. `Ordinary` collects the early returns before gesture handling,
`LeftToPolicy` what remains for the suppression policy. A branch that calls
`SendInput` outside the mutex leaves what is to be sent in `hook` and ends in
`FinishReplay` or `FinishRecovery`, so that steps of the UI thread come in
between. The UI thread's entry points are `SetSessionVisible`,
`ResetInputState`, `CancelAdmission` with `SendOwnerRecovery`, and `Dispose`.

The dispatcher's answer is the Boolean `ok` of an admitting key. Scan codes,
extended flags and the injected-event filters (`key_hook.rs` 506-532) are left
out: FrigoTab's own injected events never reach the gate, and the marked test
input behaves as a physical key.

*The environment* is a keyboard (`Press`, `Release`: a key repeats only while
it is the last one pressed), and a foreground side that believes a key to be
down from what it was given (`target`, with `seen` for the held keys whose press
it saw, `stray` for the keys whose physical release was let through though the
press was not; a release FrigoTab injects is part of a plan and not counted). `abandoned` notes that even the
clean-up of a cut-off recovery was refused, the one case the code gives up on.

The keyboards of the runs have four keys (`MCKeyHook`): an Alt, Shift, Tab and
Ctrl, with Alt and Shift perhaps held already, unseen, when the hook starts
(`KeyHookBalance`), or a second Shift in place of Ctrl (`KeyHookTwoShifts`).
Each branch looks at one key and the ledgers, and together they take every
branch. Ctrl opposes an Alt+Tab and is otherwise a key the switcher has no use
for; Escape and the digits differ from such a key only in being dispatched,
which `FrigoTab` looks at.
Nothing else is bounded: all orders of presses, repeats and releases, and all
prefixes of every `SendInput`, are explored to the end.

### What is proved

`KeyHookProofs` proves every property of the two passing runs. For every
keyboard, and whether or not `SendInput` may fail: `Typing`, `GateExclusivity`
and `QuarantineHolds`. The exclusion is
inductive together with typing: each branch that sets one owner of Alt is
guarded by the absence of the others, and the replay's second region writes
`alt_forwarded` only where the first region left neither a deferred Alt nor a
session, which no step of the UI thread can create.

`QuarantineHolds` follows one step at a time from the exclusion: while a
session stays active no branch that passes or replays a press is enabled.

Key balance needs hypotheses on the keyboard, because the release ledger has
one entry for both Alts and one for both Shifts. The hypotheses are no stronger
than the code: without any one of them TLC finds the property violated.

| Theorem | Property | Holds with | Otherwise |
|---|---|---|---|
| `GateOpens` | `GateClears` | one Alt, or a `SendInput` that never breaks off | a replay of both Alts cut after the first leaves the second blocked under a forwarded chord; both are released swallowed, `alt_forwarded` stays, and the next Alt+Tab goes to Windows |
| `NoStrayReleases` | `NoStrayRelease` | one Alt and one Shift | the shared release below |
| `SessionOwnsTheAlt` | `SessionOwnsAlt` | one Alt, not repeating when the hook starts | the repeated Alt below |
| `NoKeyIsStuck` | `NoStuckKey` | one Alt and one Shift, no Alt repeating at the start | the second Shift below |

The argument follows one key through the ledgers.

* `GateInv`: whatever is deferred, blocked, forwarded or about to be replayed
  is a key still held. A release is the only step that takes a key away, and
  each branch for it clears the entry; that is why the gate opens.
* `Repeating` and `Accounted`: the key that repeats is held, and each held key
  the target was not told of is kept back (deferred, blocked or owed its
  release) or waits in a replay. So a release that finds its press unseen is
  swallowed. A key must own its entry, or the release of the other clears it.
* `AltInv`: an Alt the switcher owns is not at the target, `seen` is part of
  what is held, and each recovery that waits to be sent releases every key it
  presses, in that order (`PlansSound`), so that a prefix of it and its
  clean-up add nothing.
* `KeyInv`: the target believes no key down except those the user gave it
  (`Believed`), unless a clean-up was itself refused (`abandoned`); nothing kept
  back is at the target; a session knows about the Shift that is down
  (`ShiftTaken`), or a recovery would press one the target already has.

The plans are concatenations of conditional parts. `ConcatElements` and its
neighbours say where an event of one comes from, which settles all four plans
(whole, cut and cleaned up) without writing out their cases.

### Where the code and its comments differ

`KeyHookSharedRelease` states what the documentation says and ends in a
counterexample; PROJECT.json quotes the lines. The ledger has one bit for both
Alts (or Shifts). With two held through a session the second release reaches
the target although its press was swallowed.

Three more limits came up while modelling, and explain the keyboards of the
passing runs:

* A Tab that reopens a session under an Alt still held from the last one
  (`key_hook.rs` 616) skips the Shift balancing of a first gesture. The
  comment at 841, "Do not move foreground while the old target still owns an
  unbalanced Shift", is about a first gesture; the invariant "no session is
  active or pending while the target holds a Shift" fails on Alt, Tab, the
  session closed, Shift, Tab.
* The auto-repeat of an Alt that has been down since before the hook started
  (638) is deferred like a first press, and the next Tab admits a session
  although the target holds that Alt: with `LAlt` among `RepeatingAtStart`,
  `SessionOwnsAlt` fails. `KeyHookBalance` lets only Shift repeat at the start.
* The recovery plan knows one Shift. With two in the keyboard it can press
  again a Shift that the target was not given, and `NoStuckKey` fails;
  `KeyHookTwoShifts` checks what holds regardless. For the same reason a
  balancing release can be injected for a Shift the target never had, which is
  harmless and which no property forbids.

## 4. The queue between the threads: `Dispatcher`

| Model | Code |
|---|---|
| `pending`, `unreleased` (reservations not given back) | `DeferredKeyboardDispatcher::pending`, `PendingRelease` |
| `generation`, `InvalidatePending` | `invalidate_pending` |
| `slots`, `Insert`, `TakeSlot`, `Drain` | `CallbackQueue` |
| `messages`, `Receive`, `Reenter` | posted `WM_KEY_HOOK_INPUT`, `dispatch_hook_inputs` |
| `inbox` | `OwnerContext::pending_hook_inputs` |
| `CloseForShutdown`, `Dispose`, `InvalidateForDrop`, `DrainForDrop` | `close_for_shutdown`, `Drop for KeyHook` |

Every atomic operation is an action of its own: the count is raised and, over
the limit, lowered again; a slot is filled, its message posted or not; a slot
is emptied, its callback run, its reservation given back. The two threads
interleave between any two of them. `DeliveredInputs` holds one input between
the push and the pop of a single `dispatch_ui_message` and is folded into
`RunCallback`.

`KeyQueue` says what this promises: a bounded first-in first-out queue with one
slot for inputs that end a session, in which an invalidation forgets what was
accepted before it. `ImplementsQueue` is the refinement.

*Re-entrancy.* A message dispatched while the application is borrowed goes to
the inbox, and the dispatch of a key that holds the borrow drains it. `Reentrant`
says which handlers make native calls that dispatch a posted message: in the
run only that of a key (`InHandler`), in the proofs any. The one nested message
loop of the other handlers, the tray menu, runs without the borrow
(`main.rs` 241); were one to run with it, its inputs would wait for the next
key.

*Bounds.* Capacity 2 and the reserve, five inputs, two invalidations, one
teardown. A third ordinary slot would add no new relation between a slot, its
message and its reservation; five inputs fill the queue, overflow it and reuse
a slot.

*The refinement.* `KeyQueue`'s `waiting` are the live inputs on their way to a
handler (in the UI thread's hands, or in the slots that the inbox and then the
posted messages name), in the order of their numbers; `current` is the input of
the running handler. The mapping does not assume that messages arrive in order:
that they do is what the refinement shows.

*Fairness.* Weak fairness of each thread's own progress: a thread that holds a
reservation or runs a handler goes on. `Receive` is strongly fair, as
`GetMessage` returns posted messages ahead of input and timers. Nothing is
assumed of the user or of the system's other messages.

`DispatcherProofs` proves, for every capacity, that the count is the number of
reservations (`Accounts`), that an admitted dispatch finds a free slot
(`SlotAlwaysFree`) and that more than the capacity is reserved only with an
input that ends a session among them (`ReserveHolds`). The invariant lists all
reservations in flight: the hook thread's, the slots', the running callback's.
The slots hold distinct ones, so if every slot were filled while the hook
thread holds another, there would be more reservations than slots; the count
admits no more than there are slots. When the hook is dropped and nothing is
under way, every reservation has been given back (`ShutdownHolds`).

`QueueRefined` proves `ImplementsQueue`. Its invariant adds that inputs are
numbered as they are issued and the hook thread holds the latest (`Numbering`),
that no callback is of a generation to come (`Earlier`), and that the messages
on their way name filled slots whose numbers rise, from the callback the UI
thread has taken to the one the hook thread holds (`InOrder`); a closed queue
hands over nothing. Inputs that wait are a finite set told apart by number, and
two rising sequences of the same set are equal, by induction over the numbers
(`NatLessThanWellFounded`): so handing over the oldest is `Tail`, and posting
the latest is an append.

The reserved slot is for any released Alt, Escape or Alt+F4, whether or not a
session heeds it (a Sticky session ignores Alt), so `ReserveHolds` speaks of
inputs that may end a session.

## 5. The controller: `Switcher`

One action per outcome of a handler of `SwitcherApplication`. The port
(`SwitcherSessionPort`) is external to the controller: each call answers freely
within its trait (`NativeMayFail`, `Denial`), and `graph` keeps what the port
shows, how many previews and which one as selected. The controller never reads
it, but a commit activates the port's selection, so the two must agree.

`SwitcherPort` checks this with three previews (wrapping, a digit without a
preview and a relayout to fewer previews all happen) and a key of every kind.
`SwitcherProofs` proves it for any number: every handler is made of four
primitive steps on the session (close, choose, replace, nothing), each of which
keeps the agreement and is a step of `SessionPort` or a stutter
(`Implementation`). It is inductive together with the types because no
handler passes on an index without `is_valid_index` or arithmetic that keeps it
among the previews.

A relayout that postpones itself keeps the count, and one whose refresh is not
ready yet changes nothing; both are stutters or instances of `Relayout`.

## 6. The program: `FrigoTab`

| Model | Code |
|---|---|
| `Hook` (an instance of `KeyHook`) | the hook thread and `HookShared` |
| `Controller` (an instance of `Switcher`) | `App::controller` and `App::session` |
| `queue` | the dispatcher: `KeyQueue`'s queue, with forgotten entries still taking a slot |
| `calls` | the calls on the hook that the running handler has yet to make |
| `reported` | `App::reported_session_visibility` |

A handler of the window procedure is an action that runs the controller and
leaves in `calls` what `App` then does to the hook: `SyncVisibility`
(`sync_session_visibility`), `ResetHook` (`reset_input_state`),
`GiveGestureBack` (the second half of `dispatch_ui_message`), `DropHook`. Each
call is atomic under the hook's mutex, and the hook thread takes keys between
them. A message that finds the application borrowed and is posted again is a
later message here.

* `FrigoTabSession` (Alt, Tab; one slot and the reserve, failing posts and
  partial `SendInput`): `VisibleIsGuarded` and `GuardHasReason`, the two halves
  of the quarantine, and `DrivesHook`. `KeyHook` assumes an order of the UI
  thread's calls; the run shows that the program keeps it, so that the results
  about `KeyHook` hold of the program.
* `FrigoTabAnswer` (Alt, Tab; posts succeed, no activation is denied):
  `AdmissionAnswered` and `TapEnds`. Both need their premises: the
  documentation leaves a Tap session open when the pointer cleared the
  selection, and a denied activation leaves it for another try.

Two keys suffice because the hook's own key combinations are covered by
`KeyHook` and the controller's keys (Escape, digits, Shift+Tab) by `Switcher`;
what is new here is the order of messages, calls and keys. Alt's release is
both a key the controller answers by ending the session and one that may take
the reserved slot. Capacity 1 with its reserve is the smallest queue in which
an input is refused and one that ends a session still accepted, behind an
unanswered Tab or a forgotten one; the proofs hold for any. Shift is in no
keyboard of these runs; that a recovered gesture carries the Shift it was made
with is checked in `KeyHook` and proved of the program (`HookDriven`).

*Fairness.* The UI thread finishes a handler it began (`WF` of the calls), the
hook thread finishes its `SendInput`; `HandleKey` and `SkipForgotten` are
strongly fair because other messages may come in between, but a posted message
is returned ahead of mouse input and timers. No fairness is assumed of keys,
pointer, timers or the desktop.

`FrigoTabProofs` proves `VisibleIsGuarded` (`Guarded`) and `GuardHasReason`
(`Reasoned`) for every keyboard, capacity and number of previews, and that the
queue keeps to its capacity and the reserve (`Typing`). Neither of the first two
is inductive. A session becomes visible because of a Tab that was queued while
the guard was up, so the invariant says that every live Tab with Alt in the
queue has the guard up (`OpensGuarded`); the hook thread keeps this because it
dispatches such a Tab without admitting it only in an active session, and the
calls that let the guard go forget the queue in the same lock region. Which
calls may be pending (`CallsShape`), that all but a lone report follow a session
that has ended (`CallsEndSession`), and that the reported visibility is right
once the report is made (`Settled`), complete it.

`HookDriven` proves `DrivesHook`: every step of the program is a step of
`KeyHook` or leaves the hook alone. What `KeyHook` asks of the UI thread is that
a gesture is given back only while the guard it raised is up, and with the Shift
it was made with. The invariant says so of the call about to be made
(`GestureOwed`), which follows from the queue: with neither a session nor a call
about to end one, the first live Tab on its way is the one that raised the guard
(`GestureFirst`), since the hook thread raises it for one Tab and dispatches the
next only behind it. And the hook is reset only by an interruption
(`ResetAllowed`).

`GateInProgram` and `BalanceInProgram` close the argument: every behaviour of the
program is, to the hook, one of `KeyHook` (`HookDriven`), so what section 3
proves of the hook with the UI thread as `KeyHook` allows it, holds with the UI
thread as it is. `GateExclusive` and `Quarantine` hold of the program for every
keyboard; `NoStuckKey`, `NoStrayRelease`, `GateClears` and `SessionOwnsAlt` under
the hypotheses on the keyboard of section 3. The theorems of `KeyHookProofs` are
taken through a second instance of `KeyHook` over the same variables
(`HookAlone`); `SameStart` and `SameStep` unfold both, since the prover takes the
definitions of two instances for different operators. The runs of
`FrigoTab`, whose keyboard is two keys, do not check these properties again.

## 7. The backdrop of a session: `Backdrop`

In FullDesktop mode a session is painted on a frame: Explorer's desktop,
captured by a worker thread while FrigoTab is idle and retained with the
geometry it was captured in. `Backdrop` models the half of `session_window.rs`
that keeps this frame.

| Model | Code |
|---|---|
| `frame`, `mode`, `owner` | the painter's `BackgroundState`; the frame is its geometry |
| `visible` | `applications.is_some()` |
| `relayout` | `display_relayout_*` and `display_rebuild_requested` |
| `running`, `slot`, `handle` | `snapshot_refresh_running`, `snapshot_completion`, `snapshot_worker` |
| `threads` | the closure of `queue_desktop_snapshot_refresh`, one entry for each thread alive |
| `ready`, `notices` | posted `WM_DESKTOP_SNAPSHOT_READY`, display notifications |
| `life` | `disposal_requested`/`disposed` and the window |
| `ui` | where the UI thread is in a handler; `after` and `grace` are locals of `try_open_session` |

Handlers that read what others write are cut at the reads: whether the display
is in a persisted mode (`QueueRefresh`), its bounds (`ReadBounds`), the running
flag before the join (`Reap`) and at the compare-exchange (`Claim`), the flag
before the completion lock (`Publish`, `Reap`, `TakeCompletion`), the disposal
before and after the lock (`RequestDisposal`, `FinalizeDisposal`). A sample of
the timer and the geometry chosen by an open or a relayout read the display
once. The worker captures (and may never return from Explorer), takes the lock,
looks at the disposal, fills the slot, posts, and releases the lock at its end.
A persisted mode that cannot be determined counts as persisted, as in the code.

`abandoned` is history: a wanted refresh was given up because a native call
failed, because the wait for a game's mode ran out, or because an open or an
interruption stopped the timer; the next notification or closed session clears
it.

*Bounds.* `MaxEvents` (3) bounds what users and displays do: display changes,
opened sessions, interruptions of an idle program, changes of mode. Closing and
shutting down are free. Three make a game's mode under an opened session, or a
session between two desktop changes. `MaxWaitTicks` is 3 instead of 20: the
smallest at which the two stable samples and the end of the wait come apart.
Two threads suffice, as one that still holds the lock can be detached while the
next captures, and no third can start. Black stands for both modes that need no
frame.

*Fairness.* The UI thread finishes its handlers (`WF`) and retrieves display
notifications, the worker's message and the timer (`SF`: other messages may
come in between). A worker goes on once it has its picture. That Explorer ever
answers is not assumed: `HandlersReturn` holds with a capture that hangs, and
`FrameCatchesUp` excuses one.

### What is proved

`BackdropProofs` shows `RefreshAccounted` and `PostsToOwner` for any displays,
threads and bounds. Neither is inductive. That the flag stands for one capture
needs three more facts: a handler runs only while the window is open (so every
claim of the flag meets the account), at most one worker is under way, and none
while a message waits to be taken. The gate needs the lock: a worker fills the
slot only while the window is open and holds the lock until it has posted, and
the disposal passes through the lock before it destroys the window. A library
theorem on singletons turns "one worker at most" into the cardinality of the
property.

`Covers` proves `BackdropCovers`, a property of steps: a session that shows a
frame goes on showing one of its own geometry. Its invariant adds that an open
that has chosen its bounds is already covered (between the choice and the
showing no handler can publish another frame), that the UI thread remembers an
open only inside a handler, and that nothing is visible once the disposal has
begun. `Typing` proves the types, among them that the display timer stops
within its bound of ticks and that no empty rectangle is captured or retained.

### Where the code and its comments differ

`BackdropAbandoned`: the comment at `session_window.rs` 376 has the idle refresh
"still allowing a persisted monitor/resolution change to replace" the retained
frame. A resolution change starts the timer; if, within the half second
before it fires, an Alt+Tab finds no window (or the session cannot be placed,
or the program is interrupted while idle), `close_session_resources` stops the
timer, and only a session that had previews queues a refresh. The frame keeps
the old geometry, the next session opens in it, and it is replaced when that
session closes. `FrameCatchesUp` is the same statement with this and the
deliberate ways of giving up excused.

The display can also leave the persisted mode between `QueueRefresh` and
`ReadBounds`; the frame is then captured in the game's geometry. That window is
a few instructions wide, and the frame is replaced like any stale one.

## 8. The previews of a session: `Session`

| Model | Code |
|---|---|
| `applications` (`tiles`, `selected`, `hovered`) | `ApplicationWindows`; a tile is an `ApplicationWindow` |
| a tile's `picture`, `missed` | what `render_overlay_with_icon` last drew; that a redraw nobody answers for has failed since |
| `state`, `candidateCount`, `selectedIndex` | the controller's |
| `pendingCloses`, `evidenceTicks`, `refreshTimer` | the same in `SessionWindow` |
| `windows` | what has become of each source: a candidate, visible but none, hidden, destroyed |

Every handler runs on the UI thread to its end and is one action, with the
controller's answer to a failure (the session is closed) as part of it. An
enumeration may list the shown windows in any order; `Flicker` lets it come out
empty although some are shown. `ApplicationWindows::build` skips a candidate
that vanishes or cannot be previewed, so `Accepted` allows any part of a list.
`NativeMayFail` lets redraws, `SetTimer` and posts fail. The handlers are those
of `Switcher`, reduced to what they ask of the session, for any preview.

* `FlagsAgree` and `PicturesCurrent`: collection, flags of the tiles and
  pictures agree, whichever redraw failed between them.
* `ReplacementsKeepChoice`: selection is held by index, and a relayout
  enumerates anew. The swap in `relayout_session` (563-590) keeps the selected
  window at its place, so that releasing Alt still activates what the user sees
  selected. The property is about every step of an open session after which the
  row of previews is another one: the selected window is then the same, or none,
  or the code had no place for it. It has none in three cases: the window is not
  offered any more; its place is beyond the end of what is offered; or `build`
  skipped a candidate after the swap, so that the places move.
* `WatchedWhileShown`: the refresh timer runs exactly while previews are shown,
  and no close request outlives its session.
* `ImplementsPort`: `SessionPort`, whose `graph` is what is on the screen.
* `GoneTilesLeave`: the tile of a destroyed window leaves the screen, whatever
  else is previewed.

The second case of `ReplacementsKeepChoice` is not the loss of a window: with
previews a, b, c and c selected, b hides and the relayout enumerates c, a. The
place of c is beyond the end, nothing is swapped (583), and the last place is
selected (611), which is a's, while c is still previewed. The comment at
`switcher_application.rs` 175 promises no more than "the nearest valid
selection"; the property excuses the case and does not hide it. A refresh
selects nothing, and the user chooses again.

*Fairness.* The timer ticks (`WF` of `RefreshTick`), and a tick that could
replace the previews does so if it can from some time on (`WF` of
`RefreshReplaces`): an enumeration is empty by mistake for a moment only.
`GoneTilesLeave` excuses one case the code has: no window is a candidate while
another previewed source is alive (`session_window.rs` 676-688), if only as a
hidden or cloaked one; the dead tile then stays, although
src/docs/requirements.md 72 has closed windows disappear. An enumeration that is
empty for a moment is no excuse. Nothing is assumed of users and of other
windows.

*Bounds.* Two sources with four fates each: a selection that moves, one that
must not, a survivor and a dead window, a list shorter than the last. Three are
beyond TLC's reach here, so the case above occurs in the proofs only, which are
for any number. Nothing else is bounded; the tick counters saturate by the
code's own comparison.

`SessionProofs` proves the types, the three invariants, `ReplacementsKeepChoice`
and the refinement for any sources and any failures. The inductive
invariant says that the collection is in order tile by tile (`WellKept`), that
controller and collection agree (`Agree`) and `WatchedWhileShown`; each handler
either closes the session or publishes a collection in order, which is also what
makes it a step of the port. For `ReplacementsKeepChoice`, a handler that only
draws or moves the selection leaves the row as it is (`SameRow`). A relayout
whose swap put the selected window at its place keeps it there if nothing is
skipped: what is accepted then has the members of what was found and its order,
so that as many come before each as before (`DistinctCount`, `SamePlaces`).

A failed best-effort redraw (close button mode, icon, pointer after a rebuild)
leaves a stale picture that only the next redraw of that tile repairs. A source
that refuses to close stays in `pending_closes`, so that further clicks on its
button post nothing while the session lasts. The model has both.

## 9. Which windows, and where: `Candidates` over `GridLayout`

`EnumWindows` takes its list once and calls back for each window; each callback
reads styles, cloaking and the last active popup of that moment. So `Visit` is
one step, and other programs change their windows (`LookChanges`,
`ActiveChanges`) between any two. `Layout::new` lists the monitors, measures
each candidate and drops what has gone (`Measure`); `Arrange` is
`GridLayout::arrange` with `fit_inside`.

* `GroupRepresented`: an enumeration during which nothing changed (`quiet`)
  offers every application whose root could be shown, whatever popup it
  activated last.
* `OneTilePerGroup`: nor does it offer one twice, windows with
  `WS_EX_APPWINDOW` excepted.
* `TilesApart`: every measured candidate has a tile on its monitor, inside the
  working area, at least a pixel and never enlarged, and no two share a pixel.

Undisturbed is needed: a popup that is activated between the callback for it
and the one for its owner makes the group missing or double until the next
enumeration. And of a group whose root is hidden, nothing is promised: if its
last active popup is a tool window, the root stands for the group and is not
eligible itself, though another owned window may be.

*Numbers.* The code computes in single precision and rounds half to even. The
model computes the exact fractions (in units in which cells and margins are
whole) and rounds the same way; where the two round to different pixels the
code's value is off by one, which the margins of 0.5% of the monitor absorb on
any monitor of more than 150 pixels.

*Bounds.* Three windows of one application, two of them owned, in six looks,
and up to four other windows, so that grids of one to seven cells, with an
incomplete last row, occur; two monitors, one at negative coordinates, one of
them perhaps not listed; sources that are wide, tall, larger than the monitor,
smaller than a cell, empty or gone. The looks of the single windows and the
sources' sizes are sampled, not enumerated.

`CandidatesProofs` proves the types and the first two properties for any
windows, owners and looks: while nothing changes the candidates are at every
callback exactly the visited windows that are eligible now, and of the rest of
the group at most one passes `is_alt_tab_window`, since each compares itself
with the same popup or the same root.

`TilesStayApart` proves `TilesApart` for any number of windows and any sizes,
on monitors with room (`Roomy`): more than 50 pixels each way, and a cell of the
grid wider and higher than its margins by a pixel. A screen of 1920 by 1080 has
room for 7,832 windows; without room the code gives a tile no pixels at all,
and with thinner margins neighbours can share one (nine columns on 38 pixels).
The argument: rounding is off by half at most (`Rounded`); so a fitted source,
which is no larger than its room (`Scale`), begins half a pixel early and ends
one late at most, whether or not it is widened to one pixel (`Axis`, `KeepsTo`).
Between two cells lie two margins, together more than half a pixel, and a
distance between whole pixels that is greater than -1 is not negative (`Beside`;
`Within` for the edge of the working area). Cells are told apart by quotient and
remainder of the rank (`OtherCell`), ranks by counting (`Ranks`).

## 10. Processes and the hook thread: `Program`

| Model | Code |
|---|---|
| `mutex` | the named mutex: its owner, free, or abandoned by one that died |
| `ui[p].main`, `nested`, `teardown` | where `main`, its message loop or message box, and `close_for_shutdown` have got to |
| `ui[p].window`, `hooked`, `asked` | the owner window, whether `App` holds a `KeyHook`, a queued `WM_CLOSE` |
| `hook[p].at` | the place in `hook_thread` |
| `disposed`, `quit`, `hookId`, `active`, `startup` | `HookShared` and the channels; `quit` is a queued `WM_QUIT`, `hookId` that `hook_id` is not null |
| `teardown` or `at` = `"unhooking"` | in `uninstall_hook`, between its swap and its `UnhookWindowsHookEx`, with the handle in a local variable |
| `installed`, `icon` | what Windows and the shell have registered |

The UI thread starts the hook with a bounded wait and may give up at any place
the hook thread has reached; shutdown posts `WM_QUIT` (which is lost while the
thread has no queue), waits, unhooks, waits again and detaches. The hook thread
moves one native call at a time and may hang in any (`Hang`). Both may unhook:
each swaps the handle out of the shared state (`TakeHandle`, `TakeOwnHandle`) and
takes the hook out in a later step, if it got one (`Unhook`, `Uninstall`), the
other moving in between. Requests to close
arrive at any time, inside a handler (posted again) or in the tray menu's loop.
A process may be killed between any two steps; its mutex is then abandoned, or
gone with the last handle.

* `OneInstance`: at most one process has the owner window, the icon or a hook
  that takes keys. A thread that was given up in start-up may still install its
  hook for a moment after the mutex is free; `disposed` keeps it from serving.
* `NothingDangles`: an icon has its window. An installed hook has its handle in
  exactly one place (`HandleAt`): in a local variable of the hook thread, in the
  shared state with a hook thread that has yet to come to `uninstall_hook`, or in
  a local variable of the UI thread that is about to take it out; and no handle
  is left of a hook that is gone. Until the handle is taken, callbacks find
  their state. That state may go before the hook does: the UI thread has swapped
  the handle and not yet unhooked, the hook thread finds none, clears
  `ACTIVE_HOOK` and ends. A callback then finds null and passes the key on
  (`key_hook.rs` 470-473), and the hook is the UI thread's to take out. That
  Windows removes the hooks of a thread that ended is not assumed.
* `RefusedByAnother`: a launch is turned away only by a process that has the
  mutex.
* `CloseHonoured`: a request to close ends the process, even with a hook thread
  that hangs.
* `GivenUpHookEnds`: a hook that was given up is taken out, unless its thread
  hangs.

*Fairness.* Start-up, shutdown, the end of a handler and each thread go on
(`WF`); `WM_CLOSE` is retrieved though other messages come in between (`SF`);
a menu or message box is only known to return once its window is gone. Waits
may run out at any time. *Bounds.* Two processes, each started any number of
times; the proofs are for any number.

`ProgramProofs` proves the types and the three safety properties. A process
between acquisition and release owns the mutex (`MutexHeld`), and only such a
process has a window, an icon or a hook that is not disposed (`Owned`,
`HookOwned`): the guard is acquired first and released last, and every way out
of start-up or the loop disposes the hook before. Where the handle can be is
`HandleShape`: the two swaps leave it with one thread, and what the UI thread
has taken the hook thread no longer finds.

Left out: the `AlreadyInstalled` branch of `hook_thread`, which no caller can
reach as each start makes a state of its own; and a failing `NIM_DELETE`, which
leaves a picture in the tray until the pointer passes (`icon` is the
registration). A `GetMessage` error, which ends the hook thread while the
program goes on without a hook (`key_hook.rs` 428), is modelled, and no property
forbids it.

## 11. The runs

| Run | Distinct states | Shows |
|---|---|---|
| `KeyHookBalance` | 156,383 | `GateExclusive`, `NoStuckKey`, `NoStrayRelease`, `GateClears`, `SessionOwnsAlt`, `Quarantine`: Alt, Ctrl, Shift and Tab in every order, Alt and Shift perhaps already down and unseen when the hook is installed or reset, with auto-repeat, refused admissions, partial SendInput, desktop interruptions, cancellations and disposal between any two steps: no key is left down or released unpaired, no session is admitted over an Alt the target holds, and a visible session leaks no key-down. |
| `KeyHookTwoShifts` | 64,738 | `GateClears`, `Quarantine`: Both Shift keys under Alt+Tab: balancing, deferring and replaying two Shifts leaves nothing blocked or deferred once all keys are up, and no Shift reaches the target during a session. |
| `KeyHookSharedRelease` | counterexample | `NoStrayRelease`: The release ledger has one bit for both Alts: with two Alts held through a session, the second release reaches the target although its press was swallowed. |
| `DispatcherQueue` | 101,342 | `Accounting`, `SlotForReservation`, `ReserveKept`, `ShutdownReleasesAll`, `ImplementsQueue`, `NothingStranded`: Five inputs through a queue of two slots and a reserve, with posts that fail, re-entrant messages, two invalidations and the teardown between any two steps of the two threads: count, slots and messages agree, and together they are the bounded FIFO queue of KeyQueue; every accepted input is delivered or forgotten with its session. |
| `SwitcherPort` | 2,560 | `PortAgrees`, `ImplementsPort`: Three previews, one key of every kind, the pointer, timers and interruptions in any order with every native call failing: the controller's count and selection stay those of the previews on the screen, and the two together are a SessionPort. |
| `FrigoTabSession` | 108,664 | `VisibleIsGuarded`, `GuardHasReason`, `DrivesHook`: Alt and Tab through the hook, a queue of one slot and its reserve, failing posts, partial SendInput, interruptions, shutdown and the controller, with every handler's calls on the hook interleaved with further keys: the hook holds the keyboard while a session is visible and for no other reason, and is driven only in the ways KeyHook allows. |
| `FrigoTabAnswer` | 15,548 | `TapEnds`, `AdmissionAnswered`: Under the fairness of the message loop an admitted Alt+Tab is shown or given back, and a Tap session ends once Alt is up, even if it was up before the session was shown and the queue was full. |
| `Backdrop` | 199,653 | `RefreshAccounted`, `PostsToOwner`, `BackdropCovers`, `HandlersReturn`, `FrameCatchesUp`: Two desktop geometries, a game's and none, with up to three changes of the display, opened or interrupted sessions and changes of mode, captures that fail or hang and a shutdown at any point: captures are accounted for, the session keeps its frame, no handler waits for Explorer, and the retained frame follows the desktop unless its refresh was given up. |
| `BackdropAbandoned` | counterexample | `PersistedChangeReplaces`: With every native call working, an Alt+Tab that finds no window stops the timer that would have replaced the frame of the old geometry, and nothing starts it again. |
| `SessionPreviews` | 127,614 | `FlagsAgree`, `PicturesCurrent`, `WatchedWhileShown`, `ReplacementsKeepChoice`, `ImplementsPort`, `GoneTilesLeave`: Two sources that show, hide and die at any time, listed in any order, with candidates skipped and redraws, timers and posts failing: the tiles, the collection and the controller agree, a replacement of the previews keeps the selected window wherever that can keep its place, and the tile of a dead window leaves the screen although another preview is alive. |
| `Program` | 144,324 | `OneInstance`, `NothingDangles`, `RefusedByAnother`, `CloseHonoured`, `GivenUpHookEnds`: Two processes started again and again, with every step of start-up failing, waits that run out, a hook thread that hangs in any native call, requests to close inside handlers, menus and message boxes, and either process killed at any point: one instance has the desktop, a close ends the process, a hook that was given up goes. |
| `Candidates` | 478,080 | `GroupRepresented`, `OneTilePerGroup`, `TilesApart`: An application with two owned windows whose styles, cloaking, visibility and last active popup change between any two callbacks of an enumeration, among others, on two monitors with sources of every shape, some gone when measured: an undisturbed enumeration offers each application once, and tiles never share a pixel. |

Every property of a passing run has a mutant in PROJECT.json: a definition of
the module changed as a bug of the code would, under which the run fails. The
type invariants are proved for all constants and in no run.

## 12. What is proved, and what is only checked

The theorems are listed in PROJECT.json and hold for all constants under the
modules' `ASSUME`s (`KeysAssumption`, also as `HookAssumption`,
`DispatcherAssumption`, `SwitcherAssumption`, `FrigoTabAssumption`, `GeometryAssumption`,
`BoundAssumption`, `SourcesAssumption`, `RootAssumption`, `LookAssumption`,
`OrderAssumption`, `MeasureAssumption`, `ProcessesAssumption`), which say that
keys are keys, that geometries are distinct, that capacities and counts are
positive, that sources are finitely many, that an owner's owner is its root,
that a list of windows holds whole groups, that rectangles are made of integers,
and that switches are Boolean. TLC evaluates each in a run.

Four theorems of `KeyHookProofs`, `BalanceInProgram` and `TilesStayApart` have a
hypothesis of their own on the keyboard or the monitors, named in sections 3 and 9 with what goes
wrong without it; the constants of the runs satisfy them.

Only model-checked is liveness under fairness: `NothingStranded`,
`AdmissionAnswered`, `TapEnds`, `HandlersReturn`, `FrameCatchesUp`,
`GoneTilesLeave`, `CloseHonoured`, `GivenUpHookEnds`. The prover has no rule for
`ENABLED` or fairness.

## 13. What is not modelled

Drawing, the pixels of a capture and the inside of a tile are calls of GDI and
DWM whose result no property here is about. Of the tray the menu's drawing and
its checkmarks are left out (its actions are handlers of `FrigoTab`, `Backdrop`,
`Session` and `Program`). Of the window icons only the
redraw of a tile by a late answer is modelled, not who destroys the handle. The
acceptance tests were read for what they say the program promises. An end of
session (`WM_QUERYENDSESSION`) sent while a handler has the application borrowed
is dropped by the window procedure; the models deliver it between handlers
only. A `WM_DESKTOP_SNAPSHOT_READY` would be dropped too if it came while the
application is borrowed (`main.rs` 397-402); `Backdrop` has no such step,
because the message is posted, and the loops that retrieve posted messages (the
main one, the tray menu's and the message box's of a failed start) run without a
borrow. `FrigoTab` and `Session` meet in `SessionPort` only: their product is out of
TLC's reach.
