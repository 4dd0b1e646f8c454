------------------------------- MODULE Backdrop -------------------------------
(***************************************************************************)
(* The backdrop of a session: the shell frame SessionWindow retains, the   *)
(* worker thread that captures a new one, the timer that waits for the     *)
(* display to settle, and the UI thread's handlers that start, publish and *)
(* discard captures.  The display changes under all of them, so the UI     *)
(* thread's reads of it and of the worker's flags are steps of their own.  *)
(*                                                                         *)
(* A geometry stands for the bounds of the virtual screen; a frame for the *)
(* geometry it was captured in.                                            *)
(***************************************************************************)
EXTENDS Integers, FiniteSets

CONSTANTS
  Persistent,     \* geometries the registry agrees with
  Transient,      \* geometries of a temporary, exclusive mode
  Void,           \* an empty rectangle
  None,           \* no frame, no handle
  Threads,        \* identities of capture threads
  MaxWaitTicks,   \* DISPLAY_MAX_WAIT_TICKS
  MaxEvents,      \* bound on what users and displays do
  NativeMayFail   \* may captures, timers, posts and windows fail?

ASSUME GeometryAssumption ==
  /\ Persistent \cap Transient = {}
  /\ {Void, None} \cap (Persistent \cup Transient) = {} /\ Void # None
ASSUME BoundAssumption ==
  /\ MaxWaitTicks \in Nat \ {0} /\ MaxEvents \in Nat /\ NativeMayFail \in BOOLEAN
  /\ None \notin Threads

Geometry == Persistent \cup Transient
Bounds == Geometry \cup {Void}
Modes == {"FullDesktop", "Black"}
StableTicks == 2

VARIABLES
  display,    \* what virtual_screen_bounds reads
  notices,    \* display notifications the UI thread has not handled
  events,     \* how much users and displays did
  mode,       \* the background mode
  frame,      \* geometry of the retained snapshot, or None
  owner,      \* owner_bounds
  visible,    \* applications.is_some()
  relayout,   \* the display relayout timer and its samples
  running,    \* snapshot_refresh_running
  slot,       \* snapshot_completion: geometry of the finished capture, or None
  threads,    \* what each capture thread does, and for which bounds
  handle,     \* snapshot_worker
  ready,      \* posted WM_DESKTOP_SNAPSHOT_READY messages
  life,       \* of the window
  ui,         \* where the UI thread is in its handler
  abandoned   \* history: a wanted refresh was given up

world == <<display, notices, events>>
picture == <<mode, frame, owner, visible>>
capture == <<running, slot, threads, handle, ready>>
vars == <<world, picture, relayout, capture, life, ui, abandoned>>

-----------------------------------------------------------------------------
(* The UI thread's control and its timer.                                  *)

\* A handler that is at its next step, and where its refresh returns to.
At(step) == [at |-> step, bounds |-> Void, after |-> "idle", grace |-> "none"]
Goto(step) == ui' = [ui EXCEPT !.at = step]
Return == ui' = [ui EXCEPT !.at = ui.after, !.bounds = Void]
UiIdle == ui.at = "idle" /\ life = "open"

\* current_display_geometry_is_persisted() == Some(false).
Exclusive == display \in Transient

\* Does a native call work?  Does Explorer render its desktop?
Works == IF NativeMayFail THEN BOOLEAN ELSE {TRUE}
Captures == Works

\* What SessionPainter::paint shows in FullDesktop mode, black failing that.
PaintsFrame == frame # None /\ frame = owner

\* stop_display_relayout.
Stopped ==
  [pending |-> FALSE, bounds |-> Void, stable |-> 0, elapsed |-> 0,
   rebuild |-> FALSE]

\* schedule_display_relayout; set is SetTimer's answer.
Scheduled(old, rebuild, set) ==
  [pending |-> set, bounds |-> display, stable |-> 0, elapsed |-> 0,
   rebuild |-> old.rebuild \/ rebuild]

\* One sample of display_relayout_ready.
Sampled(r) ==
  LET steady == display \in Persistent /\ display = r.bounds
  IN [r EXCEPT !.elapsed = @ + 1,
               !.bounds = IF display = Void THEN @ ELSE display,
               !.stable = IF steady THEN @ + 1 ELSE 0]

TimedOut(r) == r.elapsed >= MaxWaitTicks

\* The geometry a session is laid out in: that of the frame it would show.
SessionBounds ==
  IF mode = "FullDesktop" /\ frame # None THEN frame ELSE display

Done == [at |-> "done", bounds |-> Void]

\* The completion mutex; the UI thread holds it only within one step.
LockFree == \A t \in Threads : threads[t].at \notin {"filled", "leaving"}

\* SessionWindow::new.
Init ==
  /\ display \in Geometry
  /\ frame \in {None} \cup ({display} \cap Persistent)
  /\ notices = 0 /\ events = 0
  /\ mode = "FullDesktop" /\ owner = Void /\ visible = FALSE
  /\ relayout = Stopped
  /\ running = FALSE /\ slot = None /\ handle = None /\ ready = 0
  /\ threads = [t \in Threads |-> Done]
  /\ life = "open" /\ ui = At("idle") /\ abandoned = (frame = None)

-----------------------------------------------------------------------------
(* The world.                                                              *)

Happens == events < MaxEvents /\ events' = events + 1

\* Windows tells of every change, but perhaps not of the return from a
\* temporary mode.
ChangeDisplay(geometry) ==
  /\ Happens
  /\ geometry # display /\ display' = geometry
  /\ \/ notices' = notices + 1
     \/ display \in Transient /\ geometry \in Persistent /\ UNCHANGED notices
  /\ UNCHANGED <<picture, relayout, capture, life, ui, abandoned>>

-----------------------------------------------------------------------------
(* The display timer.                                                      *)

\* WM_DISPLAYCHANGE and App::display_environment_changed.
DisplayEnvironmentChanged ==
  /\ UiIdle
  /\ notices > 0 /\ notices' = notices - 1
  /\ \E set \in Works :
       /\ relayout' = Scheduled(relayout, TRUE, set)
       /\ ui' = IF set THEN ui ELSE At(IF visible THEN "relayout" ELSE "query")
  /\ abandoned' = FALSE
  /\ UNCHANGED <<display, events, picture, capture, life>>

\* WM_TIMER and display_relayout_ready.
Tick ==
  /\ UiIdle /\ relayout.pending
  /\ relayout' = Sampled(relayout)
  /\ ui' = IF TimedOut(relayout') \/ relayout'.stable >= StableTicks
             THEN At(IF visible THEN "relayout" ELSE "settled") ELSE ui
  /\ UNCHANGED <<world, picture, capture, life, abandoned>>

\* refresh_snapshot_after_display_change: gives a long exclusive mode up.
RefreshAfterDisplayChange ==
  /\ ui.at = "settled"
  /\ relayout' = Stopped
  /\ LET exclusive == TimedOut(relayout) /\ Exclusive
     IN /\ ui' = At(IF exclusive THEN "idle" ELSE "query")
        /\ abandoned' = (abandoned \/ exclusive)
  /\ UNCHANGED <<world, picture, capture, life>>

Again == \E set \in Works : relayout' = Scheduled(Stopped, TRUE, set)
AgainInTime == IF TimedOut(relayout) THEN relayout' = Stopped ELSE Again

\* relayout_session: once the display is settled the previews are rebuilt in
\* the frame's geometry, or that is tried again.
RelayoutSession ==
  /\ ui.at = "relayout" /\ ui' = At("idle")
  /\ \/ /\ display \notin Persistent
        /\ AgainInTime /\ UNCHANGED owner
     \/ /\ display \in Persistent
        /\ SessionBounds = owner /\ ~relayout.rebuild
        /\ relayout' = Stopped /\ UNCHANGED owner
     \/ /\ display \in Persistent
        /\ SessionBounds # owner \/ relayout.rebuild
        /\ \/ Again /\ UNCHANGED owner
           \/ NativeMayFail /\ AgainInTime /\ UNCHANGED owner
           \/ NativeMayFail /\ Again /\ owner' = SessionBounds
           \/ relayout' = Stopped /\ owner' = SessionBounds
  /\ UNCHANGED <<world, mode, frame, visible, capture, life, abandoned>>

-----------------------------------------------------------------------------
(* Queueing a capture, a step for each read of what others change.         *)

\* queue_desktop_snapshot_refresh_current: a temporary mode is waited out.
QueueRefresh ==
  /\ ui.at = "query"
  /\ IF Exclusive
       THEN /\ Return
            /\ IF visible THEN UNCHANGED <<relayout, abandoned>>
               ELSE \E set \in Works :
                      /\ relayout' = Scheduled(relayout, FALSE, set)
                      /\ abandoned' = (abandoned \/ ~set)
       ELSE Goto("bounds") /\ UNCHANGED <<relayout, abandoned>>
  /\ UNCHANGED <<world, picture, capture, life>>

ReadBounds ==
  /\ ui.at = "bounds"
  /\ ui' = [ui EXCEPT !.bounds = display, !.at = "reap"]
  /\ UNCHANGED <<world, picture, relayout, capture, life, abandoned>>

\* Mutant: the worker is joined even while it captures.
ReapAlways ==
  /\ ui.at \in {"reap", "join"}
  /\ \A t \in Threads : handle = t => threads[t].at = "done"
  /\ handle' = None
  /\ Goto(IF ui.at = "reap" THEN "claim" ELSE "take")
  /\ UNCHANGED <<world, picture, relayout, running, slot, threads, ready, life,
                 abandoned>>

\* reap_finished_snapshot_worker: the join waits for the worker to end.
Reap ==
  /\ ui.at \in {"reap", "join"}
  /\ \A t \in Threads : ~running /\ handle = t => threads[t].at = "done"
  /\ handle' = IF running THEN handle ELSE None
  /\ Goto(IF ui.at = "reap" THEN "claim" ELSE "take")
  /\ UNCHANGED <<world, picture, relayout, running, slot, threads, ready, life,
                 abandoned>>

\* Any thread that is not in use; a worker not joined yet is detached.
Spawn ==
  LET t == CHOOSE t \in Threads : threads[t] = Done
  IN /\ \E free \in Threads : threads[free] = Done
     /\ threads' = [threads EXCEPT ![t] = [at |-> "capturing", bounds |-> ui.bounds]]
     /\ running' = TRUE /\ handle' = t

\* queue_desktop_snapshot_refresh after the reap: one capture at a time.
Claim ==
  /\ ui.at = "claim" /\ Return
  /\ IF mode # "FullDesktop" \/ ui.bounds = Void \/ running
       THEN UNCHANGED <<capture, abandoned>>
       ELSE \/ Spawn /\ UNCHANGED <<slot, ready, abandoned>>
            \/ NativeMayFail /\ abandoned' = TRUE /\ UNCHANGED capture
  /\ UNCHANGED <<world, picture, relayout, life>>

-----------------------------------------------------------------------------
(* The capture thread.                                                     *)

Thread(t, at) == threads' = [threads EXCEPT ![t].at = at]
End(t) == threads' = [threads EXCEPT ![t] = Done]

\* ShellDesktopSnapshot::capture, which may also never return.
FinishCapture(t) ==
  /\ threads[t].at = "capturing"
  /\ \E available \in Captures :
       IF available
         THEN Thread(t, "captured") /\ UNCHANGED <<running, abandoned>>
         ELSE End(t) /\ running' = FALSE /\ abandoned' = TRUE
  /\ UNCHANGED <<world, picture, relayout, slot, handle, ready, life, ui>>

\* Mutant: the worker looks at the disposal request before it takes the lock.
StoreUnasked(t) ==
  /\ threads[t].at = "captured" /\ LockFree
  /\ slot' = threads[t].bounds /\ Thread(t, "filled") /\ UNCHANGED running
  /\ UNCHANGED <<world, picture, relayout, handle, ready, life, ui, abandoned>>

\* The finalization gate: under the lock the worker sees a disposal.
Store(t) ==
  /\ threads[t].at = "captured" /\ LockFree
  /\ IF life = "open"
       THEN slot' = threads[t].bounds /\ Thread(t, "filled") /\ UNCHANGED running
       ELSE Thread(t, "leaving") /\ running' = FALSE /\ UNCHANGED slot
  /\ UNCHANGED <<world, picture, relayout, handle, ready, life, ui, abandoned>>

\* Mutant: the flag is cleared as soon as the capture is posted.
PostAndClear(t) ==
  /\ threads[t].at = "filled" /\ Thread(t, "leaving")
  /\ running' = FALSE
  /\ \/ /\ life # "destroyed"
        /\ ready' = ready + 1 /\ UNCHANGED <<slot, abandoned>>
     \/ /\ NativeMayFail \/ life = "destroyed"
        /\ slot' = None /\ abandoned' = TRUE
        /\ UNCHANGED ready
  /\ UNCHANGED <<world, picture, relayout, handle, life, ui>>

\* PostMessageW(WM_DESKTOP_SNAPSHOT_READY), still under the lock.
Post(t) ==
  /\ threads[t].at = "filled" /\ Thread(t, "leaving")
  /\ \/ /\ life # "destroyed"
        /\ ready' = ready + 1 /\ UNCHANGED <<slot, running, abandoned>>
     \/ /\ NativeMayFail \/ life = "destroyed"
        /\ slot' = None /\ running' = FALSE /\ abandoned' = TRUE
        /\ UNCHANGED ready
  /\ UNCHANGED <<world, picture, relayout, handle, life, ui>>

\* The lock is released and the thread ends.
Leave(t) ==
  /\ threads[t].at = "leaving" /\ End(t)
  /\ UNCHANGED <<world, picture, relayout, running, slot, handle, ready, life,
                 ui, abandoned>>

-----------------------------------------------------------------------------
(* Publishing what was captured.                                           *)

\* publish_desktop_snapshot up to the join.
Publish ==
  /\ UiIdle /\ ready > 0 /\ ready' = ready - 1
  /\ running' = FALSE
  /\ ui' = At("join")
  /\ UNCHANGED <<world, picture, relayout, slot, threads, handle, life, abandoned>>

\* Mutant: a capture of another geometry is dropped for good.
TakeOrDrop ==
  /\ ui.at = "take" /\ LockFree
  /\ slot' = None /\ ui' = At("idle")
  /\ frame' = IF slot = display /\ ~visible THEN slot ELSE frame
  /\ UNCHANGED <<world, mode, owner, visible, relayout, running, threads, handle,
                 ready, life, abandoned>>

\* Mutant: a capture is published under a visible session.
TakeWhileVisible ==
  /\ ui.at = "take" /\ LockFree
  /\ slot' = None
  /\ frame' = IF slot = display THEN slot ELSE frame
  /\ ui' = At(IF slot \notin {None, display} /\ mode = "FullDesktop"
                THEN "query" ELSE "idle")
  /\ UNCHANGED <<world, mode, owner, visible, relayout, running, threads, handle,
                 ready, life, abandoned>>

\* publish_desktop_snapshot after the join: a visible session keeps its frame,
\* a capture the display has outlived is made again.
TakeCompletion ==
  /\ ui.at = "take" /\ LockFree
  /\ slot' = None
  /\ frame' = IF slot = display /\ ~visible THEN slot ELSE frame
  /\ ui' = At(IF slot \notin {None, display} /\ ~visible /\ mode = "FullDesktop"
                THEN "query" ELSE "idle")
  /\ UNCHANGED <<world, mode, owner, visible, relayout, running, threads, handle,
                 ready, life, abandoned>>

-----------------------------------------------------------------------------
(* Sessions and settings.                                                  *)

\* try_open_session up to the refresh it queues; a session without windows, or
\* one that cannot be placed, is closed again by the controller.
TryOpenSession ==
  /\ UiIdle /\ ~visible /\ Happens
  /\ relayout' = Stopped
  /\ abandoned' = (abandoned \/ relayout.pending)
  /\ \/ ui' = At("unopened") /\ UNCHANGED owner
     \/ /\ display # Void
        /\ owner' = SessionBounds
        /\ \E fullscreen \in BOOLEAN :
             ui' = [at |-> IF mode = "FullDesktop" /\ frame # owner' /\ ~fullscreen
                             THEN "query" ELSE "show",
                    bounds |-> Void,
                    after |-> "show",
                    grace |-> IF ~fullscreen /\ ~Exclusive THEN "none"
                              ELSE IF Exclusive \/ owner' # display
                                THEN "rebuild" ELSE "keep"]
  /\ UNCHANGED <<display, notices, mode, frame, visible, capture, life>>

\* The rest of it: the previews are built and shown, or the session fails.
ShowSession ==
  /\ ui.at = "show"
  /\ \/ /\ visible' = TRUE /\ ui' = At("idle")
        /\ IF ui.grace = "none" THEN UNCHANGED relayout
           ELSE \E set \in Works :
                  relayout' = Scheduled(relayout, ui.grace = "rebuild", set)
        /\ UNCHANGED abandoned
     \/ /\ NativeMayFail
        /\ ui' = At("unopened") /\ UNCHANGED <<visible, relayout, abandoned>>
     \/ /\ NativeMayFail
        /\ ui' = [At("query") EXCEPT !.after = "unopened"]
        /\ relayout' = Stopped
        /\ abandoned' = FALSE /\ UNCHANGED visible
  /\ UNCHANGED <<world, mode, frame, owner, capture, life>>

\* The controller's close after an open that showed nothing.
CloseUnopened ==
  /\ ui.at = "unopened" /\ ui' = At("idle")
  /\ relayout' = Stopped
  /\ abandoned' = (abandoned \/ relayout.pending)
  /\ UNCHANGED <<world, picture, capture, life>>

\* close_session_resources: a visible session's end queues a refresh.
CloseSession ==
  /\ UiIdle /\ visible
  /\ visible' = FALSE
  /\ relayout' = Stopped /\ ui' = At("query") /\ abandoned' = FALSE
  /\ UNCHANGED <<world, mode, frame, owner, capture, life>>

\* App::interrupt closes whether or not a session is visible.
InterruptIdle ==
  /\ UiIdle /\ ~visible /\ Happens
  /\ ui' = At("unopened")
  /\ UNCHANGED <<display, notices, picture, relayout, capture, life, abandoned>>

SetBackgroundMode(m) ==
  /\ UiIdle /\ Happens
  /\ mode # m /\ mode' = m
  /\ ui' = At(IF m = "FullDesktop" /\ ~visible THEN "query" ELSE "idle")
  /\ UNCHANGED <<display, notices, frame, owner, visible, relayout, capture,
                 life, abandoned>>

-----------------------------------------------------------------------------
(* The end: SessionWindow::dispose in two steps, then DestroyWindow.       *)

RequestDisposal ==
  /\ UiIdle
  /\ life' = "disposing"
  /\ visible' = FALSE /\ relayout' = Stopped
  /\ UNCHANGED <<world, mode, frame, owner, capture, ui, abandoned>>

\* The completion mutex is taken, the worker is detached, the frame freed.
FinalizeDisposal ==
  /\ life = "disposing" /\ LockFree
  /\ life' = "disposed"
  /\ slot' = None /\ handle' = None /\ frame' = None
  /\ UNCHANGED <<world, mode, owner, visible, relayout, running, threads, ready,
                 ui, abandoned>>

\* Messages posted to the window are gone with it.
DestroyOwner ==
  /\ life = "disposed" /\ life' = "destroyed"
  /\ notices' = 0 /\ ready' = 0
  /\ UNCHANGED <<display, events, picture, relayout, running, slot, threads,
                 handle, ui, abandoned>>

-----------------------------------------------------------------------------
UiStep ==
  \/ RefreshAfterDisplayChange \/ RelayoutSession
  \/ QueueRefresh \/ ReadBounds \/ Reap \/ Claim \/ TakeCompletion
  \/ ShowSession \/ CloseUnopened
  \/ FinalizeDisposal \/ DestroyOwner

Next ==
  \/ \E geometry \in Bounds : ChangeDisplay(geometry)
  \/ DisplayEnvironmentChanged \/ Tick \/ Publish
  \/ TryOpenSession \/ CloseSession \/ InterruptIdle
  \/ \E m \in Modes : SetBackgroundMode(m)
  \/ RequestDisposal
  \/ UiStep
  \/ \E t \in Threads : FinishCapture(t) \/ Store(t) \/ Post(t) \/ Leave(t)

Spec == Init /\ [][Next]_vars

\* The UI thread finishes its handlers and retrieves its messages; a capture
\* thread goes on once Explorer has answered it, which it need not do.
FairSpec ==
  /\ Spec
  /\ WF_vars(UiStep)
  /\ SF_vars(DisplayEnvironmentChanged) /\ SF_vars(Publish) /\ SF_vars(Tick)
  /\ \A t \in Threads : WF_vars(Store(t) \/ Post(t) \/ Leave(t))

-----------------------------------------------------------------------------
(* Properties.                                                             *)

\* Only rectangles that hold something are captured, retained or laid out in.
TypeOK ==
  /\ display \in Bounds /\ notices \in 0 .. MaxEvents /\ events \in 0 .. MaxEvents
  /\ mode \in Modes /\ visible \in BOOLEAN
  /\ frame \in Geometry \cup {None} /\ owner \in Bounds
  /\ relayout \in [pending : BOOLEAN, bounds : Bounds, stable : 0 .. StableTicks,
                   elapsed : 0 .. MaxWaitTicks, rebuild : BOOLEAN]
  /\ running \in BOOLEAN /\ slot \in Geometry \cup {None}
  /\ threads \in [Threads -> [at : {"capturing", "captured", "filled",
                                    "leaving", "done"}, bounds : Bounds]]
  /\ handle \in Threads \cup {None} /\ ready \in 0 .. 1
  /\ life \in {"open", "disposing", "disposed", "destroyed"}
  /\ ui \in [at : {"idle", "settled", "relayout", "query", "bounds", "reap",
                   "claim", "join", "take", "show", "unopened"},
             bounds : Bounds, after : {"idle", "show", "unopened"},
             grace : {"none", "keep", "rebuild"}]
  /\ abandoned \in BOOLEAN

Underway == {t \in Threads : threads[t].at \in {"capturing", "captured", "filled"}}

\* snapshot_refresh_running is exact while the window is open: it stands for
\* one capture that is being made or waits to be published.  Were it left set
\* no desktop would ever be captured again; were it cleared too soon a second
\* capture would start ("queues exactly one refresh", session_window.rs:147).
RefreshAccounted ==
  life = "open" => Cardinality(Underway) + ready = (IF running THEN 1 ELSE 0)

\* The finalization gate (session_window.rs:257): no worker posts to an owner
\* that is gone, however long its capture took.
PostsToOwner ==
  life = "destroyed" => \A t \in Threads : threads[t].at # "filled"

Covered == mode = "FullDesktop" /\ frame # None => PaintsFrame

\* "A retained Explorer frame is one indivisible image/geometry pair"
\* (session_window.rs:289): a session opens in the geometry of the frame it
\* shows and no display change, relayout or capture parts the two; only a
\* change of the mode can.
BackdropCovers ==
  [][visible' => Covered' \/ (visible /\ (~Covered \/ mode' # mode))]_vars

\* "A hung Explorer PrintWindow must not hang UI teardown"
\* (session_window.rs:263), nor any other handler: joins and the lock wait
\* only for a worker that has its picture.
HandlersReturn ==
  /\ ui.at # "idle" ~> ui.at = "idle"
  /\ life = "disposing" ~> life = "destroyed"

UpToDate ==
  \/ life # "open" \/ visible \/ mode # "FullDesktop"
  \/ display \notin Persistent \/ frame = display
  \/ \E t \in Threads : threads[t].at = "capturing"

\* Once displays and users rest, the frame retained while idle is that of the
\* desktop, or its refresh was given up: a native call failed, the wait for an
\* exclusive mode ran out, or an open or interruption stopped the timer.
FrameCatchesUp == events = MaxEvents ~> [](UpToDate \/ abandoned)

\* "... while still allowing a persisted monitor/resolution change to replace
\* it" (session_window.rs:378): a retained frame follows the desktop.
PersistedChangeReplaces ==
  events = MaxEvents ~> [](frame = None \/ UpToDate)
=============================================================================
