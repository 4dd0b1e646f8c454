----------------------------- MODULE BackdropProofs -----------------------------
(***************************************************************************)
(* Captures are accounted for and no worker posts to a window that is      *)
(* gone, for any displays, threads and bounds.  Neither is inductive: the  *)
(* flag is exact because handlers run only while the window is open, and   *)
(* because a message is posted only by the one capture under way, which    *)
(* then is none.                                                           *)
(***************************************************************************)
EXTENDS Backdrop, FiniteSetTheorems, TLAPS

ThreadState ==
  [at : {"capturing", "captured", "filled", "leaving", "done"}, bounds : Bounds]

Steps ==
  {"idle", "settled", "relayout", "query", "bounds", "reap", "claim", "join",
   "take", "show", "unopened"}

UiState ==
  [at : Steps, bounds : Bounds, after : {"idle", "show", "unopened"},
   grace : {"none", "keep", "rebuild"}]

Typed ==
  /\ display \in Bounds
  /\ threads \in [Threads -> ThreadState]
  /\ ui \in UiState
  /\ running \in BOOLEAN
  /\ life \in {"open", "disposing", "disposed", "destroyed"}

\* A handler runs only while the window is open.
HandlersOpen == life # "open" => ui.at = "idle"

\* One capture at most is made, and none while a message waits.
OneUnderway == \A s, t \in Underway : s = t
PostedAlone == ready \in 0 .. 1 /\ (ready = 1 => Underway = {})

FlagExact == life = "open" => (running <=> Underway # {} \/ ready = 1)

GateClosed == life \in {"disposed", "destroyed"} =>
                \A t \in Threads : threads[t].at # "filled"

IInv ==
  /\ Typed /\ HandlersOpen /\ OneUnderway /\ PostedAlone /\ FlagExact
  /\ GateClosed

-----------------------------------------------------------------------------
(* What the invariant gives.                                               *)

\* The invariant implies that the flag accounts for the capture.
LEMMA InvAccounts == IInv => RefreshAccounted
<1> SUFFICES ASSUME IInv, life = "open"
             PROVE  Cardinality(Underway) + ready = (IF running THEN 1 ELSE 0)
  BY DEF RefreshAccounted
<1>1. CASE Underway = {}
  <2>1. Cardinality(Underway) = 0
    BY <1>1, FS_EmptySet
  <2>2. running <=> ready = 1
    BY <1>1 DEF IInv, FlagExact
  <2> QED
    BY <2>1, <2>2 DEF IInv, PostedAlone
<1>2. CASE Underway # {}
  <2>1. PICK t : t \in Underway
    BY <1>2
  <2>2. Underway = {t}
    BY <2>1 DEF IInv, OneUnderway
  <2>3. Cardinality(Underway) = 1
    BY <2>2, FS_Singleton
  <2>4. running /\ ready = 0
    BY <1>2 DEF IInv, FlagExact, PostedAlone
  <2> QED
    BY <2>3, <2>4
<1> QED
  BY <1>1, <1>2

\* The invariant implies that no worker posts to a destroyed owner.
LEMMA InvGates == IInv => PostsToOwner
BY DEF IInv, GateClosed, PostsToOwner

\* The UI thread at a step without arguments is well typed.
LEMMA AtTyped ==
  ASSUME NEW step \in Steps PROVE At(step) \in UiState
BY DEF At, Bounds, UiState

\* The invariant holds of SessionWindow::new.
LEMMA InitInv == Init => IInv
<1> SUFFICES ASSUME Init PROVE IInv
  OBVIOUS
<1>1. Typed
  <2>1. At("idle") \in UiState
    BY AtTyped DEF Steps
  <2>2. Done \in ThreadState
    BY DEF Done, ThreadState, Bounds
  <2> QED
    BY <2>1, <2>2 DEF Init, Typed, Bounds
<1>2. Underway = {}
  BY DEF Init, Underway, Done
<1> QED
  BY <1>1, <1>2 DEF Init, IInv, HandlersOpen, OneUnderway, PostedAlone,
     FlagExact, GateClosed

-----------------------------------------------------------------------------
(* Most steps leave captures alone.                                        *)

\* A step that leaves the capture alone keeps what the invariant says of it.
LEMMA CaptureUntouched ==
  ASSUME IInv, UNCHANGED <<running, threads, ready, life>>, Typed', HandlersOpen'
  PROVE  IInv'
BY DEF IInv, OneUnderway, PostedAlone, FlagExact, GateClosed, Underway

\* A handler that begins or goes on does so while the window is open.
LEMMA HandlerStep ==
  ASSUME IInv, UNCHANGED <<running, threads, ready, life, display>>,
         ui' \in UiState,
         life = "open" \/ ui.at # "idle"
  PROVE  IInv'
<1>1. life = "open"
  BY DEF IInv, HandlersOpen
<1>2. Typed' /\ HandlersOpen'
  BY <1>1 DEF IInv, Typed, HandlersOpen
<1> QED
  BY <1>2, CaptureUntouched

\* The UI thread going on to its next step is well typed.
LEMMA GoesOn ==
  ASSUME IInv, NEW step \in Steps
  PROVE  [ui EXCEPT !.at = step] \in UiState
BY DEF IInv, Typed, UiState

\* The UI thread back in its caller is well typed.
LEMMA Returns ==
  ASSUME IInv
  PROVE  [ui EXCEPT !.at = ui.after, !.bounds = Void] \in UiState
BY DEF IInv, Typed, UiState, Steps, Bounds

\* The display changes, the timer runs, sessions come and go.
LEMMA DisplayPreserves ==
  ASSUME IInv, NEW geometry \in Bounds, ChangeDisplay(geometry)
  PROVE  IInv'
BY CaptureUntouched DEF ChangeDisplay, IInv, Typed, HandlersOpen, capture

\* The step named keeps the invariant.
LEMMA EnvironmentPreserves == ASSUME IInv, DisplayEnvironmentChanged PROVE IInv'
<1>1. ui' \in UiState
  BY AtTyped DEF DisplayEnvironmentChanged, IInv, Typed, Steps
<1> QED
  BY <1>1, HandlerStep DEF DisplayEnvironmentChanged, IInv, Typed, UiIdle, world, capture

\* The step named keeps the invariant.
LEMMA TickPreserves == ASSUME IInv, Tick PROVE IInv'
<1>1. ui' \in UiState
  BY AtTyped DEF Tick, IInv, Typed, Steps
<1> QED
  BY <1>1, HandlerStep DEF Tick, IInv, Typed, UiIdle, world, capture

\* The step named keeps the invariant.
LEMMA RefreshAfterPreserves == ASSUME IInv, RefreshAfterDisplayChange PROVE IInv'
<1>1. ui' \in UiState
  BY AtTyped DEF RefreshAfterDisplayChange, Steps
<1> QED
  BY <1>1, HandlerStep DEF RefreshAfterDisplayChange, UiIdle, world, capture

\* The step named keeps the invariant.
LEMMA RelayoutPreserves == ASSUME IInv, RelayoutSession PROVE IInv'
<1>1. ui' \in UiState
  BY AtTyped DEF RelayoutSession, Steps
<1> QED
  BY <1>1, HandlerStep DEF RelayoutSession, UiIdle, world, capture

\* The step named keeps the invariant.
LEMMA QueuePreserves == ASSUME IInv, QueueRefresh PROVE IInv'
<1>1. ui' \in UiState
  BY GoesOn, Returns DEF QueueRefresh, Goto, Return, Steps
<1> QED
  BY <1>1, HandlerStep DEF QueueRefresh, Goto, Return, UiIdle, world, capture

\* The step named keeps the invariant.
LEMMA ReadBoundsPreserves == ASSUME IInv, ReadBounds PROVE IInv'
<1>1. ui' \in UiState
  BY DEF ReadBounds, IInv, Typed, UiState, Steps
<1> QED
  BY <1>1, HandlerStep DEF ReadBounds, IInv, Typed, UiState, UiIdle, world, capture

\* The step named keeps the invariant.
LEMMA OpenPreserves == ASSUME IInv, TryOpenSession PROVE IInv'
<1>1. ui' \in UiState
  BY AtTyped DEF TryOpenSession, UiState, Bounds, Steps
<1> QED
  BY <1>1, HandlerStep DEF TryOpenSession, UiState, Bounds, UiIdle, world, capture

\* The step named keeps the invariant.
LEMMA ShowPreserves == ASSUME IInv, ShowSession PROVE IInv'
<1>1. [At("query") EXCEPT !.after = "unopened"] \in UiState
  BY AtTyped DEF Steps, UiState
<1>2. ui' \in UiState
  BY <1>1, AtTyped DEF ShowSession, Steps
<1> QED
  BY <1>2, HandlerStep DEF ShowSession, world, capture

\* The step named keeps the invariant.
LEMMA ClosePreserves == ASSUME IInv, CloseUnopened \/ CloseSession \/ InterruptIdle PROVE IInv'
<1>1. ui' \in UiState
  BY AtTyped DEF CloseUnopened, CloseSession, InterruptIdle, Steps
<1> QED
  BY <1>1, HandlerStep DEF CloseUnopened, CloseSession, InterruptIdle, UiIdle, world, capture

\* The step named keeps the invariant.
LEMMA ModePreserves ==
  ASSUME IInv, NEW m \in Modes, SetBackgroundMode(m) PROVE IInv'
<1>1. ui' \in UiState
  BY AtTyped DEF SetBackgroundMode, Steps
<1> QED
  BY <1>1, HandlerStep DEF SetBackgroundMode, UiIdle, capture

\* The step named keeps the invariant.
LEMMA RequestPreserves == ASSUME IInv, RequestDisposal PROVE IInv'
BY DEF RequestDisposal, UiIdle, IInv, Typed, HandlersOpen, OneUnderway,
   PostedAlone, FlagExact, GateClosed, Underway, capture, world

-----------------------------------------------------------------------------
(* The steps of a capture.                                                 *)

\* The step named keeps the invariant.
LEMMA ReapPreserves == ASSUME IInv, Reap PROVE IInv'
<1>1. ui' \in UiState
  BY GoesOn DEF Reap, Goto, Steps
<1> QED
  BY <1>1, HandlerStep DEF Reap, world

\* The step named keeps the invariant.
LEMMA TakePreserves == ASSUME IInv, TakeCompletion PROVE IInv'
<1>1. ui' \in UiState
  BY AtTyped DEF TakeCompletion, Steps
<1> QED
  BY <1>1, HandlerStep DEF TakeCompletion, world

\* The claim finds no capture and no message, so the new one is alone.
LEMMA ClaimPreserves == ASSUME IInv, Claim PROVE IInv'
<1>1. ui' \in UiState
  BY Returns DEF Claim, Return
<1>2. CASE UNCHANGED capture
  BY <1>1, <1>2, HandlerStep DEF Claim, world, capture
<1>3. CASE ~running /\ Spawn
  <2>1. life = "open"
    BY DEF Claim, IInv, HandlersOpen
  <2>2. Underway = {} /\ ready = 0
    BY <1>3, <2>1 DEF IInv, FlagExact, PostedAlone
  <2>3. UNCHANGED <<ready, display, life>>
    BY DEF Claim, capture, world
  <2>4. Underway = {} /\ ready = 0 /\ UNCHANGED <<ready, display, life>>
    BY <2>2, <2>3
  <2>5. PICK t \in Threads :
          /\ threads[t] = Done
          /\ threads' = [threads EXCEPT
                           ![t] = [at |-> "capturing", bounds |-> ui.bounds]]
    BY <1>3 DEF Spawn
  <2>6. Underway' = {t}
    BY <2>4, <2>5 DEF Underway, IInv, Typed
  <2>7. threads' \in [Threads -> ThreadState]
    BY <2>5 DEF IInv, Typed, ThreadState, UiState
  <2>8. Typed' /\ running'
    BY <1>1, <1>3, <2>4, <2>7 DEF Spawn, IInv, Typed
  <2> QED
    BY <2>1, <2>4, <2>6, <2>8
       DEF IInv, HandlersOpen, OneUnderway, PostedAlone, FlagExact, GateClosed
<1> QED
  BY <1>2, <1>3 DEF Claim, capture

\* A worker that stays under way, or was not, changes nothing of the account.
LEMMA ThreadMoves ==
  ASSUME IInv, NEW t \in Threads, NEW state \in ThreadState,
         threads' = [threads EXCEPT ![t] = state],
         UNCHANGED <<running, ready, life, display, ui>>,
         state.at \in {"capturing", "captured", "filled"} <=> t \in Underway,
         state.at = "filled" => life \notin {"disposed", "destroyed"}
  PROVE  IInv'
<1>1. Underway' = Underway
  BY DEF Underway, IInv, Typed
<1>2. Typed'
  BY DEF IInv, Typed
<1> QED
  BY <1>1, <1>2 DEF IInv, Typed, HandlersOpen, OneUnderway, PostedAlone,
     FlagExact, GateClosed

\* The worker under way was the only one; its end leaves none.
LEMMA ThreadEnds ==
  ASSUME IInv, NEW t \in Underway, NEW state \in ThreadState,
         threads' = [threads EXCEPT ![t] = state],
         state.at \in {"leaving", "done"},
         UNCHANGED <<life, display, ui>>,
         running' \in BOOLEAN, ready' \in 0 .. 1,
         life = "open" => (running' <=> ready' = 1)
  PROVE  IInv'
<1>1. Underway' = {}
  BY DEF Underway, IInv, Typed, OneUnderway
<1>2. Typed'
  BY DEF IInv, Typed, Underway
<1>3. GateClosed'
  BY DEF IInv, Typed, GateClosed, Underway
<1> QED
  BY <1>1, <1>2, <1>3 DEF IInv, HandlersOpen, OneUnderway, PostedAlone, FlagExact

\* A thread that goes on is well typed.
LEMMA ThreadTyped ==
  ASSUME IInv, NEW t \in Threads,
         NEW at \in {"capturing", "captured", "filled", "leaving", "done"}
  PROVE  /\ [threads[t] EXCEPT !.at = at] \in ThreadState
         /\ [threads EXCEPT ![t].at = at]
              = [threads EXCEPT ![t] = [threads[t] EXCEPT !.at = at]]
         /\ Done \in ThreadState
BY DEF IInv, Typed, ThreadState, Done, Bounds

\* The step named keeps the invariant.
LEMMA FinishPreserves ==
  ASSUME IInv, NEW t \in Threads, FinishCapture(t) PROVE IInv'
<1>1. t \in Underway /\ ready = 0
  BY DEF FinishCapture, Underway, IInv, PostedAlone
<1>2. CASE Thread(t, "captured") /\ UNCHANGED running
  BY <1>1, <1>2, ThreadMoves, ThreadTyped DEF FinishCapture, Thread, world, ThreadState
<1>3. CASE End(t) /\ running' = FALSE
  <2>1. running' = FALSE /\ UNCHANGED <<ready, life, display, ui>>
    BY <1>3 DEF FinishCapture, world
  <2>2. running' \in BOOLEAN /\ ready' \in 0 .. 1 /\ ready' # 1
    <3>1. running' \in BOOLEAN
      BY <2>1, Zenon
    <3>2. ready' = 0
      BY <1>1, <2>1
    <3> QED
      BY <3>1, <3>2
  <2>3. PICK state \in ThreadState :
          /\ threads' = [threads EXCEPT ![t] = state]
          /\ state.at \in {"leaving", "done"}
    BY <1>3, ThreadTyped DEF FinishCapture, End, Done
  <2> QED
    BY <1>1, <2>1, <2>2, <2>3, ThreadEnds
<1> QED
  BY <1>2, <1>3 DEF FinishCapture

\* Under the lock the worker fills the slot only while the window is open.
LEMMA StorePreserves == ASSUME IInv, NEW t \in Threads, Store(t) PROVE IInv'
<1>1. t \in Underway /\ ready = 0
  BY DEF Store, Underway, IInv, PostedAlone
<1>2. CASE life = "open"
  BY <1>1, <1>2, ThreadMoves, ThreadTyped DEF Store, Thread, world, ThreadState
<1>3. CASE life # "open"
  <2>1. running' = FALSE /\ UNCHANGED <<ready, life, display, ui>>
    BY <1>3 DEF Store, world
  <2>2. running' \in BOOLEAN /\ ready' \in 0 .. 1 /\ ready' # 1
    <3>1. running' \in BOOLEAN
      BY <2>1, Zenon
    <3>2. ready' = 0
      BY <1>1, <2>1
    <3> QED
      BY <3>1, <3>2
  <2>3. PICK state \in ThreadState :
          /\ threads' = [threads EXCEPT ![t] = state]
          /\ state.at \in {"leaving", "done"}
    BY <1>3, ThreadTyped DEF Store, Thread, ThreadState
  <2> QED
    BY <1>1, <2>1, <2>2, <2>3, ThreadEnds
<1> QED
  BY <1>2, <1>3

\* The step named keeps the invariant.
LEMMA PostPreserves == ASSUME IInv, NEW t \in Threads, Post(t) PROVE IInv'
<1>1. t \in Underway /\ ready = 0
  BY DEF Post, Underway, IInv, PostedAlone
<1>2. running' \in BOOLEAN /\ ready' \in 0 .. 1
  <2>1. ready' \in 0 .. 1
    BY <1>1 DEF Post
  <2>2. running' \in BOOLEAN
    BY Zenon DEF Post, IInv, Typed
  <2> QED
    BY <2>1, <2>2
<1>3. life = "open" => (running' <=> ready' = 1)
  BY <1>1 DEF Post, IInv, FlagExact
<1> QED
  BY <1>1, <1>2, <1>3, ThreadEnds, ThreadTyped DEF Post, Thread, world, ThreadState

\* The step named keeps the invariant.
LEMMA LeavePreserves == ASSUME IInv, NEW t \in Threads, Leave(t) PROVE IInv'
<1>1. t \notin Underway
  BY DEF Leave, Underway
<1> QED
  BY <1>1, ThreadMoves, ThreadTyped DEF Leave, End, world, Done

\* The message that is published was the capture the flag stood for.
LEMMA PublishPreserves == ASSUME IInv, Publish PROVE IInv'
<1>1. Underway = {} /\ ready' = 0 /\ running' = FALSE
  BY DEF Publish, IInv, PostedAlone
<1>2. Typed'
  BY AtTyped DEF Publish, world, IInv, Typed, Steps
<1> QED
  BY <1>1, <1>2 DEF Publish, UiIdle, Underway, IInv, HandlersOpen, OneUnderway,
     PostedAlone, FlagExact, GateClosed

\* The gate: with the lock free no worker has filled the slot and not posted.
LEMMA FinalizePreserves == ASSUME IInv, FinalizeDisposal PROVE IInv'
BY DEF FinalizeDisposal, LockFree, world, IInv, Typed, HandlersOpen, OneUnderway,
   PostedAlone, FlagExact, GateClosed, Underway

\* The step named keeps the invariant.
LEMMA DestroyPreserves == ASSUME IInv, DestroyOwner PROVE IInv'
BY DEF DestroyOwner, IInv, Typed, HandlersOpen, OneUnderway, PostedAlone,
   FlagExact, GateClosed, Underway

-----------------------------------------------------------------------------
\* The invariant is inductive.
LEMMA NextPreserves == ASSUME IInv, [Next]_vars PROVE IInv'
<1>1. CASE UNCHANGED vars
  BY <1>1, CaptureUntouched
     DEF vars, capture, world, IInv, Typed, HandlersOpen
<1>2. CASE UiStep
  BY <1>2, RefreshAfterPreserves, RelayoutPreserves, QueuePreserves,
     ReadBoundsPreserves, ReapPreserves, ClaimPreserves, TakePreserves,
     ShowPreserves, ClosePreserves, FinalizePreserves, DestroyPreserves DEF UiStep
<1>3. CASE \E t \in Threads : FinishCapture(t) \/ Store(t) \/ Post(t) \/ Leave(t)
  BY <1>3, FinishPreserves, StorePreserves, PostPreserves, LeavePreserves
<1>4. CASE \/ \E geometry \in Bounds : ChangeDisplay(geometry)
           \/ DisplayEnvironmentChanged \/ Tick \/ Publish
           \/ TryOpenSession \/ CloseSession \/ InterruptIdle
           \/ \E m \in Modes : SetBackgroundMode(m)
           \/ RequestDisposal
  BY <1>4, DisplayPreserves, EnvironmentPreserves, TickPreserves,
     PublishPreserves, OpenPreserves, ClosePreserves, ModePreserves,
     RequestPreserves
<1> QED
  BY <1>1, <1>2, <1>3, <1>4 DEF Next

\* The invariant holds in every reachable state.
THEOREM Invariance == Spec => []IInv
BY InitInv, NextPreserves, PTL DEF Spec

\* RefreshAccounted, for any threads and displays: the flag stands for the one
\* capture that is being made or waits to be published.
THEOREM Accounted == Spec => []RefreshAccounted
BY Invariance, InvAccounts, PTL

\* PostsToOwner, for any threads and displays: the finalization gate holds.
THEOREM Gated == Spec => []PostsToOwner
BY Invariance, InvGates, PTL

-----------------------------------------------------------------------------
(* The frame of a visible session.                                         *)

\* The UI thread is in an open that will show a session.
Opening == ui.at = "show" \/ ui.after = "show"

CInv ==
  /\ IInv
  /\ Opening => Covered
  /\ ui.at = "idle" => ui.after = "idle"
  /\ life # "open" => ~visible

\* One step of BackdropCovers.
CoverStep == visible' => Covered' \/ (visible /\ (~Covered \/ mode' # mode))

\* A step that leaves the picture alone, and does not begin an open.
LEMMA PictureUntouched ==
  ASSUME CInv, IInv', UNCHANGED <<picture, life>>,
         Opening' => Opening, ui'.at = "idle" => ui'.after = "idle"
  PROVE  CInv' /\ CoverStep
<1>1. Covered' = Covered
  BY DEF picture, Covered, PaintsFrame
<1> QED BY <1>1 DEF CInv, CoverStep, picture

\* Neither handlers that queue a refresh nor the worker touch the picture.
LEMMA CapturingCovers ==
  ASSUME CInv, IInv',
         \/ QueueRefresh \/ ReadBounds \/ Reap \/ Claim
         \/ \E t \in Threads : FinishCapture(t) \/ Store(t) \/ Post(t) \/ Leave(t)
  PROVE  CInv' /\ CoverStep
<1> USE DEF CInv, IInv, Typed, UiState
<1>1. CASE QueueRefresh \/ ReadBounds \/ Reap
  BY <1>1, PictureUntouched DEF QueueRefresh, ReadBounds, Reap, Goto, Return, Opening
<1>2. CASE Claim
  BY <1>2, PictureUntouched DEF Claim, Return, Opening
<1>3. CASE \E t \in Threads : FinishCapture(t) \/ Store(t) \/ Post(t) \/ Leave(t)
  BY <1>3, PictureUntouched DEF FinishCapture, Store, Post, Leave, Opening
<1> QED BY <1>1, <1>2, <1>3

\* A handler that begins afresh, or ends, is no open any more.
LEMMA HandlersCover ==
  ASSUME CInv, IInv',
         \/ DisplayEnvironmentChanged \/ Tick \/ Publish \/ InterruptIdle
         \/ RefreshAfterDisplayChange \/ CloseUnopened \/ DestroyOwner
         \/ \E geometry \in Bounds : ChangeDisplay(geometry)
  PROVE  CInv' /\ CoverStep
<1>1. ui' = ui \/ \E step \in Steps : step # "show" /\ ui' = At(step)
  BY DEF DisplayEnvironmentChanged, Tick, Publish, InterruptIdle, DestroyOwner,
         RefreshAfterDisplayChange, CloseUnopened, ChangeDisplay, Steps
<1>2. Opening' => Opening
  BY <1>1 DEF Opening, At
<1>3. ui'.at = "idle" => ui'.after = "idle"
  BY <1>1 DEF At, CInv
<1>4. UNCHANGED picture /\ (life' = life \/ (life = "disposed" /\ life' = "destroyed"))
  BY DEF DisplayEnvironmentChanged, Tick, Publish, InterruptIdle, DestroyOwner,
         RefreshAfterDisplayChange, CloseUnopened, ChangeDisplay
<1>5. Covered' = Covered /\ visible' = visible
  BY <1>4 DEF picture, Covered, PaintsFrame
<1> QED BY <1>2, <1>3, <1>4, <1>5 DEF CInv, CoverStep

\* An open takes the geometry of the frame it will show.
LEMMA OpeningCovers == ASSUME CInv, IInv', TryOpenSession PROVE CInv' /\ CoverStep
<1>1. UNCHANGED <<mode, frame, visible, life>> /\ ~visible /\ life = "open"
  BY DEF TryOpenSession, UiIdle
<1>2. CASE ui' = At("unopened") /\ UNCHANGED owner
  BY <1>1, <1>2 DEF CInv, Opening, At, CoverStep
<1>3. CASE owner' = SessionBounds /\ ui'.at \in {"query", "show"}
  <2>1. Covered'
    BY <1>1, <1>3 DEF SessionBounds, Covered, PaintsFrame
  <2> QED BY <1>1, <1>3, <2>1 DEF CInv, CoverStep
<1> QED BY <1>2, <1>3 DEF TryOpenSession

\* Only there does a session become visible.
LEMMA ShowingCovers == ASSUME CInv, IInv', ShowSession PROVE CInv' /\ CoverStep
<1>1. Covered /\ UNCHANGED <<mode, frame, owner, life>> /\ life = "open"
  BY DEF ShowSession, CInv, Opening, IInv, HandlersOpen
<1>2. Covered'
  BY <1>1 DEF Covered, PaintsFrame
<1>3. ui'.at = "idle" => ui'.after = "idle"
  BY DEF ShowSession, At
<1> QED BY <1>1, <1>2, <1>3 DEF CInv, CoverStep

\* A relayout moves the session into the frame's geometry, or leaves it.
LEMMA RelayingCovers == ASSUME CInv, IInv', RelayoutSession PROVE CInv' /\ CoverStep
<1>1. UNCHANGED <<mode, frame, visible, life>> /\ ui' = At("idle")
  BY DEF RelayoutSession
<1>2. owner' = owner \/ owner' = SessionBounds
  BY DEF RelayoutSession
<1>3. Covered => Covered'
  BY <1>1, <1>2 DEF SessionBounds, Covered, PaintsFrame
<1> QED BY <1>1, <1>3 DEF CInv, CoverStep, Opening, At

\* A capture is published while no session shows the old one.
LEMMA TakingCovers == ASSUME CInv, IInv', TakeCompletion PROVE CInv' /\ CoverStep
<1>1. UNCHANGED <<mode, owner, visible, life>> /\ (visible => UNCHANGED frame)
  BY DEF TakeCompletion
<1>2. ui' = At("query") \/ ui' = At("idle")
  BY DEF TakeCompletion
<1>3. visible => Covered' = Covered
  BY <1>1 DEF Covered, PaintsFrame
<1> QED BY <1>1, <1>2, <1>3 DEF CInv, CoverStep, Opening, At

\* A change of mode, and the end of a session or of the window.
LEMMA EndingCovers ==
  ASSUME CInv, IInv',
         \/ CloseSession \/ RequestDisposal \/ FinalizeDisposal
         \/ \E m \in Modes : SetBackgroundMode(m)
  PROVE  CInv' /\ CoverStep
<1>1. CASE CloseSession
  BY <1>1 DEF CloseSession, UiIdle, CInv, CoverStep, Opening, At
<1>2. CASE RequestDisposal
  BY <1>2 DEF RequestDisposal, UiIdle, CInv, CoverStep, Opening
<1>3. CASE FinalizeDisposal
  BY <1>3 DEF FinalizeDisposal, CInv, IInv, HandlersOpen, CoverStep, Opening
<1>4. CASE \E m \in Modes : SetBackgroundMode(m)
  BY <1>4 DEF SetBackgroundMode, UiIdle, CInv, CoverStep, Opening, At
<1> QED BY <1>1, <1>2, <1>3, <1>4

\* BackdropCovers, for any displays: whatever the display, captures, relayouts
\* and opens do, a session never parts from the frame it was opened in.
THEOREM Covers == Spec => BackdropCovers
<1>1. Init => CInv
  BY InitInv DEF Init, CInv, Opening, At
<1>2. CInv /\ [Next]_vars => CInv' /\ CoverStep
  <2> SUFFICES ASSUME CInv, [Next]_vars PROVE CInv' /\ CoverStep
    OBVIOUS
  <2>1. IInv'
    BY NextPreserves DEF CInv
  <2>2. CASE UNCHANGED vars
    BY <2>1, <2>2, PictureUntouched DEF vars, CInv, Opening
  <2> QED BY <2>1, <2>2, CapturingCovers, HandlersCover, OpeningCovers,
             ShowingCovers, RelayingCovers, TakingCovers, EndingCovers DEF Next, UiStep
<1>3. CInv /\ [Next]_vars =>
        [visible' => Covered' \/ (visible /\ (~Covered \/ mode' # mode))]_vars
  BY <1>2 DEF CoverStep
<1> QED BY <1>1, <1>2, <1>3, PTL DEF Spec, BackdropCovers

-----------------------------------------------------------------------------
(* Types: nothing empty is captured, retained or laid out in.              *)

TimerState ==
  [pending : BOOLEAN, bounds : Bounds, stable : 0 .. StableTicks,
   elapsed : 0 .. MaxWaitTicks, rebuild : BOOLEAN]

\* The timer stops counting where its ticks are used up.
Counting == relayout.elapsed < MaxWaitTicks /\ relayout.stable < StableTicks

WorldOK ==
  /\ events \in 0 .. MaxEvents /\ notices \in 0 .. events
  /\ mode \in Modes /\ visible \in BOOLEAN /\ abandoned \in BOOLEAN

TimerOK ==
  /\ relayout \in TimerState
  /\ ui.at \notin {"settled", "relayout"} => Counting

FramesOK ==
  /\ frame \in Geometry \cup {None} /\ owner \in Bounds
  /\ slot \in Geometry \cup {None} /\ handle \in Threads \cup {None}
  /\ \A t \in Threads : threads[t].at # "done" => threads[t].bounds \in Geometry

\* The timer is well typed when stopped and when scheduled, and counts from zero.
LEMMA TimerStates ==
  ASSUME IInv
  PROVE  /\ Stopped \in TimerState /\ Stopped.elapsed = 0 /\ Stopped.stable = 0
         /\ \A old \in TimerState, rebuild \in BOOLEAN, set \in BOOLEAN :
              /\ Scheduled(old, rebuild, set) \in TimerState
              /\ Scheduled(old, rebuild, set).elapsed = 0
              /\ Scheduled(old, rebuild, set).stable = 0
BY BoundAssumption DEF Stopped, Scheduled, TimerState, Bounds, StableTicks, IInv, Typed

\* A timer that starts or stops is far from its end.
LEMMA TimerResets ==
  ASSUME relayout' \in TimerState, relayout'.elapsed = 0, relayout'.stable = 0
  PROVE  TimerOK'
BY BoundAssumption DEF TimerOK, Counting, StableTicks

\* A timer left alone stays within its bounds.
LEMMA TimerRests ==
  ASSUME TimerOK, UNCHANGED relayout, ui.at \notin {"settled", "relayout"}
  PROVE  TimerOK'
BY DEF TimerOK, Counting

\* SetTimer works or does not.
LEMMA WorksBoolean == Works \subseteq BOOLEAN
BY DEF Works

\* Every tick is counted below the last one only.
LEMMA TickBounded == ASSUME IInv, TimerOK, Tick PROVE TimerOK'
<1>1. relayout \in TimerState /\ Counting /\ display \in Bounds
  BY DEF Tick, UiIdle, TimerOK, IInv, Typed
<1>2. relayout' = Sampled(relayout)
  BY DEF Tick
<1>3. relayout' \in TimerState
  <2>1. PICK bounds \in Bounds, stable \in 0 .. StableTicks :
          relayout' = [pending |-> relayout.pending, bounds |-> bounds,
                       stable |-> stable, elapsed |-> relayout.elapsed + 1,
                       rebuild |-> relayout.rebuild]
    <3>1. relayout.stable + 1 \in 0 .. StableTicks /\ 0 \in 0 .. StableTicks
      BY <1>1 DEF TimerState, Counting, StableTicks
    <3>2. relayout' = [relayout EXCEPT
                         !.elapsed = relayout.elapsed + 1,
                         !.bounds = relayout'.bounds, !.stable = relayout'.stable]
          /\ relayout'.bounds \in {relayout.bounds, display}
          /\ relayout'.stable \in {relayout.stable + 1, 0}
      BY <1>1, <1>2 DEF Sampled, TimerState
    <3> QED BY <1>1, <3>1, <3>2 DEF TimerState
  <2>2. relayout.elapsed + 1 \in 0 .. MaxWaitTicks
    BY <1>1, BoundAssumption DEF TimerState, Counting
  <2> QED BY <1>1, <2>1, <2>2 DEF TimerState
<1>4. CASE TimedOut(relayout') \/ relayout'.stable >= StableTicks
  <2>1. ui'.at \in {"settled", "relayout"}
    BY <1>4 DEF Tick, At
  <2> QED BY <1>3, <2>1 DEF TimerOK
<1>5. CASE ~(TimedOut(relayout') \/ relayout'.stable >= StableTicks)
  BY <1>3, <1>5, BoundAssumption DEF TimedOut, TimerState, TimerOK, Counting, StableTicks
<1> QED BY <1>4, <1>5

\* The timer in every step.
LEMMA TimerBounded == ASSUME IInv, TimerOK, WorldOK, [Next]_vars PROVE TimerOK'
<1>1. relayout \in TimerState
  BY DEF TimerOK
<1>2. CASE \/ DisplayEnvironmentChanged \/ RefreshAfterDisplayChange \/ TryOpenSession
           \/ CloseUnopened \/ CloseSession \/ RequestDisposal
  BY <1>1, <1>2, TimerStates, TimerResets, WorksBoolean
     DEF DisplayEnvironmentChanged, RefreshAfterDisplayChange, TryOpenSession,
         CloseUnopened, CloseSession, RequestDisposal
<1>3. CASE RelayoutSession
  <2>1. relayout' = Stopped \/ Again
    BY <1>3 DEF RelayoutSession, AgainInTime
  <2>2. CASE relayout' = Stopped
    BY <2>2, TimerStates, TimerResets
  <2>3. CASE Again
    BY <2>3, TimerStates, TimerResets, WorksBoolean DEF Again
  <2> QED BY <2>1, <2>2, <2>3
<1>4. CASE QueueRefresh \/ ShowSession
  <2>1. CASE UNCHANGED relayout
    BY <1>4, <2>1, TimerRests DEF QueueRefresh, ShowSession
  <2>2. CASE relayout' = Stopped
    BY <2>2, TimerStates, TimerResets
  <2>3. CASE \E set \in Works, rebuild \in BOOLEAN :
               relayout' = Scheduled(relayout, rebuild, set)
    BY <1>1, <2>3, TimerStates, TimerResets, WorksBoolean
  <2> QED BY <1>4, <2>1, <2>2, <2>3 DEF QueueRefresh, ShowSession
<1>5. CASE Tick
  BY <1>5, TickBounded
<1>6. CASE \/ \E geometry \in Bounds : ChangeDisplay(geometry)
           \/ \E t \in Threads : FinishCapture(t) \/ Store(t) \/ Post(t) \/ Leave(t)
           \/ FinalizeDisposal \/ DestroyOwner \/ UNCHANGED vars
  BY <1>6 DEF TimerOK, Counting, ChangeDisplay, FinishCapture, Store, Post, Leave,
              FinalizeDisposal, DestroyOwner, vars
<1>7. CASE \/ Publish \/ InterruptIdle \/ \E m \in Modes : SetBackgroundMode(m)
           \/ ReadBounds \/ Reap \/ Claim \/ TakeCompletion
  BY <1>7, TimerRests DEF Publish, InterruptIdle, SetBackgroundMode, ReadBounds, Reap,
                          Claim, TakeCompletion, UiIdle
<1> QED BY <1>2, <1>3, <1>4, <1>5, <1>6, <1>7 DEF Next, UiStep

\* Events are counted up to their bound, and each brings one notice at most.
LEMMA WorldBounded == ASSUME IInv, WorldOK, [Next]_vars PROVE WorldOK'
<1>1. /\ events \in Nat /\ notices \in Nat /\ MaxEvents \in Nat
      /\ events =< MaxEvents /\ notices =< events
  BY BoundAssumption DEF WorldOK
<1>2. CASE \/ \E geometry \in Bounds : ChangeDisplay(geometry)
           \/ DisplayEnvironmentChanged \/ TryOpenSession \/ InterruptIdle
           \/ \E m \in Modes : SetBackgroundMode(m)
  <2>1. mode' \in Modes /\ visible' = visible
    BY <1>2 DEF ChangeDisplay, DisplayEnvironmentChanged, TryOpenSession,
                InterruptIdle, SetBackgroundMode, picture, WorldOK
  <2>2. \/ /\ Happens
           /\ notices' = notices \/ notices' = notices + 1
        \/ events' = events /\ (notices' = notices \/ (notices' = notices - 1 /\ notices > 0))
    BY <1>2 DEF ChangeDisplay, DisplayEnvironmentChanged, TryOpenSession,
                InterruptIdle, SetBackgroundMode
  <2>3. events' \in 0 .. MaxEvents /\ notices' \in 0 .. events'
    BY <1>1, <2>2 DEF Happens
  <2>4. abandoned' \in BOOLEAN
    BY <1>2, Zenon DEF WorldOK, ChangeDisplay, DisplayEnvironmentChanged,
                       TryOpenSession, InterruptIdle, SetBackgroundMode
  <2> QED BY <2>1, <2>3, <2>4 DEF WorldOK
<1>3. CASE \/ Tick \/ Publish \/ CloseSession \/ RequestDisposal \/ UiStep
           \/ \E t \in Threads : FinishCapture(t) \/ Store(t) \/ Post(t) \/ Leave(t)
           \/ UNCHANGED vars
  <2>1. mode' = mode /\ events' = events
        /\ (notices' = notices \/ notices' = 0)
    BY <1>3 DEF Tick, Publish, CloseSession, RequestDisposal, UiStep,
                RefreshAfterDisplayChange, RelayoutSession, QueueRefresh, ReadBounds,
                Reap, Claim, TakeCompletion, ShowSession, CloseUnopened,
                FinalizeDisposal, DestroyOwner, FinishCapture, Store, Post, Leave,
                world, picture, vars
  <2>2. visible' = visible \/ visible' \in BOOLEAN
    BY <1>3 DEF Tick, Publish, CloseSession, RequestDisposal, UiStep,
                RefreshAfterDisplayChange, RelayoutSession, QueueRefresh, ReadBounds,
                Reap, Claim, TakeCompletion, ShowSession, CloseUnopened,
                FinalizeDisposal, DestroyOwner, FinishCapture, Store, Post, Leave,
                picture, vars
  <2>3. abandoned' \in BOOLEAN
    BY <1>3, Zenon
       DEF WorldOK, Tick, Publish, CloseSession, RequestDisposal, UiStep,
           RefreshAfterDisplayChange, RelayoutSession, QueueRefresh, ReadBounds,
           Reap, Claim, TakeCompletion, ShowSession, CloseUnopened,
           FinalizeDisposal, DestroyOwner, FinishCapture, Store, Post, Leave, vars
  <2> QED BY <1>1, <2>1, <2>2, <2>3 DEF WorldOK
<1> QED BY <1>2, <1>3 DEF Next

\* Only what holds something is handed to a capture, and kept of one.
LEMMA FramesBounded == ASSUME IInv, FramesOK, [Next]_vars PROVE FramesOK'
<1>1. display \in Bounds /\ threads \in [Threads -> ThreadState] /\ ui.bounds \in Bounds
  BY DEF IInv, Typed, UiState
<1>2. SessionBounds \in Bounds
  BY <1>1 DEF SessionBounds, FramesOK, Bounds
<1>3. CASE Claim
  <2>1. CASE UNCHANGED capture
    BY <1>3, <2>1 DEF Claim, capture, picture, FramesOK
  <2>2. CASE Spawn /\ ui.bounds # Void /\ UNCHANGED <<slot, ready>>
    <3>1. ui.bounds \in Geometry
      BY <1>1, <2>2 DEF Bounds
    <3>2. PICK t \in Threads :
            threads' = [threads EXCEPT
                          ![t] = [at |-> "capturing", bounds |-> ui.bounds]]
            /\ handle' = t
      BY <2>2 DEF Spawn
    <3> QED BY <1>1, <1>3, <2>2, <3>1, <3>2 DEF Claim, picture, FramesOK
  <2> QED BY <1>3, <2>1, <2>2 DEF Claim
<1>4. ASSUME NEW t \in Threads, FinishCapture(t) \/ Store(t) \/ Post(t) \/ Leave(t)
      PROVE  FramesOK'
  <2>1. UNCHANGED <<frame, owner, handle>>
    BY <1>4 DEF FinishCapture, Store, Post, Leave, picture
  <2>2. \A s \in Threads : threads'[s].at # "done" =>
          threads[s].at # "done" /\ threads'[s].bounds = threads[s].bounds
    BY <1>1, <1>4 DEF FinishCapture, Store, Post, Leave, Thread, End, Done, ThreadState
  <2>3. slot' \in {slot, None, threads[t].bounds}
        /\ (slot' = threads[t].bounds => threads[t].at = "captured" \/ slot' = slot
                                          \/ slot' = None)
    BY <1>4 DEF FinishCapture, Store, Post, Leave
  <2> QED BY <2>1, <2>2, <2>3 DEF FramesOK
<1>5. CASE Reap \/ TakeCompletion \/ FinalizeDisposal
  BY <1>5 DEF Reap, TakeCompletion, FinalizeDisposal, FramesOK, picture
<1>6. CASE TryOpenSession \/ RelayoutSession
  BY <1>2, <1>6 DEF TryOpenSession, RelayoutSession, FramesOK, capture
<1>7. CASE \/ \E geometry \in Bounds : ChangeDisplay(geometry)
           \/ DisplayEnvironmentChanged \/ Tick \/ Publish \/ CloseSession
           \/ InterruptIdle \/ \E m \in Modes : SetBackgroundMode(m)
           \/ RequestDisposal \/ RefreshAfterDisplayChange \/ QueueRefresh
           \/ ReadBounds \/ ShowSession \/ CloseUnopened \/ DestroyOwner
           \/ UNCHANGED vars
  BY <1>7 DEF ChangeDisplay, DisplayEnvironmentChanged, Tick, Publish, CloseSession,
              InterruptIdle, SetBackgroundMode, RequestDisposal,
              RefreshAfterDisplayChange, QueueRefresh, ReadBounds, ShowSession,
              CloseUnopened, DestroyOwner, picture, capture, vars, FramesOK
<1> QED BY <1>3, <1>4, <1>5, <1>6, <1>7 DEF Next, UiStep

\* TypeOK, for any displays, threads and bounds: no empty rectangle is captured
\* or retained, and the display timer ends within its ticks.
THEOREM Typing == Spec => []TypeOK
<1>1. Init => WorldOK /\ TimerOK /\ FramesOK
  <2> SUFFICES ASSUME Init PROVE WorldOK /\ TimerOK /\ FramesOK
    OBVIOUS
  <2>1. WorldOK
    <3>1. abandoned \in BOOLEAN /\ visible \in BOOLEAN
      BY Zenon DEF Init
    <3>2. events \in 0 .. MaxEvents /\ notices \in 0 .. events /\ mode \in Modes
      BY BoundAssumption DEF Init, Modes
    <3> QED BY <3>1, <3>2, Zenon DEF WorldOK
  <2>2. TimerOK
    BY TimerStates, InitInv, BoundAssumption DEF Init, TimerOK, Counting, StableTicks
  <2>3. FramesOK
    BY DEF Init, FramesOK, Bounds, Geometry, Done
  <2> QED BY <2>1, <2>2, <2>3
<1>2. ASSUME IInv, WorldOK, TimerOK, FramesOK, [Next]_vars
      PROVE  WorldOK' /\ TimerOK' /\ FramesOK'
  BY <1>2, WorldBounded, TimerBounded, FramesBounded
<1>3. ASSUME IInv, WorldOK, TimerOK, FramesOK PROVE TypeOK
  <2>1. notices \in 0 .. MaxEvents
    BY <1>3, BoundAssumption DEF WorldOK
  <2> QED BY <1>3, <2>1 DEF IInv, Typed, PostedAlone, WorldOK, TimerOK, TimerState,
                            FramesOK, ThreadState, UiState, Steps, TypeOK
<1> QED BY Invariance, <1>1, <1>2, <1>3, PTL DEF Spec
=============================================================================
