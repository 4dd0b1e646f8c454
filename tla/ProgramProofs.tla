---------------------------- MODULE ProgramProofs ----------------------------
(***************************************************************************)
(* One instance has the desktop, and nothing that others use dangles, for  *)
(* any number of processes.                                                *)
(*                                                                         *)
(* A process between its acquisition and its release is the owner of the   *)
(* mutex (MutexHeld), and only such a process has a window, an icon or a   *)
(* hook that takes keys (Owned, HookOwned): the guard is acquired first    *)
(* and released last, and every way out of start-up or the message loop    *)
(* gives the hook up before it.  HandleShape follows the handle of a hook  *)
(* between the two threads, each of which may swap it out and unhook.      *)
(***************************************************************************)
EXTENDS Program, TLAPS

Inside == {"guarded", "owned", "trayed", "starting", "box", "loop", "leaving"}

MutexHeld == \A p \in Processes : ui[p].main \in Inside <=> mutex = p

Owned(u, i) ==
  /\ u.window \/ i \/ u.hooked => u.main \in Inside
  /\ u.teardown # "no" => u.main \in {"starting", "box", "loop", "leaving"}
  /\ u.hooked => u.main = "loop"
  /\ u.main = "owned" => u.window
  /\ u.main = "guarded" \/ (u.main = "leaving" /\ u.teardown = "no")
       => ~u.window /\ ~i
  /\ i => u.window
  /\ u.teardown = "window" => ~i

HookOwned(u, h) ==
  /\ h.at # "none" /\ ~h.disposed
       => u.hooked \/ (u.main = "starting" /\ u.teardown = "no")
  /\ u.teardown \in {"waiting", "unhooking", "unhooked", "waitingMore"}
       => h.disposed
  /\ u.main \in {"off", "opened", "refused", "guarded", "owned", "trayed"}
       => h.at = "none"

HookShape(h) ==
  /\ h.at \in {"active", "installed", "stored", "looping", "getting",
               "leaving", "unhooking", "unhooked"} => h.active
  /\ h.hookId => h.at \in {"stored", "looping", "getting", "leaving"}

HandleShape(u, h) ==
  /\ h.installed <=> \/ h.hookId \/ h.at \in {"installed", "unhooking"}
                     \/ u.teardown = "unhooking"
  /\ u.teardown = "unhooking" =>
       /\ ~h.hookId
       /\ h.at \in {"stored", "looping", "getting", "leaving", "unhooked", "ended"}

\* What holds of one process.
Sound(u, h, i) ==
  /\ u \in UiStates /\ h \in HookStates /\ i \in BOOLEAN
  /\ Owned(u, i) /\ HookOwned(u, h) /\ HookShape(h) /\ HandleShape(u, h)

IInv ==
  /\ TypeOK
  /\ MutexHeld
  /\ \A p \in Processes : Sound(ui[p], hook[p], icon[p])

-----------------------------------------------------------------------------
(* Frames: a step that changes one process soundly keeps the invariant.    *)

\* A step of one process leaves what the invariant says of the others.
LEMMA Frame ==
  ASSUME IInv, NEW p \in Processes, NEW u, NEW h, NEW i, Sound(u, h, i),
         ui' = [ui EXCEPT ![p] = u], hook' = [hook EXCEPT ![p] = h],
         icon' = [icon EXCEPT ![p] = i],
         mutex' \in Processes \cup {"free", "abandoned"},
         u.main \in Inside <=> mutex' = p,
         \A q \in Processes \ {p} : mutex' = q <=> mutex = q
  PROVE  IInv'
<1>1. TypeOK'
  BY DEF IInv, TypeOK, Sound
<1>2. \A q \in Processes : /\ ui'[q] = IF q = p THEN u ELSE ui[q]
                           /\ hook'[q] = IF q = p THEN h ELSE hook[q]
                           /\ icon'[q] = IF q = p THEN i ELSE icon[q]
  BY DEF IInv, TypeOK
<1>3. MutexHeld'
  BY <1>2 DEF IInv, MutexHeld
<1>4. \A q \in Processes : Sound(ui'[q], hook'[q], icon'[q])
  BY <1>2 DEF IInv
<1> QED
  BY <1>1, <1>3, <1>4 DEF IInv

\* A step of the UI thread that keeps the mutex and the icon.
LEMMA UiFrame ==
  ASSUME IInv, NEW p \in Processes, NEW u, NEW h, Sound(u, h, icon[p]),
         ui' = [ui EXCEPT ![p] = u], hook' = [hook EXCEPT ![p] = h],
         UNCHANGED <<mutex, icon>>,
         u.main \in Inside <=> ui[p].main \in Inside
  PROVE  IInv'
<1>1. icon' = [icon EXCEPT ![p] = icon[p]]
  BY DEF IInv, TypeOK
<1>2. mutex' \in Processes \cup {"free", "abandoned"}
  BY DEF IInv, TypeOK
<1>3. u.main \in Inside <=> mutex' = p
  BY DEF IInv, MutexHeld
<1> QED
  BY <1>1, <1>2, <1>3, Frame

SameHolder(u, v) == u.teardown = "unhooking" <=> v.teardown = "unhooking"

\* A step of the UI thread alone, which does not take the hook out.
LEMMA MainFrame ==
  ASSUME IInv, NEW p \in Processes, NEW u,
         u \in UiStates /\ Owned(u, icon[p]) /\ HookOwned(u, hook[p]),
         SameHolder(u, ui[p]),
         ui' = [ui EXCEPT ![p] = u], UNCHANGED <<mutex, hook, icon>>,
         u.main \in Inside <=> ui[p].main \in Inside
  PROVE  IInv'
<1>1. hook' = [hook EXCEPT ![p] = hook[p]]
  BY DEF IInv, TypeOK
<1>2. Sound(u, hook[p], icon[p])
  BY DEF IInv, Sound, HandleShape, SameHolder
<1> QED
  BY <1>1, <1>2, UiFrame

\* A step of the hook thread alone.
LEMMA ThreadFrame ==
  ASSUME IInv, NEW p \in Processes, NEW h \in HookStates, HookShape(h),
         HandleShape(ui[p], h), hook[p].at # "none", h.disposed = hook[p].disposed,
         hook' = [hook EXCEPT ![p] = h], UNCHANGED <<mutex, ui, icon>>
  PROVE  IInv'
<1>1. ui' = [ui EXCEPT ![p] = ui[p]]
  BY DEF IInv, TypeOK
<1>2. Sound(ui[p], h, icon[p])
  BY DEF IInv, Sound, HookOwned
<1> QED
  BY <1>1, <1>2, UiFrame

-----------------------------------------------------------------------------
(* The hook thread                                                         *)

\* The steps of the hook thread keep the invariant.
LEMMA ThreadKeeps ==
  ASSUME IInv, NEW p \in Processes,
         ThreadStep(p) \/ GetMessageFails(p) \/ Hang(p)
  PROVE  IInv'
<1> hook[p] \in HookStates /\ HookShape(hook[p]) /\ HandleShape(ui[p], hook[p])
  BY DEF IInv, Sound
<1> USE ThreadFrame DEF Move, HookStates, HookShape, HandleShape
<1>1. CASE Identify(p)
  BY <1>1 DEF Identify
<1>2. CASE CreateQueue(p)
  BY <1>2 DEF CreateQueue
<1>3. CASE Claim(p)
  BY <1>3 DEF Claim
<1>4. CASE Install(p)
  BY <1>4 DEF Install
<1>5. CASE InstallFails(p)
  BY <1>5 DEF InstallFails
<1>6. CASE StoreHook(p)
  BY <1>6 DEF StoreHook
<1>7. CASE Report(p)
  BY <1>7 DEF Report
<1>8. CASE CheckDisposed(p)
  BY <1>8 DEF CheckDisposed
<1>9. CASE Quit(p)
  BY <1>9 DEF Quit
<1>10. CASE Uninstall(p)
  BY <1>10 DEF Uninstall
<1>11. CASE Complete(p)
  BY <1>11 DEF Complete
<1>14. CASE TakeOwnHandle(p)
  BY <1>14 DEF TakeOwnHandle
<1>12. CASE GetMessageFails(p)
  BY <1>12 DEF GetMessageFails
<1>13. CASE Hang(p)
  BY <1>13 DEF Hang
<1> QED
  BY <1>1, <1>2, <1>3, <1>4, <1>5, <1>6, <1>7, <1>8, <1>9, <1>10, <1>11,
     <1>12, <1>13, <1>14 DEF ThreadStep

-----------------------------------------------------------------------------
(* The UI thread                                                           *)

\* Steps between acquisition and release that change the place in main(), the
\* nested loop or the request to close, and nothing else.
LEMMA MainKeeps ==
  ASSUME IInv, NEW p \in Processes,
         \/ OpenMutex(p) \/ CreateOwner(p) \/ Started(p) \/ AskToClose(p)
         \/ CloseReenters(p) \/ EnterHandler(p) \/ LeaveHandler(p)
         \/ OpenMenu(p) \/ MenuReturns(p) \/ DestroyOwner(p)
  PROVE  IInv'
<1> Sound(ui[p], hook[p], icon[p])
  BY DEF IInv
<1> USE MainFrame DEF At, Goto, Sound, Owned, HookOwned, UiStates, Inside,
                      SameHolder
<1>1. CASE OpenMutex(p)
  BY <1>1 DEF OpenMutex
<1>2. CASE CreateOwner(p)
  <2>1. CASE Goto(p, "leaving")
    BY <1>2, <2>1 DEF CreateOwner
  <2>2. CASE ui' = [ui EXCEPT ![p].main = "owned", ![p].window = TRUE]
    <3> DEFINE u == [ui[p] EXCEPT !.main = "owned", !.window = TRUE]
    <3>1. /\ u \in UiStates /\ Owned(u, icon[p]) /\ HookOwned(u, hook[p])
          /\ u.main \in Inside <=> ui[p].main \in Inside
          /\ SameHolder(u, ui[p])
      BY <1>2 DEF CreateOwner
    <3>2. ui' = [ui EXCEPT ![p] = u] /\ UNCHANGED <<mutex, hook, icon>>
      BY <1>2, <2>2 DEF CreateOwner
    <3> HIDE DEF u, Sound, Owned, HookOwned, UiStates, Inside, SameHolder
    <3> QED
      BY <3>1, <3>2
  <2> QED
    BY <1>2, <2>1, <2>2 DEF CreateOwner
<1>3. CASE Started(p)
  <2> DEFINE u == [ui[p] EXCEPT !.main = "loop", !.hooked = TRUE]
  <2>1. /\ u \in UiStates /\ Owned(u, icon[p]) /\ HookOwned(u, hook[p])
        /\ u.main \in Inside <=> ui[p].main \in Inside
        /\ SameHolder(u, ui[p])
    BY <1>3 DEF Started
  <2>2. ui' = [ui EXCEPT ![p] = u] /\ UNCHANGED <<mutex, hook, icon>>
    BY <1>3 DEF Started
  <2> HIDE DEF u, Sound, Owned, HookOwned, UiStates, Inside, SameHolder
  <2> QED
    BY <2>1, <2>2
<1>4. CASE AskToClose(p)
  <2> DEFINE u == [ui[p] EXCEPT !.asked = TRUE, !.wanted = TRUE]
  <2>1. /\ u \in UiStates /\ Owned(u, icon[p]) /\ HookOwned(u, hook[p])
        /\ u.main \in Inside <=> ui[p].main \in Inside
        /\ SameHolder(u, ui[p])
    BY <1>4 DEF AskToClose
  <2>2. ui' = [ui EXCEPT ![p] = u] /\ UNCHANGED <<mutex, hook, icon>>
    BY <1>4 DEF AskToClose
  <2> HIDE DEF u, Sound, Owned, HookOwned, UiStates, Inside, SameHolder
  <2> QED
    BY <2>1, <2>2
<1>5. CASE CloseReenters(p)
  <2> DEFINE u == [ui[p] EXCEPT !.asked = TRUE, !.wanted = TRUE]
  <2>1. /\ u \in UiStates /\ Owned(u, icon[p]) /\ HookOwned(u, hook[p])
        /\ u.main \in Inside <=> ui[p].main \in Inside
        /\ SameHolder(u, ui[p])
    BY <1>5 DEF CloseReenters
  <2>2. ui' = [ui EXCEPT ![p] = u] /\ UNCHANGED <<mutex, hook, icon>>
    BY <1>5 DEF CloseReenters
  <2> HIDE DEF u, Sound, Owned, HookOwned, UiStates, Inside, SameHolder
  <2> QED
    BY <2>1, <2>2
<1>6. CASE EnterHandler(p)
  BY <1>6 DEF EnterHandler
<1>7. CASE LeaveHandler(p)
  BY <1>7 DEF LeaveHandler
<1>8. CASE OpenMenu(p)
  BY <1>8 DEF OpenMenu
<1>9. CASE MenuReturns(p)
  BY <1>9 DEF MenuReturns
<1>10. CASE DestroyOwner(p)
  <2> DEFINE u == [ui[p] EXCEPT !.teardown = "no", !.window = FALSE, !.asked = FALSE]
  <2>1. /\ u \in UiStates /\ Owned(u, icon[p]) /\ HookOwned(u, hook[p])
        /\ u.main \in Inside <=> ui[p].main \in Inside
        /\ SameHolder(u, ui[p])
    BY <1>10 DEF DestroyOwner
  <2>2. ui' = [ui EXCEPT ![p] = u] /\ UNCHANGED <<mutex, hook, icon>>
    BY <1>10 DEF DestroyOwner
  <2> HIDE DEF u, Sound, Owned, HookOwned, UiStates, Inside, SameHolder
  <2> QED
    BY <2>1, <2>2
<1> QED
  BY <1>1, <1>2, <1>3, <1>4, <1>5, <1>6, <1>7, <1>8, <1>9, <1>10

\* Steps that begin or carry on a shutdown.
LEMMA TeardownKeeps ==
  ASSUME IInv, NEW p \in Processes,
         \/ NotStarted(p) \/ Close(p) \/ ChooseExit(p) \/ LoopEnds(p)
         \/ BoxEnds(p) \/ Join(p) \/ TakeHandle(p) \/ Unhook(p) \/ QuitAgain(p)
         \/ Detach(p)
  PROVE  IInv'
<1>0. Sound(ui[p], hook[p], icon[p])
  BY DEF IInv
<1>1. ASSUME Pumps(p), NEW u \in UiStates, BeginTeardown(p, u),
             u.main \in {"loop", "box", "leaving"}, u.window = ui[p].window,
             u.hooked = ui[p].hooked
      PROVE  IInv'
  <2>1. CASE ui[p].hooked
    <3> DEFINE v == [u EXCEPT !.hooked = FALSE, !.wanted = TRUE,
                              !.teardown = "waiting"]
               h == [hook[p] EXCEPT !.disposed = TRUE,
                                    !.quit = IF CanPost(p) THEN TRUE ELSE @]
    <3>1. Sound(v, h, icon[p])
      <4>1. v \in UiStates /\ Owned(v, icon[p])
        BY <1>0, <1>1, <2>1 DEF Sound, Owned, UiStates, Inside
      <4>2. h \in HookStates /\ HookShape(h) /\ h.disposed
        BY <1>0 DEF Sound, HookStates, HookShape
      <4>3. HandleShape(v, h)
        BY <1>0, <1>1 DEF Sound, HandleShape, Pumps, UiStates, HookStates
      <4> QED
        BY <1>0, <1>1, <4>1, <4>2, <4>3 DEF Sound, HookOwned, UiStates
    <3>2. /\ ui' = [ui EXCEPT ![p] = v]
          /\ hook' = [hook EXCEPT ![p] = h]
          /\ UNCHANGED <<mutex, icon>>
      BY <1>1, <2>1 DEF BeginTeardown, Disposing
    <3>3. v.main \in Inside /\ ui[p].main \in Inside
      BY <1>1 DEF UiStates, Pumps, Inside
    <3> QED
      BY <3>1, <3>2, <3>3, UiFrame
  <2>2. CASE ~ui[p].hooked
    <3> DEFINE v == [u EXCEPT !.wanted = TRUE, !.teardown = "tray"]
    <3>1. v \in UiStates /\ v.teardown = "tray" /\ Owned(v, icon[p])
      BY <1>0, <1>1, <2>2 DEF Sound, Owned, UiStates, Inside
    <3>4. HookOwned(v, hook[p]) /\ SameHolder(v, ui[p])
      BY <1>0, <1>1, <2>2, <3>1 DEF Sound, HookOwned, Pumps, UiStates, SameHolder
    <3>2. ui' = [ui EXCEPT ![p] = v] /\ UNCHANGED <<mutex, hook, icon>>
      BY <1>1, <2>2 DEF BeginTeardown
    <3>3. v.main \in Inside /\ ui[p].main \in Inside
      BY <1>1 DEF UiStates, Pumps, Inside
    <3> QED
      BY <3>1, <3>2, <3>3, <3>4, MainFrame
  <2> QED
    BY <2>1, <2>2
<1>2. CASE NotStarted(p)
  <2> DEFINE u == [ui[p] EXCEPT !.teardown = "waiting"]
             h == [hook[p] EXCEPT !.disposed = TRUE,
                                  !.quit = IF CanPost(p) THEN TRUE ELSE @]
  <2>1. Sound(u, h, icon[p])
    BY <1>0, <1>2 DEF NotStarted, At, Sound, Owned, HookOwned, HookShape,
                      HandleShape, UiStates, HookStates, Inside
  <2>2. u.main = ui[p].main
    BY <1>0 DEF Sound, UiStates
  <2> QED
    BY <1>2, <2>1, <2>2, UiFrame DEF NotStarted, Disposing
<1>3. CASE Close(p)
  BY <1>0, <1>1, <1>3 DEF Close, Pumps, Sound, UiStates
<1>4. CASE ChooseExit(p)
  BY <1>0, <1>1, <1>4 DEF ChooseExit, Pumps, Sound, UiStates
<1>5. CASE LoopEnds(p) \/ BoxEnds(p)
  BY <1>0, <1>1, <1>5 DEF LoopEnds, BoxEnds, At, Pumps, Sound, UiStates
<1>6. CASE Join(p) \/ Detach(p)
  <2> DEFINE u == IF ui[p].main = "starting"
                    THEN [ui[p] EXCEPT !.main = "box", !.teardown = "no"]
                    ELSE [ui[p] EXCEPT !.teardown = "tray"]
  <2>1. ui[p].teardown \in {"waiting", "waitingMore"}
    BY <1>6 DEF Join, Detach
  <2>2. /\ u \in UiStates /\ Owned(u, icon[p]) /\ HookOwned(u, hook[p])
        /\ SameHolder(u, ui[p])
    BY <1>0, <2>1 DEF Sound, Owned, HookOwned, UiStates, Inside, SameHolder
  <2>3. u.main \in Inside /\ ui[p].main \in Inside
    BY <1>0, <2>1 DEF Sound, Owned, UiStates, Inside
  <2>4. ui' = [ui EXCEPT ![p] = u] /\ UNCHANGED <<mutex, hook, icon>>
    BY <1>6 DEF Join, Detach, AfterWait
  <2> QED
    BY <2>1, <2>2, <2>3, <2>4, MainFrame
<1>7. CASE TakeHandle(p)
  <2> DEFINE u == [ui[p] EXCEPT !.teardown = IF hook[p].hookId THEN "unhooking"
                                             ELSE "unhooked"]
             h == [hook[p] EXCEPT !.hookId = FALSE]
  <2>0. ui[p].teardown = "waiting"
    BY <1>7 DEF TakeHandle
  <2>1. Sound(u, h, icon[p])
    <3>1. u \in UiStates /\ Owned(u, icon[p])
      BY <1>0, <2>0 DEF Sound, Owned, UiStates, Inside
    <3>2. h \in HookStates /\ HookShape(h)
      BY <1>0 DEF Sound, HookStates, HookShape
    <3>3. HookOwned(u, h)
      BY <1>0, <2>0 DEF Sound, HookOwned, UiStates, HookStates
    <3>4. HandleShape(u, h)
      BY <1>0, <2>0 DEF Sound, HookShape, HandleShape, UiStates, HookStates
    <3> QED
      BY <1>0, <3>1, <3>2, <3>3, <3>4 DEF Sound
  <2>2. u.main = ui[p].main
    BY <1>0 DEF Sound, UiStates
  <2> QED
    BY <1>7, <2>1, <2>2, UiFrame DEF TakeHandle
<1>8. CASE Unhook(p)
  <2> DEFINE u == [ui[p] EXCEPT !.teardown = "unhooked"]
             h == [hook[p] EXCEPT !.installed = FALSE]
  <2>0. ui[p].teardown = "unhooking"
    BY <1>8 DEF Unhook
  <2>1. Sound(u, h, icon[p])
    <3>1. u \in UiStates /\ Owned(u, icon[p])
      BY <1>0, <2>0 DEF Sound, Owned, UiStates, Inside
    <3>2. h \in HookStates /\ HookShape(h)
      BY <1>0 DEF Sound, HookStates, HookShape
    <3>3. HookOwned(u, h)
      BY <1>0, <2>0 DEF Sound, HookOwned, UiStates, HookStates
    <3>4. HandleShape(u, h)
      BY <1>0, <2>0 DEF Sound, HookShape, HandleShape, UiStates, HookStates
    <3> QED
      BY <1>0, <3>1, <3>2, <3>3, <3>4 DEF Sound
  <2>2. u.main = ui[p].main
    BY <1>0 DEF Sound, UiStates
  <2> QED
    BY <1>8, <2>1, <2>2, UiFrame DEF Unhook
<1>9. CASE QuitAgain(p)
  <2> DEFINE u == [ui[p] EXCEPT !.teardown = "waitingMore"]
             h == [hook[p] EXCEPT !.quit = IF CanPost(p) THEN TRUE ELSE @]
  <2>0. ui[p].teardown = "unhooked"
    BY <1>9 DEF QuitAgain
  <2>1. Sound(u, h, icon[p])
    <3>1. u \in UiStates /\ Owned(u, icon[p])
      BY <1>0, <2>0 DEF Sound, Owned, UiStates, Inside
    <3>2. h \in HookStates /\ HookShape(h)
      BY <1>0 DEF Sound, HookStates, HookShape
    <3>3. HookOwned(u, h)
      BY <1>0, <2>0 DEF Sound, HookOwned, UiStates, HookStates
    <3>4. HandleShape(u, h)
      BY <1>0, <2>0 DEF Sound, HookShape, HandleShape, UiStates, HookStates
    <3> QED
      BY <1>0, <3>1, <3>2, <3>3, <3>4 DEF Sound
  <2>2. u.main = ui[p].main
    BY <1>0 DEF Sound, UiStates
  <2> QED
    BY <1>9, <2>1, <2>2, UiFrame DEF QuitAgain
<1> QED
  BY <1>2, <1>3, <1>4, <1>5, <1>6, <1>7, <1>8, <1>9

\* The tray icon and the start of the hook keep the invariant.
LEMMA StartKeeps ==
  ASSUME IInv, NEW p \in Processes, AddTray(p) \/ StartHook(p) \/ RemoveTray(p)
  PROVE  IInv'
<1>0. Sound(ui[p], hook[p], icon[p])
  BY DEF IInv
<1> USE DEF At, Goto, Sound, Owned, HookOwned, UiStates, Inside, SameHolder
<1>1. ASSUME NEW u, NEW i, Sound(u, hook[p], i), UNCHANGED <<mutex, hook>>,
             ui' = [ui EXCEPT ![p] = u], icon' = [icon EXCEPT ![p] = i],
             u.main \in Inside, ui[p].main \in Inside
      PROVE  IInv'
  <2>1. hook' = [hook EXCEPT ![p] = hook[p]]
    BY <1>1 DEF IInv, TypeOK
  <2>2. mutex' = p /\ mutex = p
    BY <1>1 DEF IInv, MutexHeld
  <2> HIDE DEF Sound, Inside
  <2> QED
    BY <1>1, <2>1, <2>2, Frame
<1>2. CASE AddTray(p)
  <2>1. CASE icon' = [icon EXCEPT ![p] = TRUE] /\ Goto(p, "trayed")
    <3> DEFINE u == [ui[p] EXCEPT !.main = "trayed"]
    <3>1. Sound(u, hook[p], TRUE)
      BY <1>0, <1>2 DEF AddTray, HandleShape
    <3> QED
      BY <1>0, <1>1, <1>2, <2>1, <3>1 DEF AddTray
  <2>2. CASE Goto(p, "box") /\ UNCHANGED icon
    BY <1>0, <1>2, <2>2, MainFrame DEF AddTray
  <2> QED
    BY <1>2, <2>1, <2>2 DEF AddTray
<1>3. CASE StartHook(p)
  <2>1. CASE hook' = [hook EXCEPT ![p].at = "spawned"] /\ Goto(p, "starting")
    <3> DEFINE u == [ui[p] EXCEPT !.main = "starting"]
               h == [hook[p] EXCEPT !.at = "spawned"]
    <3>1. u \in UiStates /\ Owned(u, icon[p]) /\ HookOwned(u, h)
      BY <1>0, <1>3 DEF StartHook
    <3>2. h \in HookStates /\ HookShape(h)
      BY <1>0, <1>3 DEF StartHook, HookStates, HookShape
    <3>3. HandleShape(u, h)
      BY <1>0, <1>3 DEF StartHook, HandleShape, HookShape, HookStates
    <3> QED
      BY <1>0, <1>3, <2>1, <3>1, <3>2, <3>3, UiFrame DEF StartHook
  <2>2. CASE Goto(p, "box") /\ UNCHANGED hook
    BY <1>0, <1>3, <2>2, MainFrame DEF StartHook
  <2> QED
    BY <1>3, <2>1, <2>2 DEF StartHook
<1>4. CASE RemoveTray(p)
  BY <1>0, <1>1, <1>4 DEF RemoveTray, HandleShape
<1> QED
  BY <1>2, <1>3, <1>4

-----------------------------------------------------------------------------
(* Acquiring, releasing, leaving                                           *)

\* A process that closes its handle leaves every other owner alone.
LEMMA HandleClosedKeeps ==
  ASSUME IInv, NEW p \in Processes
  PROVE  /\ HandleClosed(p) \in Processes \cup {"free", "abandoned"}
         /\ HandleClosed(p) # p
         /\ \A q \in Processes \ {p} : HandleClosed(p) = q <=> mutex = q
<1>1. \A q \in Processes : mutex = q => HasHandle(q)
  BY DEF IInv, MutexHeld, HasHandle, Inside
<1> QED
  BY <1>1, ProcessesAssumption DEF IInv, TypeOK, HandleClosed, Unowned

\* Steps that take or give back the mutex keep the invariant.
LEMMA GuardKeeps ==
  ASSUME IInv, NEW p \in Processes,
         \/ Acquire(p) \/ Refuse(p) \/ AcquireFails(p) \/ ReleaseGuard(p)
         \/ ExitProcess(p) \/ Killed(p)
  PROVE  IInv'
<1>0. Sound(ui[p], hook[p], icon[p]) /\ (ui[p].main \in Inside <=> mutex = p)
  BY DEF IInv, MutexHeld
<1>1. hook = [hook EXCEPT ![p] = hook[p]] /\ icon = [icon EXCEPT ![p] = icon[p]]
  BY DEF IInv, TypeOK
<1>2. Sound(NoUi, NoHook, FALSE) /\ NoUi.main \notin Inside
  BY DEF Sound, Owned, HookOwned, HookShape, HandleShape, NoUi, NoHook, UiStates, HookStates,
         Inside
<1>3. CASE Acquire(p)
  <2> DEFINE u == [ui[p] EXCEPT !.main = "guarded"]
  <2>1. Sound(u, hook[p], icon[p]) /\ u.main \in Inside
    BY <1>0, <1>3 DEF Acquire, At, Sound, Owned, HookOwned, HandleShape, UiStates,
                             Inside
  <2>2. \A q \in Processes \ {p} : mutex' = q <=> mutex = q
    BY <1>3, ProcessesAssumption DEF Acquire, Acquirable
  <2> QED
    BY <1>1, <1>3, <2>1, <2>2, Frame DEF Acquire, Goto
<1>4. CASE Refuse(p) \/ AcquireFails(p)
  <2>1. PICK m \in {"refused", "exiting"} : Goto(p, m)
    BY <1>4 DEF Refuse, AcquireFails
  <2> DEFINE u == [ui[p] EXCEPT !.main = m]
  <2>2. Sound(u, hook[p], icon[p]) /\ u.main \notin Inside
    BY <1>0, <1>4
       DEF Refuse, AcquireFails, At, Sound, Owned, HookOwned, HandleShape,
           UiStates, Inside
  <2>3. mutex' = HandleClosed(p)
    BY <1>4 DEF Refuse, AcquireFails
  <2>4. /\ ui' = [ui EXCEPT ![p] = u]
        /\ hook' = [hook EXCEPT ![p] = hook[p]]
        /\ icon' = [icon EXCEPT ![p] = icon[p]]
    BY <1>1, <1>4, <2>1 DEF Refuse, AcquireFails, Goto
  <2> HIDE DEF u
  <2> QED
    BY <2>1, <2>2, <2>3, <2>4, HandleClosedKeeps, Frame
<1>5. CASE ReleaseGuard(p)
  <2> DEFINE u == [ui[p] EXCEPT !.main = "exiting", !.wanted = TRUE]
  <2>1. Sound(u, hook[p], icon[p]) /\ u.main \notin Inside
    BY <1>0, <1>5
       DEF ReleaseGuard, At, Sound, Owned, HookOwned, HandleShape, UiStates,
           Inside
  <2>2. mutex = p
    BY <1>0, <1>5 DEF ReleaseGuard, At, Inside
  <2>3. mutex' # p /\ \A q \in Processes \ {p} : mutex' = q <=> mutex = q
    BY <1>5, <2>2, ProcessesAssumption DEF ReleaseGuard
  <2>4. /\ ui' = [ui EXCEPT ![p] = u]
        /\ hook' = [hook EXCEPT ![p] = hook[p]]
        /\ icon' = [icon EXCEPT ![p] = icon[p]]
    BY <1>1, <1>5 DEF ReleaseGuard
  <2>5. mutex' \in Processes \cup {"free", "abandoned"}
    BY <1>5 DEF ReleaseGuard
  <2> HIDE DEF u
  <2> QED
    BY <2>1, <2>3, <2>4, <2>5, Frame
<1>6. CASE ExitProcess(p)
  <2>1. mutex' = mutex /\ mutex # p /\ ~icon[p]
    BY <1>0, <1>6 DEF ExitProcess, Inside, Sound, Owned
  <2>2. icon' = [icon EXCEPT ![p] = FALSE]
    BY <1>6, <2>1 DEF ExitProcess, IInv, TypeOK
  <2>3. mutex' \in Processes \cup {"free", "abandoned"}
    BY <2>1 DEF IInv, TypeOK
  <2> QED
    BY <1>2, <1>6, <2>1, <2>2, <2>3, Frame DEF ExitProcess
<1>7. CASE Killed(p)
  BY <1>2, <1>7, HandleClosedKeeps, Frame DEF Killed
<1> QED
  BY <1>3, <1>4, <1>5, <1>6, <1>7

-----------------------------------------------------------------------------
\* The invariant holds before the first launch.
LEMMA InitInv == Init => IInv
BY ProcessesAssumption
   DEF Init, IInv, TypeOK, MutexHeld, Sound, Owned, HookOwned, HookShape,
       HandleShape, Inside, NoUi, NoHook, UiStates, HookStates

\* The invariant is inductive.
LEMMA StepInv == IInv /\ [Next]_vars => IInv'
<1> SUFFICES ASSUME IInv, [Next]_vars PROVE IInv'
  OBVIOUS
<1>1. CASE UNCHANGED vars
  BY <1>1 DEF vars, IInv, TypeOK, MutexHeld
<1>2. ASSUME NEW p \in Processes, Starts(p) PROVE IInv'
  BY <1>2, GuardKeeps, MainKeeps, StartKeeps, TeardownKeeps DEF Starts
<1>3. ASSUME NEW p \in Processes, Stops(p) PROVE IInv'
  BY <1>3, GuardKeeps, MainKeeps, StartKeeps, TeardownKeeps DEF Stops
<1>4. ASSUME NEW p \in Processes, Returns(p) PROVE IInv'
  BY <1>4, MainKeeps, TeardownKeeps DEF Returns
<1> QED
  BY <1>1, <1>2, <1>3, <1>4, GuardKeeps, MainKeeps, TeardownKeeps, ThreadKeeps
     DEF Next

\* The invariant holds in every reachable state.
LEMMA Invariance == Spec => []IInv
BY InitInv, StepInv, PTL DEF Spec

\* Every variable keeps its type (TypeOK).
THEOREM Typing == Spec => []TypeOK
<1>1. IInv => TypeOK
  BY DEF IInv
<1> QED
  BY <1>1, Invariance, PTL

\* At most one process has the owner window, the tray icon or a hook that takes
\* keys: whoever has one is between acquiring and releasing the mutex.
THEOREM OneServes == Spec => []OneInstance
<1>1. ASSUME IInv, NEW p \in Processes, OwnsDesktop(p) PROVE mutex = p
  <2>1. Sound(ui[p], hook[p], icon[p]) /\ (ui[p].main \in Inside <=> mutex = p)
    BY <1>1 DEF IInv, MutexHeld
  <2>2. CASE ui[p].window \/ icon[p]
    BY <2>1, <2>2 DEF Sound, Owned
  <2>3. CASE Serves(p)
    <3>1. hook[p].at # "none" /\ ~hook[p].disposed
      BY <2>1, <2>3 DEF Serves, Sound, HookShape, HandleShape
    <3> QED
      BY <2>1, <3>1 DEF Sound, Owned, HookOwned, Inside
  <2> QED
    BY <1>1, <2>2, <2>3 DEF OwnsDesktop
<1>2. IInv => OneInstance
  BY <1>1 DEF OneInstance
<1> QED
  BY <1>2, Invariance, PTL

\* An icon has its window, and an installed hook exactly one thread that has yet
\* to take it out, wherever the two threads meet in uninstall_hook.
THEOREM NothingIsLeftDangling == Spec => []NothingDangles
<1>1. ASSUME IInv, NEW p \in Processes
      PROVE  /\ icon[p] => ui[p].window
             /\ IF hook[p].installed
                  THEN \E place \in HandleAt(p) : HandleAt(p) = {place}
                  ELSE HandleAt(p) = {}
             /\ "shared" \in HandleAt(p) =>
                  hook[p].at \in {"stored", "looping", "getting", "leaving"}
             /\ HandleAt(p) \cap {"thread", "shared"} # {} => hook[p].active
  <2>1. Sound(ui[p], hook[p], icon[p])
    BY <1>1 DEF IInv
  <2>2. /\ "thread" \in HandleAt(p) <=> hook[p].at \in {"installed", "unhooking"}
        /\ "shared" \in HandleAt(p) <=> hook[p].hookId
        /\ "ui" \in HandleAt(p) <=> ui[p].teardown = "unhooking"
        /\ HandleAt(p) \subseteq {"thread", "shared", "ui"}
    BY DEF HandleAt
  <2>3. icon[p] => ui[p].window
    BY <2>1 DEF Sound, Owned
  <2>4. hook[p].installed => \E place \in HandleAt(p) : HandleAt(p) = {place}
    <3>1. hook[p].installed <=> \/ "thread" \in HandleAt(p)
                                \/ "shared" \in HandleAt(p)
                                \/ "ui" \in HandleAt(p)
      BY <2>1, <2>2 DEF Sound, HandleShape
    <3>2. \A a, b \in HandleAt(p) : a = b
      BY <2>1, <2>2 DEF Sound, HookShape, HandleShape
    <3> QED
      BY <3>1, <3>2
  <2>5. ~hook[p].installed => HandleAt(p) = {}
    BY <2>1, <2>2 DEF Sound, HandleShape
  <2>6. "shared" \in HandleAt(p) =>
          hook[p].at \in {"stored", "looping", "getting", "leaving"}
    BY <2>1, <2>2 DEF Sound, HookShape
  <2>7. HandleAt(p) \cap {"thread", "shared"} # {} => hook[p].active
    BY <2>1, <2>2 DEF Sound, HookShape
  <2> QED
    BY <2>3, <2>4, <2>5, <2>6, <2>7
<1>2. IInv => NothingDangles
  BY <1>1 DEF NothingDangles
<1> QED
  BY <1>2, Invariance, PTL

\* Only Refuse turns a launch away.
LEMMA OnlyRefuse ==
  ASSUME IInv, [Next]_vars, NEW p \in Processes,
         ui[p].main = "opened", ui'[p].main = "refused"
  PROVE  Refuse(p)
<1>0. Sound(ui[p], hook[p], icon[p]) /\ ui \in [Processes -> UiStates]
  BY DEF IInv, TypeOK
<1>1. ui[p].teardown = "no" /\ ~ui[p].window /\ ui[p] \in UiStates
  BY <1>0 DEF Sound, Owned, Inside
<1>2. ui' # ui
  OBVIOUS
<1>3. PICK q \in Processes :
        \/ OpenMutex(q) \/ Starts(q) \/ Stops(q) \/ Returns(q) \/ Close(q)
        \/ AskToClose(q) \/ CloseReenters(q) \/ EnterHandler(q)
        \/ LeaveHandler(q) \/ OpenMenu(q) \/ ChooseExit(q) \/ Killed(q)
  BY <1>2 DEF Next, vars, ThreadStep, Identify, CreateQueue, Claim, Install,
     InstallFails, StoreHook, Report, CheckDisposed, Quit, TakeOwnHandle,
     Uninstall, Complete, Move, GetMessageFails, Hang
<1>4. CASE q # p
  <2>1. ui'[p] = ui[p]
    BY <1>0, <1>3, <1>4
       DEF OpenMutex, Starts, Acquire, Refuse, AcquireFails, CreateOwner,
       AddTray, StartHook, Started, NotStarted, Stops, Join, TakeHandle,
       Unhook, QuitAgain, Detach, RemoveTray, DestroyOwner, ReleaseGuard,
       ExitProcess, Returns,
       MenuReturns, LoopEnds, BoxEnds, Close, AskToClose, CloseReenters,
       EnterHandler, LeaveHandler, OpenMenu, ChooseExit, Killed, BeginTeardown,
       AfterWait, Goto
  <2> QED
    BY <2>1
<1>5. CASE q = p
  <2>1. ~(Stops(p) \/ Returns(p) \/ Close(p) \/ AskToClose(p) \/ OpenMenu(p)
          \/ ChooseExit(p) \/ EnterHandler(p) \/ OpenMutex(p))
    BY <1>0, <1>1
       DEF Stops, Join, TakeHandle, Unhook, QuitAgain, Detach, RemoveTray,
       DestroyOwner, ReleaseGuard, ExitProcess, Returns, MenuReturns, LoopEnds, BoxEnds, Close, AskToClose,
       OpenMenu, ChooseExit, EnterHandler, OpenMutex, At, Pumps
  <2>2. ~(CloseReenters(p) \/ LeaveHandler(p) \/ Killed(p))
    BY <1>0, <1>1 DEF CloseReenters, LeaveHandler, Killed, NoUi, UiStates
  <2>3. Starts(p) => Refuse(p)
    BY <1>0, <1>1
       DEF Starts, Acquire, AcquireFails, CreateOwner, AddTray, StartHook,
       Started, NotStarted, At, Goto, UiStates
  <2> QED
    BY <1>3, <1>5, <2>1, <2>2, <2>3
<1> QED
  BY <1>4, <1>5

\* Only a process that has the mutex makes another launch leave.
THEOREM RefusalHasReason == Spec => RefusedByAnother
<1>1. ASSUME IInv, [Next]_vars, NEW p \in Processes,
             ui[p].main = "opened", ui'[p].main = "refused"
      PROVE  \E q \in Processes \ {p} : HasHandle(q) /\ mutex = q
  <2>1. ~Acquirable
    BY <1>1, OnlyRefuse DEF Refuse
  <2>2. mutex \in Processes
    BY <1>1, <2>1 DEF IInv, TypeOK, Acquirable
  <2>3. ui[mutex].main \in Inside
    BY <1>1, <2>2 DEF IInv, MutexHeld
  <2> QED
    BY <1>1, <2>2, <2>3 DEF HasHandle, Inside
<1>2. IInv /\ [Next]_vars =>
        [\A p \in Processes :
           ui[p].main = "opened" /\ ui'[p].main = "refused"
           => \E q \in Processes \ {p} : HasHandle(q) /\ mutex = q]_vars
  BY <1>1
<1> QED
  BY <1>2, Invariance, PTL DEF Spec, RefusedByAnother
=============================================================================
