------------------------------- MODULE Program -------------------------------
(***************************************************************************)
(* The life of FrigoTab processes: the named mutex that lets one of them   *)
(* serve the desktop, the owner window and the tray icon, the thread that  *)
(* holds the keyboard hook, and the ways all of them are given back        *)
(* (main.rs, app.rs, single_instance_guard.rs, the thread functions of     *)
(* key_hook.rs).                                                           *)
(*                                                                         *)
(* A process is a UI thread and a hook thread.  The two interleave, the    *)
(* hook thread may hang in a native call for good, every bounded wait may  *)
(* run out first, and a process may be killed between any two steps.       *)
(***************************************************************************)
EXTENDS Naturals, FiniteSets

CONSTANT Processes

ASSUME ProcessesAssumption == {"free", "abandoned"} \cap Processes = {}

VARIABLES
  mutex,   \* the owner of Local\FrigoTab, "free", or "abandoned" by a dead owner
  ui,      \* the UI thread and what it owns, for each process
  hook,    \* the hook thread and the state it shares, for each process
  icon     \* whether the shell has an icon registered for each process

vars == <<mutex, ui, hook, icon>>

\* `main` is the place in main(), `nested` what runs inside its message loop or
\* message box, `teardown` where a shutdown has got to.  `asked` is a WM_CLOSE
\* in the queue; `wanted` remembers that one was sent, or that main() is on its
\* way out (history).
UiStates ==
  [main     : {"off", "opened", "refused", "guarded", "owned", "trayed",
               "starting", "box", "loop", "leaving", "exiting"},
   nested   : {"no", "handler", "menu"},
   teardown : {"no", "waiting", "unhooking", "unhooked", "waitingMore", "tray",
               "window"},
   window   : BOOLEAN,
   hooked   : BOOLEAN,
   asked    : BOOLEAN,
   wanted   : BOOLEAN]

\* `at` is the place in hook_thread; `hung` says that it will never move again.
HookStates ==
  [at        : {"none", "spawned", "identified", "queued", "active",
                "installed", "stored", "looping", "getting", "leaving",
                "unhooking", "unhooked", "ended"},
   disposed  : BOOLEAN,
   quit      : BOOLEAN,
   installed : BOOLEAN,
   hookId    : BOOLEAN,
   active    : BOOLEAN,
   startup   : {"none", "ok", "error"},
   hung      : BOOLEAN]

NoUi == [main |-> "off", nested |-> "no", teardown |-> "no", window |-> FALSE,
         hooked |-> FALSE, asked |-> FALSE, wanted |-> FALSE]

NoHook == [at |-> "none", disposed |-> FALSE, quit |-> FALSE,
           installed |-> FALSE, hookId |-> FALSE, active |-> FALSE,
           startup |-> "none", hung |-> FALSE]

Init ==
  /\ mutex = "free"
  /\ ui = [p \in Processes |-> NoUi]
  /\ hook = [p \in Processes |-> NoHook]
  /\ icon = [p \in Processes |-> FALSE]

-----------------------------------------------------------------------------
(* The mutex exists while some process holds a handle to it.               *)

HasHandle(p) == ui[p].main \notin {"off", "refused", "exiting"}

Unowned == IF mutex \in Processes THEN "abandoned" ELSE mutex

\* What is left of the mutex when p, its owner or not, closes its handle.
HandleClosed(p) ==
  IF \A q \in Processes \ {p} : ~HasHandle(q) THEN "free"
  ELSE IF mutex = p THEN Unowned ELSE mutex

AcquirableFree == mutex = "free"

Acquirable == mutex \in {"free", "abandoned"}

At(p, place) == ui[p].main = place /\ ui[p].teardown = "no"

Goto(p, place) == ui' = [ui EXCEPT ![p].main = place]

OpenMutex(p) ==
  /\ At(p, "off")
  /\ Goto(p, "opened")
  /\ UNCHANGED <<mutex, hook, icon>>

AcquireUnheld(p) ==
  /\ At(p, "opened")
  /\ Acquirable
  /\ mutex' = "free"
  /\ Goto(p, "guarded")
  /\ UNCHANGED <<hook, icon>>

Acquire(p) ==
  /\ At(p, "opened")
  /\ Acquirable
  /\ mutex' = p
  /\ Goto(p, "guarded")
  /\ UNCHANGED <<hook, icon>>

\* A second instance leaves at once; a wait that fails is reported and leaves.
Refuse(p) ==
  /\ At(p, "opened")
  /\ ~Acquirable
  /\ Goto(p, "refused")
  /\ mutex' = HandleClosed(p)
  /\ UNCHANGED <<hook, icon>>

AcquireFails(p) ==
  /\ At(p, "opened")
  /\ Goto(p, "exiting")
  /\ mutex' = HandleClosed(p)
  /\ UNCHANGED <<hook, icon>>

-----------------------------------------------------------------------------
(* Start-up                                                                *)

CreateOwner(p) ==
  /\ At(p, "guarded")
  /\ \/ ui' = [ui EXCEPT ![p].main = "owned", ![p].window = TRUE]
     \/ Goto(p, "leaving")
  /\ UNCHANGED <<mutex, hook, icon>>

AddTray(p) ==
  /\ At(p, "owned")
  /\ \/ /\ icon' = [icon EXCEPT ![p] = TRUE]
        /\ Goto(p, "trayed")
     \/ /\ Goto(p, "box")
        /\ UNCHANGED icon
  /\ UNCHANGED <<mutex, hook>>

StartHook(p) ==
  /\ At(p, "trayed")
  /\ \/ /\ hook' = [hook EXCEPT ![p].at = "spawned"]
        /\ Goto(p, "starting")
     \/ /\ Goto(p, "box")
        /\ UNCHANGED hook
  /\ UNCHANGED <<mutex, icon>>

Started(p) ==
  /\ At(p, "starting")
  /\ hook[p].startup = "ok"
  /\ ui' = [ui EXCEPT ![p].main = "loop", ![p].hooked = TRUE]
  /\ UNCHANGED <<mutex, hook, icon>>

\* The hook thread's message queue exists from its PeekMessage on; a WM_QUIT
\* posted before is lost, and one posted after its loop is never read.
CanPost(p) ==
  hook[p].at \in {"queued", "active", "installed", "stored", "looping", "getting"}

Disposing(p) ==
  hook' = [hook EXCEPT ![p].disposed = TRUE, ![p].quit = IF CanPost(p) THEN TRUE ELSE @]

\* An error, or the five seconds have passed with or without an answer.
NotStarted(p) ==
  /\ At(p, "starting")
  /\ Disposing(p)
  /\ ui' = [ui EXCEPT ![p].teardown = "waiting"]
  /\ UNCHANGED <<mutex, icon>>

-----------------------------------------------------------------------------
(* The message loop, and the loop of a message box                         *)

Pumps(p) == ui[p].main \in {"loop", "box"} /\ ui[p].teardown = "no"

\* Somebody closes the owner window: WM_CLOSE reaches its queue, or a handler
\* that holds the application finds it and posts it again.
AskToClose(p) ==
  /\ ui[p].window
  /\ ui[p].nested # "handler"
  /\ ui' = [ui EXCEPT ![p].asked = TRUE, ![p].wanted = TRUE]
  /\ UNCHANGED <<mutex, hook, icon>>

CloseDropped(p) ==
  /\ ui[p].nested = "handler"
  /\ ui' = [ui EXCEPT ![p].wanted = TRUE]
  /\ UNCHANGED <<mutex, hook, icon>>

CloseReenters(p) ==
  /\ ui[p].nested = "handler"
  /\ ui' = [ui EXCEPT ![p].asked = TRUE, ![p].wanted = TRUE]
  /\ UNCHANGED <<mutex, hook, icon>>

EnterHandler(p) ==
  /\ At(p, "loop")
  /\ ui[p].window
  /\ ui[p].nested = "no"
  /\ ui' = [ui EXCEPT ![p].nested = "handler"]
  /\ UNCHANGED <<mutex, hook, icon>>

LeaveHandler(p) ==
  /\ ui[p].nested = "handler"
  /\ ui' = [ui EXCEPT ![p].nested = "no"]
  /\ UNCHANGED <<mutex, hook, icon>>

OpenMenu(p) ==
  /\ Pumps(p)
  /\ ui[p].nested = "no"
  /\ icon[p]
  /\ ui' = [ui EXCEPT ![p].nested = "menu"]
  /\ UNCHANGED <<mutex, hook, icon>>

\* close_for_shutdown: the hook goes first, if it was started.
BeginTeardown(p, u) ==
  /\ IF ui[p].hooked
       THEN /\ Disposing(p)
            /\ ui' = [ui EXCEPT ![p] = [u EXCEPT !.hooked = FALSE, !.wanted = TRUE,
                                                 !.teardown = "waiting"]]
       ELSE /\ ui' = [ui EXCEPT ![p] = [u EXCEPT !.wanted = TRUE,
                                                 !.teardown = "tray"]]
            /\ UNCHANGED hook
  /\ UNCHANGED <<mutex, icon>>

Close(p) ==
  /\ Pumps(p)
  /\ ui[p].window
  /\ ui[p].nested # "handler"
  /\ ui[p].asked
  /\ BeginTeardown(p, [ui[p] EXCEPT !.asked = FALSE])

\* The menu's loop may have run Close, which destroyed the window.
MenuReturns(p) ==
  /\ Pumps(p)
  /\ ui[p].nested = "menu"
  /\ ui' = [ui EXCEPT ![p].nested = "no"]
  /\ UNCHANGED <<mutex, hook, icon>>

ChooseExit(p) ==
  /\ Pumps(p)
  /\ ui[p].nested = "menu"
  /\ ui[p].window
  /\ BeginTeardown(p, [ui[p] EXCEPT !.nested = "no"])

\* WM_QUIT after the window is gone, or a GetMessage that fails.
LoopEnds(p) ==
  /\ At(p, "loop")
  /\ ui[p].nested = "no"
  /\ BeginTeardown(p, [ui[p] EXCEPT !.main = "leaving"])

BoxEnds(p) ==
  /\ At(p, "box")
  /\ ui[p].nested = "no"
  /\ BeginTeardown(p, [ui[p] EXCEPT !.main = "leaving"])

-----------------------------------------------------------------------------
(* Shutting down                                                           *)

\* Where the UI thread goes on once the hook thread is joined or detached.
AfterWait(p) ==
  ui' = [ui EXCEPT ![p] = IF @.main = "starting"
                            THEN [@ EXCEPT !.main = "box", !.teardown = "no"]
                            ELSE [@ EXCEPT !.teardown = "tray"]]

Join(p) ==
  /\ ui[p].teardown \in {"waiting", "waitingMore"}
  /\ hook[p].at = "ended"
  /\ AfterWait(p)
  /\ UNCHANGED <<mutex, hook, icon>>

\* After two seconds the UI thread swaps the handle out of the shared state.  It
\* takes the hook out itself, if the hook thread had stored one and not yet
\* swapped it, and asks once more.  The hook thread goes on meanwhile.
TakeHandle(p) ==
  /\ ui[p].teardown = "waiting"
  /\ ui' = [ui EXCEPT ![p].teardown = IF hook[p].hookId THEN "unhooking"
                                      ELSE "unhooked"]
  /\ hook' = [hook EXCEPT ![p].hookId = FALSE]
  /\ UNCHANGED <<mutex, icon>>

Unhook(p) ==
  /\ ui[p].teardown = "unhooking"
  /\ ui' = [ui EXCEPT ![p].teardown = "unhooked"]
  /\ hook' = [hook EXCEPT ![p].installed = FALSE]
  /\ UNCHANGED <<mutex, icon>>

QuitAgain(p) ==
  /\ ui[p].teardown = "unhooked"
  /\ ui' = [ui EXCEPT ![p].teardown = "waitingMore"]
  /\ hook' = [hook EXCEPT ![p].quit = IF CanPost(p) THEN TRUE ELSE @]
  /\ UNCHANGED <<mutex, icon>>

Detach(p) ==
  /\ ui[p].teardown = "waitingMore"
  /\ AfterWait(p)
  /\ UNCHANGED <<mutex, hook, icon>>

\* A NIM_DELETE that fails leaves a picture whose callbacks go nowhere once the
\* window is gone; the program has given the icon up either way.
RemoveTray(p) ==
  /\ ui[p].teardown = "tray"
  /\ ui' = [ui EXCEPT ![p].teardown = "window"]
  /\ icon' = [icon EXCEPT ![p] = FALSE]
  /\ UNCHANGED <<mutex, hook>>

DestroyOwner(p) ==
  /\ ui[p].teardown = "window"
  /\ ui' = [ui EXCEPT ![p].teardown = "no", ![p].window = FALSE,
                      ![p].asked = FALSE]
  /\ UNCHANGED <<mutex, hook, icon>>

ReleaseGuard(p) ==
  /\ At(p, "leaving")
  /\ ui' = [ui EXCEPT ![p].main = "exiting", ![p].wanted = TRUE]
  /\ mutex' = "free"
  /\ UNCHANGED <<hook, icon>>

\* The process ends and takes what is left of the hook thread with it.
ExitProcess(p) ==
  /\ ui[p].main \in {"refused", "exiting"}
  /\ ui' = [ui EXCEPT ![p] = NoUi]
  /\ hook' = [hook EXCEPT ![p] = NoHook]
  /\ UNCHANGED <<mutex, icon>>

\* The process is killed.  Windows takes back its window, hook and handles.
Killed(p) ==
  /\ ui[p].main # "off"
  /\ ui' = [ui EXCEPT ![p] = NoUi]
  /\ hook' = [hook EXCEPT ![p] = NoHook]
  /\ icon' = [icon EXCEPT ![p] = FALSE]
  /\ mutex' = HandleClosed(p)

-----------------------------------------------------------------------------
(* hook_thread                                                             *)

Runs(p) == ui[p].main # "off" /\ ~hook[p].hung

Move(p, from, h) ==
  /\ Runs(p)
  /\ hook[p].at = from
  /\ hook' = [hook EXCEPT ![p] = h]
  /\ UNCHANGED <<mutex, ui, icon>>

Identify(p)    == Move(p, "spawned", [hook[p] EXCEPT !.at = "identified"])
CreateQueue(p) == Move(p, "identified", [hook[p] EXCEPT !.at = "queued"])
Claim(p)       == Move(p, "queued", [hook[p] EXCEPT !.at = "active",
                                                   !.active = TRUE])
Install(p)     == Move(p, "active", [hook[p] EXCEPT !.at = "installed",
                                                   !.installed = TRUE])
InstallFails(p) == Move(p, "active", [hook[p] EXCEPT !.at = "unhooked"])
StoreHook(p)   == Move(p, "installed", [hook[p] EXCEPT !.at = "stored",
                                                      !.hookId = TRUE])

StoppedNever(p) == FALSE

Stopped(p) == hook[p].disposed

ReportAndReturn(p) ==
  Move(p, "stored", IF Stopped(p) THEN [hook[p] EXCEPT !.at = "unhooked"]
                    ELSE [hook[p] EXCEPT !.at = "looping", !.startup = "ok"])

\* The hook may have been given up while it was being installed.
Report(p) ==
  Move(p, "stored", IF Stopped(p) THEN [hook[p] EXCEPT !.at = "leaving"]
                    ELSE [hook[p] EXCEPT !.at = "looping", !.startup = "ok"])

CheckDisposed(p) ==
  Move(p, "looping",
       [hook[p] EXCEPT !.at = IF Stopped(p) THEN "leaving" ELSE "getting"])

Quit(p) ==
  /\ hook[p].quit
  /\ Move(p, "getting", [hook[p] EXCEPT !.at = "leaving", !.quit = FALSE])

GetMessageFails(p) == Move(p, "getting", [hook[p] EXCEPT !.at = "leaving"])

\* The hook thread swaps the handle too, and finds none if the UI thread was
\* faster; it does not wait for the UI thread to take the hook out.
TakeOwnHandle(p) ==
  Move(p, "leaving", [hook[p] EXCEPT !.at = IF hook[p].hookId THEN "unhooking"
                                            ELSE "unhooked",
                                     !.hookId = FALSE])

Uninstall(p) ==
  Move(p, "unhooking", [hook[p] EXCEPT !.at = "unhooked", !.installed = FALSE])

\* The state is given up, then the completion signal is dropped.
Complete(p) ==
  Move(p, "unhooked",
       [hook[p] EXCEPT !.at = "ended", !.active = FALSE,
                       !.startup = IF @ = "none" THEN "error" ELSE @])

\* One of the thread's native calls, or one of a hook callback, never returns.
Hang(p) ==
  /\ Runs(p)
  /\ hook[p].at \in {"identified", "active", "getting", "unhooking"}
  /\ hook' = [hook EXCEPT ![p].hung = TRUE]
  /\ UNCHANGED <<mutex, ui, icon>>

-----------------------------------------------------------------------------
Starts(p) ==
  \/ Acquire(p) \/ Refuse(p) \/ AcquireFails(p) \/ CreateOwner(p)
  \/ AddTray(p) \/ StartHook(p) \/ Started(p) \/ NotStarted(p)

Stops(p) ==
  \/ Join(p) \/ TakeHandle(p) \/ Unhook(p) \/ QuitAgain(p) \/ Detach(p)
  \/ RemoveTray(p) \/ DestroyOwner(p) \/ ReleaseGuard(p) \/ ExitProcess(p)

\* A menu or a box whose thread has WM_QUIT in its queue returns.
Returns(p) == MenuReturns(p) \/ LoopEnds(p) \/ BoxEnds(p)

ThreadStep(p) ==
  \/ Identify(p) \/ CreateQueue(p) \/ Claim(p) \/ Install(p) \/ InstallFails(p)
  \/ StoreHook(p) \/ Report(p) \/ CheckDisposed(p) \/ Quit(p)
  \/ TakeOwnHandle(p) \/ Uninstall(p) \/ Complete(p)

Next ==
  \E p \in Processes :
    \/ OpenMutex(p) \/ Starts(p) \/ Stops(p) \/ Returns(p) \/ ThreadStep(p)
    \/ AskToClose(p) \/ CloseReenters(p) \/ EnterHandler(p) \/ LeaveHandler(p)
    \/ OpenMenu(p) \/ Close(p) \/ ChooseExit(p)
    \/ GetMessageFails(p) \/ Hang(p) \/ Killed(p)

\* The UI thread goes on wherever it need not wait for anybody: start-up and
\* shutdown wait at most for a timeout.  A posted WM_CLOSE is retrieved, though
\* other messages may come first.  Nobody has to close a menu or a box whose
\* window still stands.  The hook thread goes on unless it hangs.
Fairness ==
  \A p \in Processes :
    /\ WF_vars(Starts(p))
    /\ WF_vars(Stops(p))
    /\ WF_vars(LeaveHandler(p))
    /\ SF_vars(Close(p))
    /\ WF_vars(~ui[p].window /\ Returns(p))
    /\ WF_vars(ThreadStep(p))

Spec == Init /\ [][Next]_vars /\ Fairness

-----------------------------------------------------------------------------
TypeOK ==
  /\ mutex \in Processes \cup {"free", "abandoned"}
  /\ ui \in [Processes -> UiStates]
  /\ hook \in [Processes -> HookStates]
  /\ icon \in [Processes -> BOOLEAN]

\* A hook that may swallow a key: Windows calls it, it finds the state, and
\* the state is not given up (low_level_keyboard_proc).
Serves(p) == hook[p].installed /\ hook[p].active /\ ~hook[p].disposed

OwnsDesktop(p) == ui[p].window \/ icon[p] \/ Serves(p)

\* One process at a time has the owner window, the tray icon or a hook that
\* takes keys, whichever of them start, fail, hang, time out, leave or die.
OneInstance ==
  \A p, q \in Processes : OwnsDesktop(p) /\ OwnsDesktop(q) => p = q

\* Where the handle of the hook is: in a local variable of the hook thread, in
\* the shared state, or in a local variable of the UI thread.
HandleAt(p) ==
  {place \in {"thread", "shared", "ui"} :
     \/ place = "thread" /\ hook[p].at \in {"installed", "unhooking"}
     \/ place = "shared" /\ hook[p].hookId
     \/ place = "ui" /\ ui[p].teardown = "unhooking"}

\* Nothing outlives what it needs.  An icon's callbacks have a window to go to.
\* An installed hook has one thread that will take it out, and no other: a handle
\* in the shared state has a hook thread that has yet to leave, and callbacks
\* find the state until the handle is taken; a handle nobody has is of no hook.
NothingDangles ==
  \A p \in Processes :
    /\ icon[p] => ui[p].window
    /\ IF hook[p].installed THEN \E place \in HandleAt(p) : HandleAt(p) = {place}
       ELSE HandleAt(p) = {}
    /\ "shared" \in HandleAt(p) =>
         hook[p].at \in {"stored", "looping", "getting", "leaving"}
    /\ HandleAt(p) \cap {"thread", "shared"} # {} => hook[p].active

\* A launch is turned away only while another process has the mutex, never
\* because of one that died with it.
RefusedByAnother ==
  [][\A p \in Processes :
       ui[p].main = "opened" /\ ui'[p].main = "refused"
       => \E q \in Processes \ {p} : HasHandle(q) /\ mutex = q]_vars

\* A request to close ends the process, even one that arrives inside a handler
\* or a menu, and even with a hook thread that hangs.
CloseHonoured ==
  \A p \in Processes : ui[p].wanted ~> (ui[p].main = "off")

\* A hook that was given up at any point of its start or its life ends and is
\* taken out, though the WM_QUIT meant for it may have been lost.
GivenUpHookEnds ==
  \A p \in Processes :
    hook[p].disposed ~> (hook[p].hung \/ ~(hook[p].installed \/ hook[p].active))
=============================================================================
