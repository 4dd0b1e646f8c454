----------------------------- MODULE FrigoTabProofs -----------------------------
(***************************************************************************)
(* The hook keeps the keyboard for a visible session and for nothing else, *)
(* for every keyboard, capacity and number of previews.                    *)
(*                                                                         *)
(* Neither VisibleIsGuarded nor GuardHasReason is inductive: a session     *)
(* becomes visible because a Tab was queued while the hook was active, so  *)
(* the queue must vouch for the guard (OpensGuarded), and an active hook   *)
(* is let go by the calls a handler has yet to make, so what those calls   *)
(* are, and that the session they follow has ended, belongs to the         *)
(* invariant too (CallsShape, CallsEndSession, Settled, Reason).           *)
(*                                                                         *)
(* And FrigoTab drives the hook as KeyHook assumes (DrivesHook): every     *)
(* step is one of the hook or leaves it alone, because the gesture about   *)
(* to be given back is the one that raised the guard (GestureFirst,        *)
(* GestureOwed).  What KeyHookProofs proves of the hook alone therefore     *)
(* holds of the program (GateInProgram, BalanceInProgram).                 *)
(***************************************************************************)
EXTENDS FrigoTab, TLAPS

\* Entries of the queue, and those that could open a session.
Entry == [input : Controller!KeyInput, live : BOOLEAN]

OpensLive(i) == queue[i].live /\ Controller!Opens(queue[i].input)

TabOnItsWay == \E i \in DOMAIN queue : OpensLive(i)

QueueOK ==
  /\ queue \in Seq(Entry)
  /\ \A i \in DOMAIN queue : ~queue[i].input.injected

OpensGuarded == \A i \in DOMAIN queue : OpensLive(i) => active

CallsShape ==
  \/ calls \in {<<>>, <<Sync>>, <<Reset, Sync>>, <<Sync, Drop>>, <<Drop>>}
  \/ \E shift \in BOOLEAN :
       calls \in {<<Sync, CancelAdmission(shift)>>, <<CancelAdmission(shift)>>}

\* The handler has reported the visibility, or there is no handler.
Reported == calls = <<>> \/ Head(calls).call \in {"cancel", "drop"}

\* Calls that are made only for a session that ended or was never opened.
Closes == calls \notin {<<>>, <<Sync>>}

CallsEndSession == Closes => state = "Idle"
Settled == Reported => reported = (state = "Visible")
StateOK == state \in {"Idle", "Visible"} /\ reported \in BOOLEAN

Reason ==
  active => \/ state = "Visible"
            \/ reported
            \/ Closes
            \/ TabOnItsWay

IInv ==
  /\ QueueOK /\ OpensGuarded /\ VisibleIsGuarded
  /\ CallsShape /\ CallsEndSession /\ Settled /\ StateOK
  /\ Reason

-----------------------------------------------------------------------------
(* What the hook thread does to the guard.                                 *)

\* Callbacks decided before the dispatcher is asked leave the guard as it is.
LEMMA QuietKeeps ==
  ASSUME NEW k, NEW d, Hook!QuietKey(k, d)
  PROVE  active' = active /\ gestureShift' = gestureShift
<1> USE DEF Hook!ledger
<1>1. CASE Hook!SwallowBlocked(k, d) \/ Hook!SwallowOwed(k, d)
  BY <1>1 DEF Hook!SwallowBlocked, Hook!SwallowOwed
<1>2. CASE Hook!FailClosed(k, d) \/ Hook!StayForwarded(k, d)
           \/ Hook!PassUnownedTab(k, d)
  BY <1>2 DEF Hook!FailClosed, Hook!StayForwarded, Hook!PassUnownedTab
<1>3. CASE Hook!ClaimAlt(k, d) \/ Hook!ForwardCtrlAlt(k, d) \/ Hook!DeferAlt(k, d)
  BY <1>3 DEF Hook!ClaimAlt, Hook!ForwardCtrlAlt, Hook!DeferAlt
<1>4. CASE Hook!DeferShift(k, d) \/ Hook!PassHeldShift(k, d)
           \/ Hook!RepeatDeferred(k, d)
  BY <1>4 DEF Hook!DeferShift, Hook!PassHeldShift, Hook!RepeatDeferred
<1>5. CASE Hook!ReplayChord(k, d) \/ Hook!ReplayRelease(k, d)
  BY <1>5 DEF Hook!ReplayChord, Hook!ReplayRelease
<1>6. CASE Hook!DiscardGesture(k, d)
  BY <1>6 DEF Hook!DiscardGesture
<1>7. CASE Hook!QuarantineKey(k, d) \/ Hook!PassUnknown(k, d)
           \/ Hook!PassDisposed(k, d)
  BY <1>7 DEF Hook!QuarantineKey, Hook!PassUnknown, Hook!PassDisposed
<1> QED BY <1>1, <1>2, <1>3, <1>4, <1>5, <1>6, <1>7 DEF Hook!QuietKey

\* So does every SendInput.
LEMMA SendingKeeps ==
  ASSUME Hook!FinishReplay \/ Hook!FinishRecovery \/ Hook!SendOwnerRecovery
  PROVE  active' = active /\ gestureShift' = gestureShift
BY DEF Hook!FinishReplay, Hook!FinishRecovery, Hook!SendOwnerRecovery, Hook!ledger

\* A key of FrigoTab's is presented to the controller as KeyInput.
LEMMA InputType ==
  ASSUME NEW k, NEW d \in {"down", "up"}, Hook!KeyOf(k) # "Unknown"
  PROVE  Input(k, d) \in Controller!KeyInput /\ ~Input(k, d).injected
<1>1. Hook!KeyOf(k) \in Hook!SwitcherKeys
  BY DEF Hook!KeyOf, Hook!SwitcherKeys
<1>2. Hook!AltSnapshot(k, d) \in BOOLEAN
  BY DEF Hook!AltSnapshot
<1>3. Hook!ShiftSnapshot(k, d) \in BOOLEAN
  BY DEF Hook!ShiftSnapshot
<1> QED BY <1>1, <1>2, <1>3 DEF Input, Controller!KeyInput

\* A Tab that could open a session is dispatched outside an admission only
\* while the hook is active.
LEMMA DispatchedGuarded ==
  ASSUME NEW k, NEW d \in {"down", "up"}, Hook!DispatchedKey(k, d)
  PROVE  /\ active' = active /\ gestureShift' = gestureShift
         /\ Hook!KeyOf(k) # "Unknown"
         /\ Controller!Opens(Input(k, d)) => active
<1>1. active' = active /\ gestureShift' = gestureShift
  BY DEF Hook!DispatchedKey, Hook!TakeKey, Hook!PassKey, Hook!ledger
<1>2. Hook!KeyOf(k) # "Unknown" /\ Hook!LeftToPolicy(k, d)
  BY DEF Hook!DispatchedKey, Hook!TakeKey, Hook!PassKey
<1>3. Controller!Opens(Input(k, d)) =>
        d = "down" /\ Hook!KeyOf(k) = "Tab" /\ Hook!AltSnapshot(k, d)
  BY DEF Controller!Opens, Controller!IsDown, Input
<1> QED BY <1>1, <1>2, <1>3 DEF Hook!LeftToPolicy

\* An admission raises the guard, a refused one leaves it down; its Tab is one
\* that could open a session.
LEMMA AdmittingGuarded ==
  ASSUME NEW k, NEW d, NEW ok \in BOOLEAN, Hook!AdmittingKey(k, d, ok)
  PROVE  /\ ~active /\ active' = ok
         /\ gestureShift' = (ok /\ Hook!ShiftSnapshot(k, d))
         /\ d = "down" /\ Hook!KeyOf(k) = "Tab"
         /\ Controller!Opens(Input(k, d))
<1>1. PICK owed : Hook!Admission(k, d, owed, ok)
  BY DEF Hook!AdmittingKey, Hook!PromoteTab, Hook!PromoteTabOverShift,
         Hook!ReopenTab
<1>2. /\ ~active /\ active' = ok /\ d = "down" /\ Hook!KeyOf(k) = "Tab"
      /\ Hook!AltSnapshot(k, d) /\ gestureShift' = (ok /\ Hook!ShiftSnapshot(k, d))
  BY <1>1 DEF Hook!Admission, Hook!Admits
<1> QED BY <1>2 DEF Controller!Opens, Controller!IsDown, Input

-----------------------------------------------------------------------------
(* The queue.                                                              *)

\* Dispatching appends one live entry.
LEMMA AcceptKeeps ==
  ASSUME QueueOK, NEW input \in Controller!KeyInput, ~input.injected,
         Accept(input)
  PROVE  /\ QueueOK'
         /\ DOMAIN queue' = 1 .. Len(queue) + 1
         /\ \A i \in DOMAIN queue : queue'[i] = queue[i]
         /\ queue'[Len(queue) + 1] = [input |-> input, live |-> TRUE]
<1> DEFINE entry == [input |-> input, live |-> TRUE]
<1>1. entry \in Entry
  BY DEF Entry
<1>2. queue \in Seq(Entry) /\ queue' = Append(queue, entry)
  BY DEF QueueOK, Accept
<1> HIDE DEF entry
<1>3. /\ queue' \in Seq(Entry)
      /\ DOMAIN queue' = 1 .. Len(queue) + 1
      /\ \A i \in 1 .. Len(queue) : queue'[i] = queue[i]
      /\ queue'[Len(queue) + 1] = entry
  BY <1>1, <1>2
<1>4. DOMAIN queue = 1 .. Len(queue) /\ Len(queue) \in Nat
  BY <1>2
<1>5. entry.input = input
  BY DEF entry
<1>6. \A i \in DOMAIN queue' : ~queue'[i].input.injected
  BY <1>3, <1>4, <1>5 DEF QueueOK
<1> QED BY <1>3, <1>4, <1>6 DEF QueueOK, entry

\* Forgetting leaves no entry alive.
LEMMA ForgetKeeps ==
  ASSUME QueueOK, Forget
  PROVE  QueueOK' /\ \A i \in DOMAIN queue' : ~queue'[i].live
<1>1. queue \in Seq(Entry) /\ DOMAIN queue = 1 .. Len(queue) /\ Len(queue) \in Nat
  BY DEF QueueOK
<1> DEFINE gone(i) == [input |-> queue[i].input, live |-> FALSE]
<1>2. queue' = [i \in 1 .. Len(queue) |-> gone(i)]
  BY <1>1 DEF Forget
<1>3. \A i \in 1 .. Len(queue) : queue[i] \in Entry
  BY <1>1
<1>4. \A i \in 1 .. Len(queue) :
        gone(i) \in Entry /\ gone(i).input = queue[i].input /\ gone(i).live = FALSE
  BY <1>3 DEF Entry
<1> HIDE DEF gone
<1>5. queue' \in Seq(Entry) /\ DOMAIN queue' = 1 .. Len(queue)
      /\ \A i \in 1 .. Len(queue) : queue'[i] = gone(i)
  BY <1>1, <1>2, <1>4
<1> QED BY <1>1, <1>4, <1>5 DEF QueueOK

\* Taking the first entry shifts the others by one.
LEMMA TailKeeps ==
  ASSUME QueueOK, queue # <<>>, queue' = Tail(queue)
  PROVE  /\ QueueOK'
         /\ \A i \in DOMAIN queue' : i + 1 \in DOMAIN queue /\ queue'[i] = queue[i + 1]
         /\ \A i \in DOMAIN queue :
              i # 1 => i - 1 \in DOMAIN queue' /\ queue'[i - 1] = queue[i]
         /\ 1 \in DOMAIN queue /\ Head(queue) = queue[1] /\ Head(queue) \in Entry
<1>1. /\ queue \in Seq(Entry) /\ Len(queue) \in Nat \ {0}
      /\ DOMAIN queue = 1 .. Len(queue)
  BY DEF QueueOK
<1>2. /\ queue' \in Seq(Entry) /\ DOMAIN queue' = 1 .. Len(queue) - 1
      /\ \A i \in 1 .. Len(queue) - 1 : queue'[i] = queue[i + 1]
  BY <1>1
<1>3. Head(queue) = queue[1] /\ Head(queue) \in Entry
  BY <1>1
<1>4. \A i \in DOMAIN queue' : i + 1 \in DOMAIN queue /\ queue'[i] = queue[i + 1]
  BY <1>1, <1>2
<1>5. \A i \in DOMAIN queue :
        i # 1 => i - 1 \in DOMAIN queue' /\ queue'[i - 1] = queue[i]
  BY <1>1, <1>2
<1> QED BY <1>1, <1>2, <1>3, <1>4, <1>5 DEF QueueOK

\* The calls of a handler in the order they are made.
LEMMA Shapes ==
  /\ Head(<<Sync>>) = Sync /\ Tail(<<Sync>>) = <<>> /\ <<Sync>> # <<>>
  /\ Head(<<Reset, Sync>>) = Reset /\ Tail(<<Reset, Sync>>) = <<Sync>>
  /\ Head(<<Sync, Drop>>) = Sync /\ Tail(<<Sync, Drop>>) = <<Drop>>
  /\ Head(<<Drop>>) = Drop /\ Tail(<<Drop>>) = <<>>
  /\ <<Drop>> \notin {<<>>, <<Sync>>}
  /\ <<Reset, Sync>> \notin {<<>>, <<Sync>>}
  /\ <<Sync, Drop>> \notin {<<>>, <<Sync>>}
  /\ \A shift : /\ Head(<<Sync, CancelAdmission(shift)>>) = Sync
                /\ Tail(<<Sync, CancelAdmission(shift)>>) = <<CancelAdmission(shift)>>
                /\ Head(<<CancelAdmission(shift)>>) = CancelAdmission(shift)
                /\ Tail(<<CancelAdmission(shift)>>) = <<>>
                /\ <<CancelAdmission(shift)>> \notin {<<>>, <<Sync>>}
                /\ <<Sync, CancelAdmission(shift)>> \notin {<<>>, <<Sync>>}
<1>1. Drop # Sync /\ \A shift : CancelAdmission(shift) # Sync
  BY DEF Drop, Sync, CancelAdmission
<1> QED BY <1>1

\* The calls by their names.
LEMMA CallNames ==
  /\ Sync.call = "sync" /\ Reset.call = "reset" /\ Drop.call = "drop"
  /\ \A shift : /\ CancelAdmission(shift).call = "cancel"
                /\ CancelAdmission(shift).shift = shift
BY DEF Sync, Reset, Drop, CancelAdmission

-----------------------------------------------------------------------------
(* The hook thread preserves the invariant.                                *)

\* The UI thread is where it was, the queue at most longer.
HookStep ==
  /\ UNCHANGED <<state, calls, reported>>
  /\ QueueOK' /\ OpensGuarded'
  /\ active => active'
  /\ TabOnItsWay => TabOnItsWay'
  /\ active' => active \/ TabOnItsWay'

\* Such a step preserves the invariant.
LEMMA HookStepPreserves == ASSUME IInv, HookStep PROVE IInv'
<1> USE DEF IInv, HookStep
<1>1. CallsShape' /\ CallsEndSession' /\ Settled' /\ StateOK' /\ Closes' = Closes
  BY DEF CallsShape, CallsEndSession, Settled, StateOK, Closes, Reported
<1>2. VisibleIsGuarded'
  BY DEF VisibleIsGuarded
<1>3. Reason'
  BY <1>1 DEF Reason
<1> QED BY <1>1, <1>2, <1>3

\* A step that touches neither the queue nor the guard is of that kind.
LEMMA SameQueue ==
  ASSUME IInv, UNCHANGED <<queue, state, calls, reported>>, active' = active
  PROVE  IInv'
<1>1. QueueOK' /\ OpensGuarded'
  BY DEF IInv, QueueOK, OpensGuarded, OpensLive
<1>2. TabOnItsWay => TabOnItsWay'
  BY DEF TabOnItsWay, OpensLive
<1> QED BY <1>1, <1>2, HookStepPreserves DEF HookStep

\* A key goes into the queue.
LEMMA AcceptPreserves ==
  ASSUME IInv, NEW input \in Controller!KeyInput, ~input.injected, Accept(input),
         UNCHANGED <<state, calls, reported>>,
         active => active',
         Controller!Opens(input) => active',
         active' => active \/ Controller!Opens(input)
  PROVE  IInv'
<1> DEFINE last == Len(queue) + 1
<1>1. /\ QueueOK'
      /\ DOMAIN queue' = 1 .. last
      /\ \A i \in DOMAIN queue : queue'[i] = queue[i]
      /\ queue'[last] = [input |-> input, live |-> TRUE]
  BY AcceptKeeps DEF IInv
<1>2. DOMAIN queue = 1 .. Len(queue) /\ Len(queue) \in Nat
  BY DEF IInv, QueueOK
<1>3. \A i \in DOMAIN queue' : i = last \/ i \in DOMAIN queue
  BY <1>1, <1>2
<1>4. last \in DOMAIN queue' /\ DOMAIN queue \subseteq DOMAIN queue'
  BY <1>1, <1>2
<1> HIDE DEF last
<1>5. queue'[last].live /\ queue'[last].input = input
  BY <1>1
<1>6. OpensGuarded'
  BY <1>1, <1>3, <1>5 DEF OpensGuarded, OpensLive, IInv
<1>7. TabOnItsWay => TabOnItsWay'
  BY <1>1, <1>4 DEF TabOnItsWay, OpensLive
<1>8. Controller!Opens(input) => TabOnItsWay'
  BY <1>4, <1>5 DEF TabOnItsWay, OpensLive
<1> QED BY <1>1, <1>6, <1>7, <1>8, HookStepPreserves DEF HookStep

\* A dispatched key preserves the invariant.
LEMMA TakeKeyPreserves ==
  ASSUME IInv, NEW k \in Keys, NEW d \in {"down", "up"}, TakeKey(k, d)
  PROVE  IInv'
<1>1. /\ active' = active
      /\ Input(k, d) \in Controller!KeyInput /\ ~Input(k, d).injected
      /\ Controller!Opens(Input(k, d)) => active
  BY DispatchedGuarded, InputType DEF TakeKey
<1>2. UNCHANGED <<state, calls, reported>>
  BY DEF TakeKey, controllerVars, appVars
<1>3. CASE Accept(Input(k, d))
  BY <1>1, <1>2, <1>3, AcceptPreserves
<1>4. CASE Refuse(Input(k, d))
  BY <1>1, <1>2, <1>4, SameQueue DEF Refuse
<1> QED BY <1>3, <1>4 DEF TakeKey

\* So does the Tab that admits a session, accepted or refused.
LEMMA AdmitPreserves ==
  ASSUME IInv, NEW k \in Keys, NEW d \in {"down", "up"}, AdmitSession(k, d)
  PROVE  IInv'
<1>1. UNCHANGED <<state, calls, reported>>
  BY DEF AdmitSession, controllerVars, appVars
<1>2. CASE Hook!AdmittingKey(k, d, TRUE) /\ Accept(Input(k, d))
  <2>1. active' = TRUE /\ Hook!KeyOf(k) = "Tab" /\ Controller!Opens(Input(k, d))
    BY <1>2, AdmittingGuarded
  <2>2. Input(k, d) \in Controller!KeyInput /\ ~Input(k, d).injected
    BY <2>1, InputType
  <2> QED BY <1>1, <1>2, <2>1, <2>2, AcceptPreserves
<1>3. CASE Hook!AdmittingKey(k, d, FALSE) /\ Refuse(Input(k, d))
  <2>1. ~active /\ active' = FALSE
    BY <1>3, AdmittingGuarded
  <2>2. UNCHANGED queue
    BY <1>3 DEF Refuse
  <2>3. QueueOK' /\ OpensGuarded'
    BY <2>1, <2>2 DEF IInv, QueueOK, OpensGuarded, OpensLive
  <2>4. TabOnItsWay => TabOnItsWay'
    BY <2>2 DEF TabOnItsWay, OpensLive
  <2> QED BY <1>1, <2>1, <2>3, <2>4, HookStepPreserves DEF HookStep
<1> QED BY <1>2, <1>3 DEF AdmitSession

-----------------------------------------------------------------------------
(* The UI thread's handlers preserve the invariant.                        *)

\* What the controller may do with a key: only a Tab with Alt opens a session,
\* and one that is passed through leaves none.
LEMMA KeyMoves ==
  ASSUME NEW input \in Controller!KeyInput, ~input.injected,
         state \in {"Idle", "Visible"}, Controller!HandleKeyboard(input)
  PROVE  /\ state' \in {"Idle", "Visible"}
         /\ state' = "Visible" => state = "Visible" \/ Controller!Opens(input)
         /\ Controller!Opens(input) =>
              \/ state = "Visible" /\ handling' = "Consume"
              \/ state' = "Visible" /\ handling' = "Consume"
              \/ state = "Idle" /\ state' = "Idle" /\ handling' = "PassThrough"
<1> USE DEF Controller!session, Controller!Close, Controller!FailAndClose,
            Controller!Answer, Controller!Reaches
<1>1. CASE Controller!ConsumeRelease(input)
  BY <1>1 DEF Controller!ConsumeRelease, Controller!Opens, Controller!IsDown
<1>2. CASE Controller!Open(input) \/ Controller!OpenNothing(input)
           \/ Controller!PassIdle(input)
  BY <1>2 DEF Controller!Open, Controller!OpenNothing, Controller!PassIdle
<1>3. CASE Controller!MoveSelection(input)
  BY <1>3 DEF Controller!MoveSelection, Controller!TrySelect, Controller!Choose
<1>4. CASE Controller!Cancel(input)
  BY <1>4 DEF Controller!Cancel
<1>5. CASE Controller!PickDigit(input)
  BY <1>5 DEF Controller!PickDigit, Controller!SelectAndCommit, Controller!Choose
<1>6. CASE Controller!ReleaseAlt(input)
  BY <1>6 DEF Controller!ReleaseAlt, Controller!TryCommit
<1>7. CASE Controller!PassVisible(input)
  BY <1>7 DEF Controller!PassVisible, Controller!Opens, Controller!IsDown,
              Controller!KeyInput
<1>8. ~Controller!IgnoreInjected(input)
  BY DEF Controller!IgnoreInjected
<1> QED BY <1>1, <1>2, <1>3, <1>4, <1>5, <1>6, <1>7, <1>8
        DEF Controller!HandleKeyboard

\* Pointer and timers only act on a visible session.
LEMMA PointerMoves ==
  ASSUME Controller!PointerOrTimer
  PROVE  state = "Visible" /\ state' \in {"Idle", "Visible"}
<1> USE DEF Controller!Close, Controller!FailAndClose, Controller!Choose
<1>1. CASE \E hit \in Controller!Indexes \cup {Controller!NoIndex} :
             Controller!MouseMove(hit)
  BY <1>1 DEF Controller!MouseMove
<1>2. CASE \E index \in Controller!Indexes : Controller!ClickPreview(index)
  BY <1>2 DEF Controller!ClickPreview, Controller!SelectAndCommit
<1>3. CASE Controller!MouseLeave \/ Controller!ClickBeside \/ Controller!RefreshEmpty
  BY <1>3 DEF Controller!MouseLeave, Controller!ClickBeside,
     Controller!ClearSelection, Controller!RefreshEmpty, Controller!CloseSession
<1>4. CASE \E count \in 1 .. MaxCandidates :
             Controller!Relayout(count) \/ Controller!Refresh(count)
  BY <1>4 DEF Controller!Relayout, Controller!Refresh
<1> QED BY <1>1, <1>2, <1>3, <1>4 DEF Controller!PointerOrTimer

\* Between handlers the hook knows the session's visibility.
LEMMA FreeSettled == ASSUME IInv, UiFree PROVE reported = (state = "Visible")
BY DEF IInv, UiFree, Settled, Reported

\* A handler that takes nothing out of the queue and opens no session.
LEMMA HandlerPreserves ==
  ASSUME IInv, UNCHANGED <<queue, hookVars, reported>>, UiFree,
         state' \in {"Idle", "Visible"},
         state' = "Visible" => state = "Visible",
         \/ calls' = <<Sync>>
         \/ calls' = <<>> /\ state' = state
         \/ calls' \in {<<Reset, Sync>>, <<Sync, Drop>>} /\ state' = "Idle"
  PROVE  IInv'
<1> USE DEF IInv
<1>1. active' = active
  BY DEF hookVars
<1>2. QueueOK' /\ OpensGuarded' /\ VisibleIsGuarded' /\ TabOnItsWay' = TabOnItsWay
  BY <1>1 DEF QueueOK, OpensGuarded, OpensLive, VisibleIsGuarded, TabOnItsWay
<1>3. reported = (state = "Visible")
  BY FreeSettled
<1>4. CallsShape' /\ CallsEndSession' /\ StateOK'
  BY DEF CallsShape, CallsEndSession, StateOK, Closes
<1>5. Settled'
  BY <1>3, Shapes, CallNames DEF Settled, Reported, StateOK
<1>6. Reason'
  <2>1. ~Closes
    BY DEF Closes, UiFree
  <2> QED BY <1>1, <1>2, <1>3, <2>1 DEF Reason
<1> QED BY <1>2, <1>4, <1>5, <1>6

\* A key handled by the controller: the head of the queue vouches for the guard
\* of the session it opens, or for the call that gives its gesture back.
LEMMA HandleKeyPreserves == ASSUME IInv, HandleKey PROVE IInv'
<1> DEFINE input == Head(queue).input
<1>1. /\ queue # <<>> /\ Head(queue).live /\ queue' = Tail(queue)
      /\ Controller!HandleKeyboard(input)
      /\ calls' = IF handling' = "PassThrough" /\ Controller!Opens(input)
                    THEN <<Sync, CancelAdmission(input.shift)>> ELSE <<Sync>>
      /\ UiFree /\ UNCHANGED <<hookVars, reported>>
  BY DEF HandleKey, Handler
<1>2. /\ QueueOK'
      /\ \A i \in DOMAIN queue' : i + 1 \in DOMAIN queue /\ queue'[i] = queue[i + 1]
      /\ \A i \in DOMAIN queue :
           i # 1 => i - 1 \in DOMAIN queue' /\ queue'[i - 1] = queue[i]
      /\ 1 \in DOMAIN queue /\ Head(queue) = queue[1] /\ Head(queue) \in Entry
  BY <1>1, TailKeeps DEF IInv
<1>3. input \in Controller!KeyInput /\ input.shift \in BOOLEAN /\ ~input.injected
  BY <1>2 DEF Entry, Controller!KeyInput, IInv, QueueOK
<1>4. Controller!Opens(input) => active
  BY <1>1, <1>2 DEF IInv, OpensGuarded, OpensLive
<1>5. active' = active
  BY <1>1 DEF hookVars
<1>6. reported' = reported /\ reported = (state = "Visible")
  BY <1>1, FreeSettled
<1>7. state \in {"Idle", "Visible"} /\ reported \in BOOLEAN
  BY DEF IInv, StateOK
<1>8. /\ state' \in {"Idle", "Visible"}
      /\ state' = "Visible" => state = "Visible" \/ Controller!Opens(input)
      /\ Controller!Opens(input) =>
           \/ state = "Visible" /\ handling' = "Consume"
           \/ state' = "Visible" /\ handling' = "Consume"
           \/ state' = "Idle" /\ handling' = "PassThrough"
  BY <1>1, <1>3, <1>7, KeyMoves
<1> HIDE DEF input
<1>9. VisibleIsGuarded'
  BY <1>4, <1>5, <1>8 DEF IInv, VisibleIsGuarded
<1>10. OpensGuarded'
  BY <1>2, <1>5 DEF IInv, OpensGuarded, OpensLive
<1>11. CallsShape' /\ StateOK'
  BY <1>1, <1>3, <1>6, <1>7, <1>8 DEF CallsShape, StateOK
<1>12. CallsEndSession'
  <2>1. CASE handling' = "PassThrough" /\ Controller!Opens(input)
    <3>1. state' = "Idle" \/ handling' = "Consume"
      BY <1>8, <2>1
    <3> QED BY <2>1, <3>1 DEF CallsEndSession
  <2>2. CASE ~(handling' = "PassThrough" /\ Controller!Opens(input))
    BY <1>1, <2>2 DEF CallsEndSession, Closes
  <2> QED BY <2>1, <2>2
<1>13. Settled'
  BY <1>1, Shapes, CallNames DEF Settled, Reported
<1>14. Reason'
  <2>1. CASE state = "Visible"
    BY <1>6, <2>1 DEF Reason
  <2>2. CASE Controller!Opens(input) /\ state # "Visible"
    <3>1. state' = "Visible" \/ calls' = <<Sync, CancelAdmission(input.shift)>>
      BY <1>1, <1>8, <2>2
    <3> QED BY <3>1, Shapes DEF Reason, Closes
  <2>3. CASE ~Controller!Opens(input) /\ state # "Visible"
    <3>1. ~OpensLive(1)
      BY <1>2, <2>3 DEF OpensLive, input
    <3>2. active => TabOnItsWay
      BY <1>1, <1>6, <2>3 DEF IInv, Reason, Closes, UiFree
    <3>3. TabOnItsWay => TabOnItsWay'
      BY <1>2, <3>1 DEF TabOnItsWay, OpensLive
    <3> QED BY <1>5, <3>2, <3>3 DEF Reason
  <2> QED BY <2>1, <2>2, <2>3
<1> QED BY <1>2, <1>9, <1>10, <1>11, <1>12, <1>13, <1>14 DEF IInv

\* A forgotten entry vouches for nothing.
LEMMA SkipPreserves == ASSUME IInv, SkipForgotten PROVE IInv'
<1>1. /\ queue # <<>> /\ ~Head(queue).live /\ queue' = Tail(queue)
      /\ UNCHANGED <<active, state, calls, reported>>
  BY DEF SkipForgotten, hookVars, controllerVars, appVars
<1>2. /\ QueueOK'
      /\ \A i \in DOMAIN queue' : i + 1 \in DOMAIN queue /\ queue'[i] = queue[i + 1]
      /\ \A i \in DOMAIN queue :
           i # 1 => i - 1 \in DOMAIN queue' /\ queue'[i - 1] = queue[i]
      /\ Head(queue) = queue[1]
  BY <1>1, TailKeeps DEF IInv
<1>3. OpensGuarded'
  BY <1>1, <1>2 DEF IInv, OpensGuarded, OpensLive
<1>4. ~OpensLive(1)
  BY <1>1, <1>2 DEF OpensLive
<1>5. TabOnItsWay => TabOnItsWay'
  BY <1>2, <1>4 DEF TabOnItsWay, OpensLive
<1> QED BY <1>1, <1>2, <1>3, <1>5, HookStepPreserves DEF HookStep

\* No other handler opens a session or takes from the queue.
LEMMA OtherHandlersPreserve ==
  ASSUME IInv,
         \/ HandlePointerOrTimer \/ LoseForeground \/ DesktopInterrupts
         \/ RelayoutFails \/ ChangeBehavior \/ ShutDown
  PROVE  IInv'
<1> USE DEF Handler, Controller!Close, Controller!CloseSession
<1>1. CASE HandlePointerOrTimer
  BY <1>1, PointerMoves, HandlerPreserves DEF HandlePointerOrTimer
<1>2. CASE LoseForeground
  BY <1>2, HandlerPreserves DEF LoseForeground
<1>3. CASE DesktopInterrupts \/ RelayoutFails
  BY <1>3, HandlerPreserves
     DEF DesktopInterrupts, RelayoutFails, Controller!Interrupt,
         Controller!RelayoutFails
<1>4. CASE ChangeBehavior
  <2>1. state' = state /\ state \in {"Idle", "Visible"}
    BY <1>4 DEF ChangeBehavior, Controller!SetBehavior, Controller!session,
                IInv, StateOK
  <2> QED BY <1>4, <2>1, HandlerPreserves DEF ChangeBehavior
<1>5. CASE ShutDown
  BY <1>5, HandlerPreserves DEF ShutDown
<1> QED BY <1>1, <1>2, <1>3, <1>4, <1>5

-----------------------------------------------------------------------------
(* The calls a handler makes on the hook preserve the invariant.           *)

\* With the queue forgotten and the session over, the hook may let go.
LEMMA LetGo ==
  ASSUME IInv, state = "Idle", state' = state, reported' \in BOOLEAN,
         QueueOK', \A i \in DOMAIN queue' : ~queue'[i].live,
         active' = FALSE
  PROVE  QueueOK' /\ OpensGuarded' /\ VisibleIsGuarded' /\ StateOK' /\ Reason'
BY DEF IInv, OpensGuarded, OpensLive, VisibleIsGuarded, StateOK, Reason

\* What is left of the calls once the first is made.
LEMMA NextCall ==
  ASSUME IInv, calls # <<>>, calls' = Tail(calls)
  PROVE  /\ CallsShape'
         /\ Closes' => Closes
         /\ Head(calls).call = "reset" => calls' = <<Sync>> /\ Closes
         /\ Head(calls).call = "cancel" => calls' = <<>> /\ Closes
         /\ Head(calls).call = "drop" => calls' = <<>> /\ Closes
         /\ Head(calls).call = "sync" => Reported' /\ (Closes => Closes')
<1>1. CASE calls \in {<<Sync>>, <<Reset, Sync>>, <<Sync, Drop>>, <<Drop>>}
  BY <1>1, Shapes, CallNames DEF CallsShape, Closes, Reported
<1>2. CASE \E shift \in BOOLEAN :
             calls \in {<<Sync, CancelAdmission(shift)>>, <<CancelAdmission(shift)>>}
  <2>1. PICK shift \in BOOLEAN :
          calls \in {<<Sync, CancelAdmission(shift)>>, <<CancelAdmission(shift)>>}
    BY <1>2
  <2>2. CASE calls = <<Sync, CancelAdmission(shift)>>
    <3>1. calls' = <<CancelAdmission(shift)>> /\ Head(calls).call = "sync"
      BY <2>2, Shapes, CallNames
    <3>2. Reported' /\ Closes /\ Closes'
      BY <2>2, <3>1, Shapes, CallNames DEF Reported, Closes
    <3> QED BY <3>1, <3>2 DEF CallsShape
  <2>3. CASE calls = <<CancelAdmission(shift)>>
    <3>1. calls' = <<>> /\ Head(calls).call = "cancel" /\ Closes
      BY <2>3, Shapes, CallNames DEF Closes
    <3> QED BY <3>1 DEF CallsShape, Closes
  <2> QED BY <2>1, <2>2, <2>3
<1>3. \/ calls \in {<<Sync>>, <<Reset, Sync>>, <<Sync, Drop>>, <<Drop>>}
      \/ \E shift \in BOOLEAN :
           calls \in {<<Sync, CancelAdmission(shift)>>, <<CancelAdmission(shift)>>}
  BY DEF IInv, CallsShape
<1> QED BY <1>1, <1>2, <1>3

\* set_session_visible raises no guard that is not up, and lets one go only with
\* the queue forgotten.
LEMMA SyncPreserves == ASSUME IInv, SyncVisibility PROVE IInv'
<1>1. /\ calls # <<>> /\ Head(calls).call = "sync" /\ calls' = Tail(calls)
      /\ state' = state /\ reported' = (state = "Visible")
  BY DEF SyncVisibility, Calls, controllerVars
<1>2. CallsShape' /\ Reported' /\ (Closes <=> Closes')
  BY <1>1, NextCall
<1>3. CallsEndSession' /\ Settled' /\ StateOK'
  BY <1>1, <1>2 DEF IInv, CallsEndSession, Settled, StateOK
<1>4. CASE reported /\ state # "Visible"
  <2>1. state = "Idle"
    BY <1>4 DEF IInv, StateOK
  <2>2. Forget /\ active' = FALSE
    BY <1>4 DEF SyncVisibility, Hook!SetSessionVisible
  <2>3. QueueOK' /\ \A i \in DOMAIN queue' : ~queue'[i].live
    BY <2>2, ForgetKeeps DEF IInv
  <2>4. reported' \in BOOLEAN
    BY <1>1
  <2>5. OpensGuarded' /\ VisibleIsGuarded' /\ Reason'
    BY <1>1, <2>1, <2>2, <2>3, <2>4, LetGo
  <2> QED BY <1>2, <1>3, <2>3, <2>5 DEF IInv
<1>5. CASE ~(reported /\ state # "Visible")
  <2>1. UNCHANGED queue
    BY <1>5 DEF SyncVisibility
  <2>2. active' = active
    <3>1. state = "Visible" => active
      BY DEF IInv, VisibleIsGuarded
    <3>2. CASE state = "Visible" /\ ~reported
      BY <3>1, <3>2 DEF SyncVisibility, Hook!SetSessionVisible
    <3>3. CASE ~(state = "Visible" /\ ~reported)
      BY <1>5, <3>3 DEF SyncVisibility, hookVars, IInv, StateOK
    <3> QED BY <3>2, <3>3
  <2>3. QueueOK' /\ OpensGuarded' /\ VisibleIsGuarded' /\ TabOnItsWay' = TabOnItsWay
    BY <1>1, <2>1, <2>2
       DEF IInv, QueueOK, OpensGuarded, OpensLive, VisibleIsGuarded, TabOnItsWay
  <2>4. Reason'
    BY <1>1, <1>2, <1>5, <2>2, <2>3 DEF IInv, Reason
  <2> QED BY <1>2, <1>3, <2>3, <2>4 DEF IInv
<1> QED BY <1>4, <1>5

\* The other calls let the guard go, after the session has ended.
LEMMA LettingGoPreserves ==
  ASSUME IInv, ResetHook \/ GiveGestureBack \/ DropHook
  PROVE  IInv'
<1>1. /\ calls # <<>> /\ calls' = Tail(calls)
      /\ Head(calls).call \in {"reset", "cancel", "drop"}
      /\ state' = state /\ reported' = reported
  BY DEF ResetHook, GiveGestureBack, DropHook, Calls, controllerVars
<1>2. Closes /\ CallsShape' /\ calls' \in {<<>>, <<Sync>>}
  BY <1>1, NextCall
<1>3. state = "Idle" /\ reported \in BOOLEAN
  BY <1>2 DEF IInv, CallsEndSession, StateOK
<1>4. active' = FALSE
  BY DEF ResetHook, GiveGestureBack, DropHook, Hook!ResetInputState,
         Hook!CancelAdmission, Hook!Dispose
<1>5. QueueOK' /\ \A i \in DOMAIN queue' : ~queue'[i].live
  <2>1. CASE Forget
    BY <2>1, ForgetKeeps DEF IInv
  <2>2. CASE queue' = <<>>
    BY <2>2 DEF QueueOK
  <2> QED BY <2>1, <2>2 DEF ResetHook, GiveGestureBack, DropHook
<1>6. QueueOK' /\ OpensGuarded' /\ VisibleIsGuarded' /\ StateOK' /\ Reason'
  BY <1>1, <1>3, <1>4, <1>5, LetGo
<1>7. CallsEndSession'
  BY <1>2 DEF CallsEndSession, Closes
<1>8. Settled'
  <2>1. CASE Head(calls).call = "reset"
    <3>1. calls' = <<Sync>>
      BY <1>1, <2>1, NextCall
    <3> QED BY <3>1, Shapes, CallNames DEF Settled, Reported
  <2>2. CASE Head(calls).call \in {"cancel", "drop"}
    BY <1>1, <2>2 DEF IInv, Settled, Reported
  <2> QED BY <1>1, <2>1, <2>2
<1> QED BY <1>2, <1>6, <1>7, <1>8 DEF IInv

-----------------------------------------------------------------------------
\* The program starts without a session.
LEMMA InitEstablishes == Init => IInv
<1> SUFFICES ASSUME Init PROVE IInv
  OBVIOUS
<1>1. /\ queue = <<>> /\ calls = <<>> /\ reported = FALSE
      /\ state = "Idle" /\ active = FALSE
  BY DEF Init, Hook!Init, Controller!Init
<1>2. QueueOK /\ OpensGuarded
  BY <1>1 DEF QueueOK, OpensGuarded
<1> QED BY <1>1, <1>2 DEF IInv, VisibleIsGuarded, CallsShape, CallsEndSession,
           Closes, Settled, StateOK, Reason

\* Every step preserves the invariant.
LEMMA NextPreserves == IInv /\ [Next]_vars => IInv'
<1> SUFFICES ASSUME IInv, [Next]_vars PROVE IInv'
  OBVIOUS
<1>1. ASSUME NEW k \in Keys, NEW d \in {"down", "up"}, KeepKey(k, d) PROVE IInv'
  BY <1>1, QuietKeeps, SameQueue DEF KeepKey, controllerVars, appVars
<1>2. CASE FinishSending \/ SendGestureBack
  BY <1>2, SendingKeeps, SameQueue
     DEF FinishSending, SendGestureBack, controllerVars, appVars
<1>3. CASE UiProgress
  BY <1>2, <1>3, SyncPreserves, LettingGoPreserves DEF UiProgress
<1>4. CASE UNCHANGED vars
  BY <1>4, SameQueue DEF vars, hookVars, controllerVars, appVars
<1> QED
  BY <1>1, <1>2, <1>3, <1>4, TakeKeyPreserves, AdmitPreserves,
     HandleKeyPreserves, SkipPreserves, OtherHandlersPreserve DEF Next

\* Quarantine, the half the user's keystrokes depend on: whatever the timing of
\* keys, handlers, interruptions and failures, the hook is active for as long
\* as the controller shows a session.
THEOREM Guarded == Spec => []VisibleIsGuarded
<1>1. IInv => VisibleIsGuarded
  BY DEF IInv
<1> QED BY <1>1, InitEstablishes, NextPreserves, PTL DEF Spec

\* The other half: the hook never swallows keys without a session, a call about
\* to let it go, or a Tab that is still to be answered.
THEOREM Reasoned == Spec => []GuardHasReason
<1>1. IInv => GuardHasReason
  <2> SUFFICES ASSUME IInv, active PROVE GuardHasReason
    BY DEF GuardHasReason
  <2>1. CASE calls = <<>>
    BY <2>1 DEF IInv, Reason, Settled, Reported, Closes, TabOnItsWay, OpensLive,
                GuardHasReason
  <2>2. CASE calls # <<>>
    BY <2>2 DEF GuardHasReason
  <2> QED BY <2>1, <2>2
<1> QED BY <1>1, InitEstablishes, NextPreserves, PTL DEF Spec

-----------------------------------------------------------------------------
(* The types, and the bound of the queue.                                  *)

Bounded == Len(queue) <= Capacity + 1

\* What a step may do to the queue.
QueueStep ==
  \/ \E input : Accept(input)
  \/ UNCHANGED queue
  \/ queue # <<>> /\ queue' = Tail(queue)
  \/ Forget
  \/ queue' = <<>>

\* Nothing else touches it.
LEMMA QueueSteps == ASSUME [Next]_vars PROVE QueueStep
<1>1. CASE \E k \in Keys, d \in {"down", "up"} :
             TakeKey(k, d) \/ AdmitSession(k, d) \/ KeepKey(k, d)
  BY <1>1 DEF TakeKey, AdmitSession, KeepKey, Refuse, QueueStep
<1>2. CASE FinishSending \/ UNCHANGED vars
  BY <1>2 DEF FinishSending, vars, QueueStep
<1>3. CASE HandleKey \/ SkipForgotten
  BY <1>3 DEF HandleKey, SkipForgotten, QueueStep
<1>4. CASE HandlePointerOrTimer \/ LoseForeground \/ DesktopInterrupts
           \/ RelayoutFails \/ ChangeBehavior \/ ShutDown
  BY <1>4 DEF HandlePointerOrTimer, LoseForeground, DesktopInterrupts,
              RelayoutFails, ChangeBehavior, ShutDown, QueueStep
<1>5. CASE UiProgress
  BY <1>5 DEF UiProgress, SyncVisibility, ResetHook, GiveGestureBack,
              SendGestureBack, DropHook, QueueStep
<1> QED BY <1>1, <1>2, <1>3, <1>4, <1>5 DEF Next

\* An input is accepted below its limit only, and no other step lengthens it.
LEMMA BoundKept == ASSUME IInv, Bounded, [Next]_vars PROVE Bounded'
<1>1. queue \in Seq(Entry) /\ Len(queue) \in Nat /\ DOMAIN queue = 1 .. Len(queue)
  BY DEF IInv, QueueOK
<1>2. ASSUME NEW input, Accept(input) PROVE Bounded'
  <2>1. Len(queue) < Capacity + 1
    BY <1>1, <1>2, FrigoTabAssumption DEF Accept, Limit
  <2>2. Len(queue') = Len(queue) + 1
    BY <1>1, <1>2 DEF Accept
  <2> QED BY <1>1, <2>1, <2>2, FrigoTabAssumption DEF Bounded
<1>3. CASE UNCHANGED queue
  BY <1>3 DEF Bounded
<1>4. CASE queue # <<>> /\ queue' = Tail(queue)
  <2>1. Len(queue') = Len(queue) - 1
    BY <1>1, <1>4
  <2> QED BY <1>1, <2>1, FrigoTabAssumption DEF Bounded
<1>5. CASE Forget
  <2>1. DOMAIN queue' = 1 .. Len(queue) /\ queue' \in Seq(Entry)
    BY <1>1, <1>5, ForgetKeeps DEF Forget, IInv, QueueOK
  <2>2. Len(queue') = Len(queue)
    BY <1>1, <2>1
  <2> QED BY <2>2 DEF Bounded
<1>6. CASE queue' = <<>>
  BY <1>6, FrigoTabAssumption DEF Bounded
<1> QED BY <1>2, <1>3, <1>4, <1>5, <1>6, QueueSteps DEF QueueStep

\* Sequences of one or two calls.
LEMMA ShortSequences ==
  ASSUME NEW S, NEW a \in S, NEW b \in S
  PROVE  <<>> \in Seq(S) /\ <<a>> \in Seq(S) /\ <<a, b>> \in Seq(S)
OBVIOUS

\* Entries, pending calls and the reported visibility keep their types, and the
\* queue its bound (DISPATCH_CAPACITY and the slot for inputs that end a
\* session).
THEOREM Typing == Spec => []TypeOK
<1>1. Init => IInv /\ Bounded
  BY InitEstablishes, FrigoTabAssumption DEF Init, Bounded
<1>2. IInv /\ Bounded /\ [Next]_vars => IInv' /\ Bounded'
  BY NextPreserves, BoundKept
<1>3. ASSUME IInv, Bounded PROVE TypeOK
  <2> DEFINE Call == [call : {"sync", "reset", "drop", "cancel"}, shift : BOOLEAN]
  <2>1. Sync \in Call /\ Reset \in Call /\ Drop \in Call
        /\ \A shift \in BOOLEAN : CancelAdmission(shift) \in Call
    BY DEF Sync, Reset, Drop, CancelAdmission
  <2> HIDE DEF Call
  <2>2. calls \in Seq(Call)
    <3>1. CallsShape
      BY <1>3 DEF IInv
    <3>2. CASE calls \in {<<>>, <<Sync>>, <<Reset, Sync>>, <<Sync, Drop>>, <<Drop>>}
      <4>1. <<>> \in Seq(Call) /\ <<Sync>> \in Seq(Call) /\ <<Drop>> \in Seq(Call)
            /\ <<Reset, Sync>> \in Seq(Call) /\ <<Sync, Drop>> \in Seq(Call)
        BY <2>1, ShortSequences
      <4> QED BY <3>2, <4>1
    <3>3. ASSUME NEW shift \in BOOLEAN,
                 calls \in {<<Sync, CancelAdmission(shift)>>,
                           <<CancelAdmission(shift)>>}
          PROVE  calls \in Seq(Call)
      <4>1. <<Sync, CancelAdmission(shift)>> \in Seq(Call)
            /\ <<CancelAdmission(shift)>> \in Seq(Call)
        BY <2>1, ShortSequences
      <4> QED BY <3>3, <4>1
    <3> QED BY <3>1, <3>2, <3>3 DEF CallsShape
  <2> QED BY <1>3, <2>2 DEF IInv, QueueOK, Entry, StateOK, Bounded, TypeOK, Call
<1> QED BY <1>1, <1>2, <1>3, PTL DEF Spec

-----------------------------------------------------------------------------
(* FrigoTab drives the hook.                                               *)

\* The gesture with this Shift is about to be given back.
GivesBack(shift) ==
  calls \in {<<Sync, CancelAdmission(shift)>>, <<CancelAdmission(shift)>>}

\* Only an interruption resets the hook.
ResetAllowed == calls = <<Reset, Sync>> => Interruptions

\* What is given back is the gesture that raised the guard, and it is up.
GestureOwed ==
  \A shift \in BOOLEAN : GivesBack(shift) => active /\ gestureShift = shift /\ ~reported

\* With neither a session nor a call about to end one, the first Tab on its
\* way is the one that raised the guard.
FirstTab(i) == OpensLive(i) /\ \A j \in DOMAIN queue : j < i => ~OpensLive(j)

GestureFirst ==
  state = "Idle" /\ ~reported /\ ~Closes =>
    \A i \in DOMAIN queue : FirstTab(i) => queue[i].input.shift = gestureShift

GuardType == active \in BOOLEAN /\ gestureShift \in BOOLEAN

DInv == IInv /\ ResetAllowed /\ GestureOwed /\ GestureFirst /\ GuardType

\* What is about to be given back is told by the calls.
LEMMA GivingBack ==
  /\ \A shift \in BOOLEAN : GivesBack(shift) => Closes
  /\ calls \in {<<>>, <<Sync>>, <<Reset, Sync>>, <<Sync, Drop>>, <<Drop>>} =>
       \A shift \in BOOLEAN : ~GivesBack(shift)
  /\ \A shift, other \in BOOLEAN :
       calls = <<Sync, CancelAdmission(other)>> /\ GivesBack(shift) => shift = other
<1>1. /\ \A shift : CancelAdmission(shift) \notin {Sync, Reset, Drop}
      /\ \A shift, other : CancelAdmission(shift) = CancelAdmission(other) => shift = other
      /\ Sync # Reset /\ Sync # Drop /\ Reset # Drop
  BY DEF Drop, Sync, Reset, CancelAdmission
<1> QED BY <1>1, Shapes DEF GivesBack, Closes

\* A step that leaves queue, guard and calls alone.
LEMMA NothingMoves ==
  ASSUME DInv, UNCHANGED <<queue, state, calls, reported, active, gestureShift>>
  PROVE  DInv'
<1>1. IInv'
  BY SameQueue DEF DInv
<1>2. ResetAllowed' /\ GestureOwed' /\ GuardType'
  BY DEF DInv, ResetAllowed, GestureOwed, GivesBack, GuardType
<1>3. GestureFirst'
  BY DEF DInv, GestureFirst, FirstTab, OpensLive, Closes
<1> QED BY <1>1, <1>2, <1>3 DEF DInv

\* An entry that goes to the end of the queue is the first Tab only when none
\* was on its way.
LEMMA AcceptFirst ==
  ASSUME DInv, IInv', NEW input \in Controller!KeyInput, ~input.injected, Accept(input),
         UNCHANGED <<state, calls, reported>>, GuardType',
         \A shift \in BOOLEAN : GivesBack(shift) =>
           active' = active /\ gestureShift' = gestureShift,
         TabOnItsWay => gestureShift' = gestureShift,
         (state = "Idle" /\ ~reported /\ ~Closes /\ ~TabOnItsWay /\ Controller!Opens(input))
           => input.shift = gestureShift'
  PROVE  DInv'
<1> DEFINE last == Len(queue) + 1
<1>1. /\ DOMAIN queue' = 1 .. last
      /\ \A i \in DOMAIN queue : queue'[i] = queue[i]
      /\ queue'[last] = [input |-> input, live |-> TRUE]
  BY AcceptKeeps DEF DInv, IInv
<1>2. DOMAIN queue = 1 .. Len(queue) /\ Len(queue) \in Nat
  BY DEF DInv, IInv, QueueOK
<1>3. /\ \A i \in DOMAIN queue' : i = last \/ i \in DOMAIN queue
      /\ \A i \in DOMAIN queue : i < last /\ i \in DOMAIN queue'
  BY <1>1, <1>2
<1> HIDE DEF last
<1>4. ResetAllowed' /\ GestureOwed'
  BY DEF DInv, ResetAllowed, GestureOwed, GivesBack
<1>5. ASSUME state = "Idle", ~reported, ~Closes, NEW i \in DOMAIN queue', FirstTab(i)'
      PROVE  queue'[i].input.shift = gestureShift'
  <2>1. CASE i \in DOMAIN queue
    <3>1. FirstTab(i) /\ TabOnItsWay
      BY <1>1, <1>3, <1>5, <2>1 DEF FirstTab, OpensLive, TabOnItsWay
    <3> QED
      BY <1>1, <1>5, <2>1, <3>1 DEF DInv, GestureFirst
  <2>2. CASE i = last
    <3>1. ~TabOnItsWay
      BY <1>1, <1>3, <1>5, <2>2 DEF FirstTab, OpensLive, TabOnItsWay
    <3>2. Controller!Opens(input)
      BY <1>1, <1>5, <2>2 DEF FirstTab, OpensLive
    <3> QED
      BY <1>1, <1>5, <2>2, <3>1, <3>2
  <2> QED BY <1>3, <2>1, <2>2
<1>6. GestureFirst'
  BY <1>5 DEF GestureFirst, Closes
<1> QED BY <1>4, <1>6 DEF DInv

\* The hook thread's keys.
LEMMA KeysDrive ==
  ASSUME DInv, NEW k \in Keys, NEW d \in {"down", "up"},
         TakeKey(k, d) \/ AdmitSession(k, d) \/ KeepKey(k, d)
  PROVE  DInv'
<1>1. UNCHANGED <<state, calls, reported>>
  BY DEF TakeKey, AdmitSession, KeepKey, controllerVars, appVars
<1>2. CASE KeepKey(k, d)
  BY <1>1, <1>2, QuietKeeps, NothingMoves DEF KeepKey
<1>3. CASE TakeKey(k, d)
  <2>1. /\ active' = active /\ gestureShift' = gestureShift
        /\ Input(k, d) \in Controller!KeyInput /\ ~Input(k, d).injected
        /\ Controller!Opens(Input(k, d)) => active
    BY <1>3, DispatchedGuarded, InputType DEF TakeKey
  <2>2. CASE Refuse(Input(k, d))
    BY <1>1, <2>1, <2>2, NothingMoves DEF Refuse
  <2>3. CASE Accept(Input(k, d))
    <3>1. IInv' /\ GuardType'
      BY <1>3, <2>1, TakeKeyPreserves DEF DInv, GuardType
    <3>2. ~(state = "Idle" /\ ~reported /\ ~Closes /\ ~TabOnItsWay
              /\ Controller!Opens(Input(k, d)))
      BY <2>1 DEF DInv, IInv, Reason
    <3> QED BY <1>1, <2>1, <2>3, <3>1, <3>2, AcceptFirst
  <2> QED BY <1>3, <2>2, <2>3 DEF TakeKey
<1>4. CASE AdmitSession(k, d)
  <2>0. IInv'
    BY <1>4, AdmitPreserves DEF DInv
  <2>1. PICK ok \in BOOLEAN : /\ Hook!AdmittingKey(k, d, ok)
                              /\ IF ok THEN Accept(Input(k, d)) ELSE Refuse(Input(k, d))
    BY <1>4 DEF AdmitSession
  <2>2. /\ ~active /\ active' = ok
        /\ gestureShift' = (ok /\ Hook!ShiftSnapshot(k, d))
        /\ Hook!KeyOf(k) = "Tab" /\ Controller!Opens(Input(k, d))
    BY <2>1, AdmittingGuarded
  <2>3. ~TabOnItsWay /\ \A shift \in BOOLEAN : ~GivesBack(shift)
    BY <2>2 DEF DInv, IInv, OpensGuarded, TabOnItsWay, GestureOwed
  <2>4. Hook!ShiftSnapshot(k, d) \in BOOLEAN
    BY DEF Hook!ShiftSnapshot
  <2>5. GuardType'
    BY <2>2, <2>4 DEF GuardType
  <2>6. CASE ok = TRUE
    <3>1. Input(k, d).shift = gestureShift'
      BY <2>2, <2>4, <2>6 DEF Input
    <3>2. Input(k, d) \in Controller!KeyInput /\ ~Input(k, d).injected
      BY <2>2, InputType
    <3> QED BY <1>1, <2>0, <2>1, <2>3, <2>5, <2>6, <3>1, <3>2, AcceptFirst
  <2>7. CASE ok = FALSE
    <3>1. queue' = queue
      BY <2>1, <2>7 DEF Refuse
    <3>2. GestureFirst' /\ GestureOwed' /\ ResetAllowed'
      BY <1>1, <2>3, <3>1
         DEF GestureFirst, FirstTab, TabOnItsWay, OpensLive, GestureOwed, GivesBack,
             ResetAllowed, DInv
    <3> QED BY <2>0, <2>5, <3>2 DEF DInv
  <2> QED BY <2>6, <2>7
<1> QED BY <1>2, <1>3, <1>4

\* What follows the head when it is taken and opens nothing.
LEMMA TailFirst ==
  ASSUME DInv, queue # <<>>, queue' = Tail(queue), gestureShift' = gestureShift,
         ~OpensLive(1), state = "Idle", ~reported, ~Closes
  PROVE  \A i \in DOMAIN queue' : FirstTab(i)' => queue'[i].input.shift = gestureShift'
<1>1. /\ \A i \in DOMAIN queue' : i + 1 \in DOMAIN queue /\ queue'[i] = queue[i + 1]
      /\ \A i \in DOMAIN queue :
           i # 1 => i - 1 \in DOMAIN queue' /\ queue'[i - 1] = queue[i]
  BY TailKeeps DEF DInv, IInv
<1>2. DOMAIN queue \subseteq Nat /\ DOMAIN queue' \subseteq Nat
  BY TailKeeps DEF DInv, IInv, QueueOK
<1> SUFFICES ASSUME NEW i \in DOMAIN queue', FirstTab(i)'
             PROVE  queue'[i].input.shift = gestureShift'
  OBVIOUS
<1>3. OpensLive(i + 1)
  BY <1>1 DEF FirstTab, OpensLive
<1>4. ASSUME NEW j \in DOMAIN queue, j < i + 1 PROVE ~OpensLive(j)
  <2>1. CASE j = 1
    BY <2>1
  <2>2. CASE j # 1
    <3>1. j - 1 \in DOMAIN queue' /\ queue'[j - 1] = queue[j] /\ j - 1 < i
      BY <1>1, <1>2, <1>4, <2>2
    <3> QED BY <3>1 DEF FirstTab, OpensLive
  <2> QED BY <2>1, <2>2
<1>5. FirstTab(i + 1)
  BY <1>3, <1>4 DEF FirstTab
<1> QED BY <1>1, <1>5 DEF DInv, GestureFirst

\* The controller's key: what it opens nothing for is given back as it came.
LEMMA HandleKeyDrives == ASSUME DInv, HandleKey PROVE DInv'
<1> DEFINE input == Head(queue).input
<1>1. /\ queue # <<>> /\ Head(queue).live /\ queue' = Tail(queue)
      /\ Controller!HandleKeyboard(input)
      /\ calls' = IF handling' = "PassThrough" /\ Controller!Opens(input)
                    THEN <<Sync, CancelAdmission(input.shift)>> ELSE <<Sync>>
      /\ UiFree /\ UNCHANGED <<active, gestureShift, reported>>
  BY DEF HandleKey, Handler, hookVars
<1>2. /\ 1 \in DOMAIN queue /\ Head(queue) = queue[1] /\ Head(queue) \in Entry
      /\ DOMAIN queue \subseteq Nat \ {0}
  BY <1>1, TailKeeps DEF DInv, IInv, QueueOK
<1>3. input \in Controller!KeyInput /\ input.shift \in BOOLEAN /\ ~input.injected
  BY <1>2 DEF Entry, Controller!KeyInput, DInv, IInv, QueueOK
<1>4. reported = (state = "Visible") /\ ~Closes /\ state \in {"Idle", "Visible"}
  BY <1>1, FreeSettled DEF DInv, IInv, UiFree, Closes, StateOK
<1>5. /\ state' \in {"Idle", "Visible"}
      /\ Controller!Opens(input) =>
           \/ state = "Visible" /\ handling' = "Consume"
           \/ state' = "Visible" /\ handling' = "Consume"
           \/ state = "Idle" /\ state' = "Idle" /\ handling' = "PassThrough"
  BY <1>1, <1>3, <1>4, KeyMoves
<1>6. IInv' /\ GuardType'
  BY <1>1, HandleKeyPreserves DEF DInv, GuardType
<1>7. CASE handling' = "PassThrough" /\ Controller!Opens(input)
  <2>1. calls' = <<Sync, CancelAdmission(input.shift)>>
    BY <1>1, <1>7
  <2>2. state = "Idle" /\ ~reported
    BY <1>4, <1>5, <1>7
  <2>3. OpensLive(1) /\ FirstTab(1)
    BY <1>1, <1>2, <1>7 DEF OpensLive, FirstTab
  <2>4. active /\ gestureShift = input.shift
    BY <1>2, <1>4, <2>2, <2>3 DEF DInv, IInv, OpensGuarded, GestureFirst
  <2> HIDE DEF input
  <2>5. GestureOwed'
    <3> SUFFICES ASSUME NEW shift \in BOOLEAN, GivesBack(shift)'
                 PROVE  active' /\ gestureShift' = shift /\ ~reported'
      BY DEF GestureOwed
    <3>1. shift = input.shift
      <4>1. \A a, b : CancelAdmission(a) = CancelAdmission(b) => a = b
        BY DEF CancelAdmission
      <4>2. \A a : CancelAdmission(a) # Sync
        BY DEF CancelAdmission, Sync
      <4> QED BY <2>1, <4>1, <4>2 DEF GivesBack
    <3> QED BY <1>1, <2>2, <2>4, <3>1
  <2>6. Closes' /\ ResetAllowed'
    <3>1. CancelAdmission(input.shift) # Sync /\ Sync # Reset
      BY DEF CancelAdmission, Sync, Reset
    <3> QED BY <2>1, <3>1 DEF Closes, ResetAllowed
  <2> QED BY <1>6, <2>5, <2>6 DEF DInv, GestureFirst
<1>8. CASE ~(handling' = "PassThrough" /\ Controller!Opens(input))
  <2>1. calls' = <<Sync>>
    BY <1>1, <1>8
  <2>2. GestureOwed' /\ ResetAllowed'
    <3>1. \A a : CancelAdmission(a) # Sync
      BY DEF CancelAdmission, Sync
    <3>2. <<Reset, Sync>> # <<Sync>>
      BY Shapes
    <3> QED BY <2>1, <3>1, <3>2 DEF GestureOwed, GivesBack, ResetAllowed
  <2>3. GestureFirst'
    <3> SUFFICES ASSUME state' = "Idle", ~reported'
                 PROVE  \A i \in DOMAIN queue' :
                          FirstTab(i)' => queue'[i].input.shift = gestureShift'
      BY DEF GestureFirst
    <3>1. state = "Idle" /\ ~reported
      BY <1>1, <1>4
    <3>2. ~OpensLive(1)
      BY <1>2, <1>5, <1>8, <3>1 DEF OpensLive
    <3> QED BY <1>1, <1>4, <3>1, <3>2, TailFirst
  <2> QED BY <1>6, <2>2, <2>3 DEF DInv
<1> QED BY <1>7, <1>8

\* A forgotten entry is no Tab on its way.
LEMMA SkipDrives == ASSUME DInv, SkipForgotten PROVE DInv'
<1>1. /\ queue # <<>> /\ ~Head(queue).live /\ queue' = Tail(queue)
      /\ UNCHANGED <<active, gestureShift, state, calls, reported>>
  BY DEF SkipForgotten, hookVars, controllerVars, appVars
<1>2. ~OpensLive(1)
  BY <1>1, TailKeeps DEF DInv, IInv, OpensLive
<1>3. IInv' /\ ResetAllowed' /\ GestureOwed' /\ GuardType'
  BY <1>1, SkipPreserves DEF DInv, ResetAllowed, GestureOwed, GivesBack, GuardType
<1>4. GestureFirst'
  BY <1>1, <1>2, TailFirst DEF GestureFirst, Closes
<1> QED BY <1>3, <1>4 DEF DInv

\* No other handler gives a gesture back; those that reset the hook follow an
\* interruption.
LEMMA OthersDrive ==
  ASSUME DInv,
         \/ HandlePointerOrTimer \/ LoseForeground \/ DesktopInterrupts
         \/ RelayoutFails \/ ChangeBehavior \/ ShutDown
  PROVE  DInv'
<1>1. IInv'
  BY OtherHandlersPreserve DEF DInv
<1>2. UiFree /\ UNCHANGED <<queue, active, gestureShift, reported>>
  BY DEF HandlePointerOrTimer, LoseForeground, DesktopInterrupts, RelayoutFails,
         ChangeBehavior, ShutDown, Handler, hookVars
<1>3. /\ calls' \in {<<>>, <<Sync>>, <<Reset, Sync>>, <<Sync, Drop>>}
      /\ calls' = <<Reset, Sync>> => Interruptions
  <2>1. <<Reset, Sync>> \notin {<<>>, <<Sync>>, <<Sync, Drop>>}
    BY DEF Reset, Sync, Drop
  <2> QED
    BY <2>1 DEF HandlePointerOrTimer, LoseForeground, DesktopInterrupts, RelayoutFails,
           ChangeBehavior, ShutDown, Handler
<1>4. /\ state = "Visible" \/ state' = state \/ state' = "Idle"
      /\ reported = (state = "Visible") /\ ~Closes /\ state \in {"Idle", "Visible"}
  <2>1. state = "Visible" \/ state' = state \/ state' = "Idle"
    BY PointerMoves
       DEF HandlePointerOrTimer, LoseForeground, DesktopInterrupts, RelayoutFails,
           ChangeBehavior, ShutDown, Controller!CloseSession, Controller!Close,
           Controller!Interrupt, Controller!RelayoutFails, Controller!SetBehavior,
           Controller!session
  <2> QED
    BY <1>2, <2>1, FreeSettled DEF DInv, IInv, UiFree, Closes, StateOK
<1>5. GestureOwed'
  <2>1. \A shift : CancelAdmission(shift) \notin {Sync, Reset, Drop}
    BY DEF CancelAdmission, Sync, Reset, Drop
  <2>2. \A shift \in BOOLEAN : ~GivesBack(shift)'
    BY <1>3, <2>1 DEF GivesBack
  <2> QED BY <2>2 DEF GestureOwed
<1>6. GestureFirst'
  BY <1>2, <1>4 DEF DInv, GestureFirst, FirstTab, OpensLive
<1>7. ResetAllowed' /\ GuardType'
  BY <1>2, <1>3 DEF DInv, ResetAllowed, GuardType
<1> QED BY <1>1, <1>5, <1>6, <1>7 DEF DInv

\* What is left of the calls gives back only what they gave back before.
LEMMA CallsLeft ==
  ASSUME CallsShape, calls # <<>>, calls' = Tail(calls)
  PROVE  /\ calls' # <<Reset, Sync>>
         /\ \A shift \in BOOLEAN : GivesBack(shift)' => GivesBack(shift)
         /\ Head(calls).call = "reset" => calls = <<Reset, Sync>>
         /\ Head(calls).call = "cancel" =>
              Head(calls).shift \in BOOLEAN /\ GivesBack(Head(calls).shift)
<1>1. /\ \A shift : CancelAdmission(shift) \notin {Sync, Reset, Drop}
      /\ Sync # Reset /\ Sync # Drop /\ Reset # Drop
      /\ \A a, b : CancelAdmission(a) = CancelAdmission(b) => a = b
  BY DEF Drop, Sync, Reset, CancelAdmission
<1>2. CASE calls \in {<<Sync>>, <<Reset, Sync>>, <<Sync, Drop>>, <<Drop>>}
  <2>1. calls' \in {<<>>, <<Sync>>, <<Drop>>}
    BY <1>2, Shapes
  <2>2. calls' # <<Reset, Sync>> /\ \A shift : ~GivesBack(shift)'
    BY <1>1, <2>1 DEF GivesBack
  <2>3. Head(calls).call # "cancel" /\ (Head(calls).call = "reset" => calls = <<Reset, Sync>>)
    BY <1>2, Shapes, CallNames
  <2> QED BY <2>2, <2>3
<1>3. ASSUME NEW given \in BOOLEAN,
             calls \in {<<Sync, CancelAdmission(given)>>, <<CancelAdmission(given)>>}
      PROVE  /\ calls' # <<Reset, Sync>>
             /\ \A shift \in BOOLEAN : GivesBack(shift)' => GivesBack(shift)
             /\ Head(calls).call # "reset"
             /\ Head(calls).call = "cancel" =>
                  Head(calls).shift \in BOOLEAN /\ GivesBack(Head(calls).shift)
  <2>1. calls' \in {<<>>, <<CancelAdmission(given)>>}
    BY <1>3, Shapes
  <2>2. calls' # <<Reset, Sync>> /\ \A shift : GivesBack(shift)' => shift = given
    BY <1>1, <2>1 DEF GivesBack
  <2>3. GivesBack(given) /\ Head(calls) \in {Sync, CancelAdmission(given)}
    BY <1>3, Shapes DEF GivesBack
  <2> QED BY <2>2, <2>3, CallNames
<1> QED BY <1>2, <1>3 DEF CallsShape

\* set_session_visible tells the hook of a close, or what it knows already.
LEMMA SyncTells ==
  ASSUME DInv, SyncVisibility
  PROVE  \/ /\ reported /\ state = "Idle"
            /\ Hook!SetSessionVisible(FALSE) /\ Forget
         \/ /\ ~(reported /\ state = "Idle")
            /\ UNCHANGED <<queue, hookVars>>
<1>0. /\ state \in {"Idle", "Visible"} /\ reported \in BOOLEAN /\ GuardType
      /\ state = "Visible" => active
  BY DEF DInv, IInv, StateOK, VisibleIsGuarded
<1>1. CASE state = "Visible"
  <2>1. UNCHANGED queue
    BY <1>1 DEF SyncVisibility
  <2>2. CASE reported = TRUE
    BY <1>1, <2>1, <2>2 DEF SyncVisibility
  <2>3. CASE reported = FALSE
    <3>1. Hook!SetSessionVisible(TRUE)
      BY <1>1, <2>3 DEF SyncVisibility
    <3>2. active' = TRUE /\ gestureShift' = (gestureShift /\ TRUE)
          /\ Hook!UiStep /\ UNCHANGED <<consumed, ui>>
      BY <3>1 DEF Hook!SetSessionVisible
    <3>3. active' = active /\ gestureShift' = gestureShift
      BY <1>0, <1>1, <3>2 DEF GuardType
    <3>4. UNCHANGED hookVars
      BY <3>2, <3>3 DEF hookVars, Hook!UiStep, Hook!external, Hook!gate
    <3> QED BY <1>1, <2>1, <3>4
  <2> QED BY <1>0, <2>2, <2>3
<1>2. CASE state = "Idle"
  <2>1. CASE reported = TRUE
    <3>1. (state = "Visible") = FALSE
      BY <1>2
    <3> QED BY <1>2, <2>1, <3>1 DEF SyncVisibility
  <2>2. CASE reported = FALSE
    BY <1>2, <2>2 DEF SyncVisibility
  <2> QED BY <1>0, <2>1, <2>2
<1> QED BY <1>0, <1>1, <1>2

\* The calls on the hook.
LEMMA CallsDrive ==
  ASSUME DInv, SyncVisibility \/ ResetHook \/ GiveGestureBack \/ DropHook
  PROVE  DInv'
<1>1. IInv'
  BY SyncPreserves, LettingGoPreserves DEF DInv
<1>2. /\ calls # <<>> /\ calls' = Tail(calls) /\ state' = state /\ CallsShape
      /\ Head(calls).call \in {"sync", "reset", "cancel", "drop"}
  BY DEF SyncVisibility, ResetHook, GiveGestureBack, DropHook, Calls, controllerVars,
         DInv, IInv
<1>3. ResetAllowed'
  BY <1>2, CallsLeft DEF ResetAllowed
<1>4. CASE SyncVisibility /\ reported /\ state = "Idle"
  <2>1. active' = FALSE /\ gestureShift' \in BOOLEAN
    BY <1>4, SyncTells DEF Hook!SetSessionVisible
  <2>2. \A i \in DOMAIN queue' : ~queue'[i].live
    BY <1>4, SyncTells, ForgetKeeps DEF DInv, IInv
  <2>3. GestureOwed'
    BY <1>2, <1>4, CallsLeft DEF DInv, GestureOwed
  <2>4. GestureFirst' /\ GuardType'
    BY <2>1, <2>2 DEF GestureFirst, FirstTab, OpensLive, GuardType
  <2> QED BY <1>1, <1>3, <2>3, <2>4 DEF DInv
<1>5. CASE SyncVisibility /\ ~(reported /\ state = "Idle")
  <2>1. /\ UNCHANGED <<queue, hookVars>> /\ reported' = (state = "Visible")
        /\ Head(calls).call = "sync"
    BY <1>5, SyncTells DEF SyncVisibility, Calls
  <2>2. Closes => Closes'
    BY <1>2, <2>1, NextCall DEF DInv
  <2>3. GestureOwed'
    <3> SUFFICES ASSUME NEW shift \in BOOLEAN, GivesBack(shift)'
                 PROVE  active' /\ gestureShift' = shift /\ ~reported'
      BY DEF GestureOwed
    <3>1. GivesBack(shift)
      BY <1>2, CallsLeft
    <3>2. state = "Idle"
      BY <3>1, GivingBack DEF DInv, IInv, CallsEndSession
    <3> QED BY <2>1, <3>1, <3>2 DEF DInv, GestureOwed, hookVars
  <2>4. GestureFirst' /\ GuardType'
    BY <1>2, <1>5, <2>1, <2>2
       DEF DInv, GestureFirst, FirstTab, OpensLive, GuardType, hookVars
  <2> QED BY <1>1, <1>3, <2>3, <2>4 DEF DInv
<1>6. CASE ResetHook \/ GiveGestureBack \/ DropHook
  <2>1. active' = FALSE /\ gestureShift' = FALSE
    BY <1>6 DEF ResetHook, GiveGestureBack, DropHook, Hook!ResetInputState,
       Hook!CancelAdmission, Hook!Dispose
  <2>2. \A i \in DOMAIN queue' : ~queue'[i].live
    <3>1. Forget \/ queue' = <<>>
      BY <1>6 DEF ResetHook, GiveGestureBack, DropHook
    <3> QED BY <3>1, ForgetKeeps DEF DInv, IInv
  <2>3. calls' \in {<<>>, <<Sync>>}
    <3>1. Head(calls).call \in {"reset", "cancel", "drop"}
      BY <1>6 DEF ResetHook, GiveGestureBack, DropHook, Calls
    <3> QED BY <1>2, <3>1, NextCall DEF DInv
  <2>4. GestureOwed'
    <3>1. \A shift : CancelAdmission(shift) # Sync
      BY DEF CancelAdmission, Sync
    <3> QED BY <2>3, <3>1 DEF GestureOwed, GivesBack
  <2>5. GestureFirst' /\ GuardType'
    BY <2>1, <2>2 DEF GestureFirst, FirstTab, OpensLive, GuardType
  <2> QED BY <1>1, <1>3, <2>4, <2>5 DEF DInv
<1> QED BY <1>4, <1>5, <1>6

\* At the start there is nothing to give back.
LEMMA InitDrives == Init => DInv
<1> SUFFICES ASSUME Init PROVE DInv
  OBVIOUS
<1>1. /\ queue = <<>> /\ calls = <<>> /\ active = FALSE /\ gestureShift = FALSE
  BY DEF Init, Hook!Init
<1>2. IInv
  BY InitEstablishes
<1>3. calls # <<Reset, Sync>> /\ \A shift \in BOOLEAN : ~GivesBack(shift)
  BY <1>1, GivingBack, Shapes DEF Closes
<1>4. GestureFirst
  BY <1>1 DEF GestureFirst
<1> QED BY <1>1, <1>2, <1>3, <1>4 DEF DInv, ResetAllowed, GestureOwed, GuardType

\* Every step preserves the invariant.
LEMMA DrivePreserves == DInv /\ [Next]_vars => DInv'
<1> SUFFICES ASSUME DInv, [Next]_vars PROVE DInv'
  OBVIOUS
<1>1. CASE FinishSending \/ SendGestureBack
  BY <1>1, SendingKeeps, NothingMoves
     DEF FinishSending, SendGestureBack, controllerVars, appVars
<1>2. CASE UiProgress
  BY <1>1, <1>2, CallsDrive DEF UiProgress
<1>3. CASE UNCHANGED vars
  BY <1>3, NothingMoves DEF vars, hookVars, controllerVars, appVars
<1> QED
  BY <1>1, <1>2, <1>3, KeysDrive, HandleKeyDrives, SkipDrives, OthersDrive DEF Next

\* Every step of FrigoTab is one of the hook, or leaves it alone: App calls
\* the hook only as KeyHook has its environment call it.
LEMMA StepDrives == DInv /\ [Next]_vars => [Hook!Next]_(Hook!vars)
<1> SUFFICES ASSUME DInv, [Next]_vars PROVE Hook!Next \/ UNCHANGED Hook!vars
  OBVIOUS
<1> USE DEF Hook!Next
<1>1. ASSUME NEW k \in Keys, NEW d \in {"down", "up"},
             TakeKey(k, d) \/ AdmitSession(k, d) \/ KeepKey(k, d)
      PROVE  Hook!HookThread
  BY <1>1 DEF TakeKey, AdmitSession, KeepKey, Hook!HookThread
<1>2. CASE FinishSending
  BY <1>2 DEF FinishSending, Hook!HookThread
<1>3. CASE SendGestureBack
  BY <1>3 DEF SendGestureBack, Hook!UiThread
<1>4. CASE \/ HandleKey \/ SkipForgotten \/ HandlePointerOrTimer \/ LoseForeground
           \/ DesktopInterrupts \/ RelayoutFails \/ ChangeBehavior \/ ShutDown
           \/ UNCHANGED vars
  <2>1. UNCHANGED hookVars
    BY <1>4 DEF HandleKey, SkipForgotten, HandlePointerOrTimer, LoseForeground,
       DesktopInterrupts, RelayoutFails, ChangeBehavior, ShutDown, Handler, vars
  <2> QED BY <2>1 DEF hookVars, Hook!vars, Hook!external, Hook!ledger, Hook!gate
<1>5. CASE SyncVisibility
  <2>1. Hook!SetSessionVisible(FALSE) \/ UNCHANGED hookVars
    BY <1>5, SyncTells
  <2> QED
    BY <2>1 DEF Hook!UiThread, hookVars, Hook!vars, Hook!external, Hook!ledger, Hook!gate
<1>6. CASE ResetHook
  <2>1. Interruptions
    BY <1>6, CallsLeft DEF ResetHook, Calls, DInv, IInv, ResetAllowed
  <2> QED BY <1>6, <2>1 DEF ResetHook, Hook!UiThread
<1>7. CASE GiveGestureBack
  <2>1. active /\ gestureShift = Head(calls).shift
    BY <1>7, CallsLeft DEF GiveGestureBack, Calls, DInv, IInv, GestureOwed
  <2> QED BY <1>7, <2>1 DEF GiveGestureBack, Hook!UiThread
<1>8. CASE DropHook
  BY <1>8 DEF DropHook, Hook!UiThread
<1> QED
  BY <1>1, <1>2, <1>3, <1>4, <1>5, <1>6, <1>7, <1>8 DEF Next, UiProgress

\* HookDriven: for any keyboard and capacity, App calls the hook only in the
\* order KeyHook assumes of its environment (app.rs, dispatch_ui_message): an
\* admission is cancelled while it stands and with its own Shift, the hook is
\* told of a session only while it guards it, reset only by an interruption.
THEOREM HookDriven == Spec => DrivesHook
<1>1. Init => Hook!Init
  BY DEF Init
<1> QED
  BY <1>1, InitDrives, DrivePreserves, StepDrives, PTL DEF Spec, DrivesHook, Hook!Spec

-----------------------------------------------------------------------------
(* What is proved of the hook alone holds of the hook in the program.      *)

\* KeyHook once more, with its theorems.  The two instances share every constant
\* and variable, so they say the same; the lemmas below only unfold both.
HookAlone == INSTANCE KeyHookProofs

\* The hook of the program starts as the hook alone does.
LEMMA SameStart == Hook!Init => HookAlone!Init
BY DEF Hook!Init, Hook!Idle, Hook!None,
       HookAlone!Init, HookAlone!Idle, HookAlone!None

\* A step of one instance is a step of the other.
LEMMA SameStep == [Hook!Next]_(Hook!vars) => [HookAlone!Next]_(HookAlone!vars)
BY DEF
    Hook!Alts, Hook!Shifts, Hook!Ctrls, Hook!Modifiers, Hook!AltSentinel,
    Hook!None, Hook!Vk, Hook!KeyOf, Hook!Down, Hook!Up, Hook!When,
    Hook!external, Hook!ledger, Hook!gate, Hook!vars, Hook!Idle, Hook!Press,
    Hook!Release, Hook!Strike, Hook!After, Hook!Unpaired, Hook!Deliver,
    Hook!PassOn, Hook!Swallow, Hook!Inject, Hook!SentCounts, Hook!AltDown,
    Hook!ShiftDown, Hook!CtrlDown, Hook!NativeAltDown, Hook!AltSnapshot,
    Hook!ShiftSnapshot, Hook!ModsAfter, Hook!Admits, Hook!Takes,
    Hook!OwedAfter, Hook!RecoveryPlan, Hook!Cleanup, Hook!SendRecovery,
    Hook!Transition, Hook!AltBlocked, Hook!Owed, Hook!Ordinary, Hook!Tracked,
    Hook!SwallowBlocked, Hook!SwallowOwed, Hook!FailClosed,
    Hook!StayForwarded, Hook!PassUnownedTab, Hook!ClaimAlt,
    Hook!ForwardCtrlAlt, Hook!DeferAlt, Hook!DeferShift, Hook!PassHeldShift,
    Hook!RepeatDeferred, Hook!Deferred, Hook!ReplayChord, Hook!ReplayRelease,
    Hook!Admission, Hook!PromoteTab, Hook!HeldShifts, Hook!BalanceShift,
    Hook!PromoteTabOverShift, Hook!DiscardGesture, Hook!ReopenTab,
    Hook!LeftToPolicy, Hook!TakeKey, Hook!PassKey, Hook!QuarantineKey,
    Hook!PassUnknown, Hook!PassDisposed, Hook!FinishReplay,
    Hook!FinishRecovery, Hook!UiIdle, Hook!UiStep, Hook!SetSessionVisible,
    Hook!ResetInputState, Hook!CancelAdmission, Hook!SendOwnerRecovery,
    Hook!Dispose, Hook!DispatchedKey, Hook!AdmittingKey, Hook!QuietKey,
    Hook!HookThread, Hook!UiThread, Hook!Next,
    HookAlone!Alts, HookAlone!Shifts, HookAlone!Ctrls, HookAlone!Modifiers,
    HookAlone!AltSentinel, HookAlone!None, HookAlone!Vk, HookAlone!KeyOf,
    HookAlone!Down, HookAlone!Up, HookAlone!When, HookAlone!external,
    HookAlone!ledger, HookAlone!gate, HookAlone!vars, HookAlone!Idle,
    HookAlone!Press, HookAlone!Release, HookAlone!Strike, HookAlone!After,
    HookAlone!Unpaired, HookAlone!Deliver, HookAlone!PassOn,
    HookAlone!Swallow, HookAlone!Inject, HookAlone!SentCounts,
    HookAlone!AltDown, HookAlone!ShiftDown, HookAlone!CtrlDown,
    HookAlone!NativeAltDown, HookAlone!AltSnapshot, HookAlone!ShiftSnapshot,
    HookAlone!ModsAfter, HookAlone!Admits, HookAlone!Takes,
    HookAlone!OwedAfter, HookAlone!RecoveryPlan, HookAlone!Cleanup,
    HookAlone!SendRecovery, HookAlone!Transition, HookAlone!AltBlocked,
    HookAlone!Owed, HookAlone!Ordinary, HookAlone!Tracked,
    HookAlone!SwallowBlocked, HookAlone!SwallowOwed, HookAlone!FailClosed,
    HookAlone!StayForwarded, HookAlone!PassUnownedTab, HookAlone!ClaimAlt,
    HookAlone!ForwardCtrlAlt, HookAlone!DeferAlt, HookAlone!DeferShift,
    HookAlone!PassHeldShift, HookAlone!RepeatDeferred, HookAlone!Deferred,
    HookAlone!ReplayChord, HookAlone!ReplayRelease, HookAlone!Admission,
    HookAlone!PromoteTab, HookAlone!HeldShifts, HookAlone!BalanceShift,
    HookAlone!PromoteTabOverShift, HookAlone!DiscardGesture,
    HookAlone!ReopenTab, HookAlone!LeftToPolicy, HookAlone!TakeKey,
    HookAlone!PassKey, HookAlone!QuarantineKey, HookAlone!PassUnknown,
    HookAlone!PassDisposed, HookAlone!FinishReplay, HookAlone!FinishRecovery,
    HookAlone!UiIdle, HookAlone!UiStep, HookAlone!SetSessionVisible,
    HookAlone!ResetInputState, HookAlone!CancelAdmission,
    HookAlone!SendOwnerRecovery, HookAlone!Dispose, HookAlone!DispatchedKey,
    HookAlone!AdmittingKey, HookAlone!QuietKey, HookAlone!HookThread,
    HookAlone!UiThread, HookAlone!Next

\* The hook of the program behaves as the hook alone does.
LEMMA SameHook == Spec => HookAlone!Spec
<1>1. Spec => Hook!Spec
  BY HookDriven, PTL DEF DrivesHook
<1>2. Hook!Spec => HookAlone!Spec
  BY SameStart, SameStep, PTL DEF Hook!Spec, HookAlone!Spec
<1> QED
  BY <1>1, <1>2, PTL

\* The keyboard is one KeyHook speaks of.
LEMMA SameKeys == HookAlone!KeysAssumption
BY HookAssumption DEF
  Hook!KeysAssumption, Hook!Vk, Hook!Modifiers, Hook!Alts, Hook!Shifts, Hook!Ctrls,
  HookAlone!KeysAssumption, HookAlone!Vk, HookAlone!Modifiers, HookAlone!Alts,
  HookAlone!Shifts, HookAlone!Ctrls

\* GateInProgram: whatever the user types and whichever calls App makes of its
\* own accord, the gate of key_hook.rs gives an Alt one owner at a time, and
\* while a session stays active no key goes down in the target.
THEOREM GateInProgram == Spec => []Hook!GateExclusive /\ Hook!Quarantine
<1>1. HookAlone!Spec => []HookAlone!GateExclusive
  BY SameKeys, HookAlone!GateExclusivity
<1>2. HookAlone!Spec => HookAlone!Quarantine
  BY SameKeys, HookAlone!QuarantineHolds
<1>3. HookAlone!GateExclusive => Hook!GateExclusive
  BY DEF HookAlone!GateExclusive, HookAlone!Tracked, HookAlone!AltBlocked,
         HookAlone!None, HookAlone!Alts,
         Hook!GateExclusive, Hook!Tracked, Hook!AltBlocked, Hook!None, Hook!Alts
<1>4. [active /\ active' /\ ui' = ui => target' \subseteq target]_(HookAlone!vars)
        => [active /\ active' /\ ui' = ui => target' \subseteq target]_(Hook!vars)
  BY DEF HookAlone!vars, HookAlone!external, HookAlone!ledger, HookAlone!gate,
         Hook!vars, Hook!external, Hook!ledger, Hook!gate
<1>5. HookAlone!Quarantine => Hook!Quarantine
  BY <1>4, PTL DEF HookAlone!Quarantine, Hook!Quarantine
<1> QED
  BY <1>1, <1>2, <1>3, <1>5, SameHook, PTL

\* BalanceInProgram: with one Alt and one Shift, and no Alt repeating at the
\* start, the keys balance in the composed program as they do in the hook
\* alone: no key stays down in the target, no release reaches it that it did
\* not see the press of, the gate opens again, and a session owns the Alt.
THEOREM BalanceInProgram ==
  ASSUME HookAlone!OneAlt, HookAlone!OneShift, RepeatingAtStart \cap Hook!Alts = {}
  PROVE  Spec => [](/\ Hook!NoStuckKey /\ Hook!NoStrayRelease
                    /\ Hook!GateClears /\ Hook!SessionOwnsAlt)
<1>1. RepeatingAtStart \cap HookAlone!Alts = {}
  BY DEF Hook!Alts, HookAlone!Alts
<1>2. HookAlone!Spec => []HookAlone!NoStuckKey
  BY <1>1, SameKeys, HookAlone!NoKeyIsStuck
<1>3. HookAlone!Spec => []HookAlone!NoStrayRelease
  BY SameKeys, HookAlone!NoStrayReleases
<1>4. HookAlone!Spec => []HookAlone!GateClears
  BY SameKeys, HookAlone!GateOpens
<1>5. HookAlone!Spec => []HookAlone!SessionOwnsAlt
  BY <1>1, SameKeys, HookAlone!SessionOwnsTheAlt
<1>6. HookAlone!NoStuckKey => Hook!NoStuckKey
  BY DEF HookAlone!NoStuckKey, HookAlone!Idle, HookAlone!None,
         Hook!NoStuckKey, Hook!Idle, Hook!None
<1>7. HookAlone!NoStrayRelease => Hook!NoStrayRelease
  BY DEF HookAlone!NoStrayRelease, Hook!NoStrayRelease
<1>8. HookAlone!GateClears => Hook!GateClears
  BY DEF HookAlone!GateClears, HookAlone!Idle, HookAlone!None,
         Hook!GateClears, Hook!Idle, Hook!None
<1>9. HookAlone!SessionOwnsAlt => Hook!SessionOwnsAlt
  BY DEF HookAlone!SessionOwnsAlt, HookAlone!Alts, Hook!SessionOwnsAlt, Hook!Alts
<1> QED
  BY <1>2, <1>3, <1>4, <1>5, <1>6, <1>7, <1>8, <1>9, SameHook, PTL

===============================================================================
