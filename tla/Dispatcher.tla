------------------------------ MODULE Dispatcher ------------------------------
(***************************************************************************)
(* The way of a key input from the hook thread to the UI thread, at the    *)
(* grain of its atomic steps: DeferredKeyboardDispatcher (a pending count  *)
(* and a generation), CallbackQueue (one slot more than the capacity), the *)
(* posted WM_KEY_HOOK_INPUT messages that carry a slot number, the slots   *)
(* main.rs keeps when the message arrives while the application object is  *)
(* borrowed (pending_hook_inputs), and the teardown of the hook.           *)
(*                                                                         *)
(* The hook thread dispatches under the input lock, and so does every step *)
(* that invalidates: neither happens in the middle of the other.  Slots,   *)
(* messages and the pending count are outside that lock.                   *)
(***************************************************************************)
EXTENDS Naturals, Sequences, FiniteSets

CONSTANTS
  Capacity,         \* DISPATCH_CAPACITY
  Kinds,            \* kinds of input told apart
  Critical,         \* those of them that end a session
  Reentrant,        \* UI stages whose native calls may dispatch a message
  PostMayFail,      \* whether PostMessageW may fail
  MaxInputs,        \* bound: inputs the hook thread dispatches
  MaxInvalidations  \* bound: invalidations by message handlers

ASSUME DispatcherAssumption ==
  /\ Capacity \in Nat \ {0}
  /\ Critical \subseteq Kinds
  /\ "none" \notin Kinds
  /\ Reentrant \subseteq {"handler", "other"}
  /\ PostMayFail \in BOOLEAN
  /\ MaxInputs \in Nat /\ MaxInvalidations \in Nat

Slots == 1 .. Capacity + 1
NoInput == [id |-> 0, kind |-> "none"]
Input == [id : Nat \ {0}, kind : Kinds]
Callback == [input : Input, generation : Nat]

\* An empty slot, and a UI thread that holds no callback.
Empty == [input |-> NoInput, generation |-> 0]

VARIABLES
  issued,      \* inputs the hook thread has tried to dispatch
  pending,     \* DeferredKeyboardDispatcher::pending
  generation,  \* DeferredKeyboardDispatcher::generation
  unreleased,  \* inputs whose PendingRelease has not been released
  slots,       \* CallbackQueue::slots
  messages,    \* posted WM_KEY_HOOK_INPUT, by slot number
  hook,        \* what the hook thread is doing
  inbox,       \* OwnerContext::pending_hook_inputs
  ui,          \* what the UI thread is doing
  life,        \* how far the teardown of the hook is
  posted       \* number of the input posted last

hookVars == <<issued, hook, posted>>
uiVars   == <<inbox, ui>>
vars     == <<hookVars, pending, generation, unreleased, slots, messages,
              uiVars, life>>

HookIdle == [at |-> "idle", callback |-> Empty, slot |-> 0]
Ui(stage) == [at |-> stage, callback |-> Empty]

Init ==
  /\ issued = 0 /\ posted = 0
  /\ pending = 0 /\ generation = 0 /\ unreleased = {}
  /\ slots = [s \in Slots |-> Empty]
  /\ messages = <<>> /\ inbox = <<>>
  /\ hook = HookIdle
  /\ ui = Ui("idle")
  /\ life = "open"

-----------------------------------------------------------------------------
(* PendingRelease: releasing twice counts once, and dropping the last      *)
(* holder releases.                                                        *)

Release(ids) ==
  /\ unreleased' = unreleased \ ids
  /\ pending' = pending - Cardinality(ids \cap unreleased)

Id(callback) == callback.input.id

-----------------------------------------------------------------------------
(* The hook thread: try_dispatch_with_limit and post_callback.             *)

\* Mutant: the reserve is open to every input.
LimitOfAll(kind) == Capacity + 1

Limit(kind) == IF kind \in Critical THEN Capacity + 1 ELSE Capacity

\* A disposed hook dispatches nothing.
MayDispatch ==
  /\ hook = HookIdle
  /\ life \in {"open", "drained"}
  /\ issued < MaxInputs

\* Mutant: a refusal undoes an increment that was never made.
RefuseUncounted(kind) ==
  /\ MayDispatch
  /\ pending + 1 > Limit(kind)
  /\ issued' = issued + 1
  /\ hook' = [at |-> "refusing", slot |-> 0,
              callback |-> [input |-> [id |-> issued', kind |-> kind],
                            generation |-> generation]]
  /\ UNCHANGED <<posted, pending, generation, unreleased, slots, messages,
                 uiVars, life>>

Refuse(kind) ==
  /\ MayDispatch
  /\ pending + 1 > Limit(kind)
  /\ issued' = issued + 1
  /\ pending' = pending + 1
  /\ hook' = [at |-> "refusing", slot |-> 0,
              callback |-> [input |-> [id |-> issued', kind |-> kind],
                            generation |-> generation]]
  /\ UNCHANGED <<posted, generation, unreleased, slots, messages,
                 uiVars, life>>

GiveBack ==
  /\ hook.at = "refusing"
  /\ pending' = pending - 1
  /\ hook' = HookIdle
  /\ UNCHANGED <<issued, posted, generation, unreleased, slots, messages,
                 uiVars, life>>

Reserve(kind) ==
  /\ MayDispatch
  /\ pending + 1 <= Limit(kind)
  /\ issued' = issued + 1
  /\ pending' = pending + 1
  /\ unreleased' = unreleased \cup {issued'}
  /\ hook' = [at |-> "reserved", slot |-> 0,
              callback |-> [input |-> [id |-> issued', kind |-> kind],
                            generation |-> generation]]
  /\ UNCHANGED <<posted, generation, slots, messages, uiVars, life>>

Free == {s \in Slots : slots[s] = Empty}

\* The first free slot is filled; without one the dispatch fails and gives
\* its reservation back.
Insert ==
  /\ hook.at = "reserved"
  /\ IF Free = {}
       THEN /\ Release({Id(hook.callback)})
            /\ hook' = HookIdle
            /\ UNCHANGED slots
       ELSE LET first == CHOOSE s \in Free : \A t \in Free : s <= t
            IN /\ slots' = [slots EXCEPT ![first] = hook.callback]
               /\ hook' = [at |-> "inserted", slot |-> first,
                           callback |-> hook.callback]
               /\ UNCHANGED <<unreleased, pending>>
  /\ UNCHANGED <<issued, posted, generation, messages, uiVars, life>>

\* Mutant: the slot of a message that could not be posted stays filled.
PostFailsKeepingSlot ==
  /\ hook.at = "inserted" /\ PostMayFail
  /\ Release({Id(hook.callback)})
  /\ hook' = HookIdle
  /\ UNCHANGED <<issued, posted, generation, slots, messages,
                 uiVars, life>>

\* PostMessageW succeeds.  If a drain has dropped the callback meanwhile, the
\* dispatcher's own reference was the last one and releases.
Post ==
  /\ hook.at = "inserted"
  /\ messages' = Append(messages, hook.slot)
  /\ posted' = Id(hook.callback)
  /\ IF slots[hook.slot] # hook.callback THEN Release({Id(hook.callback)})
     ELSE UNCHANGED <<unreleased, pending>>
  /\ hook' = HookIdle
  /\ UNCHANGED <<issued, generation, slots, uiVars, life>>

\* PostMessageW fails: the slot is taken back, the reservation released.
PostFails ==
  /\ hook.at = "inserted" /\ PostMayFail
  /\ slots' = [slots EXCEPT ![hook.slot] = Empty]
  /\ Release({Id(hook.callback)})
  /\ hook' = HookIdle
  /\ UNCHANGED <<issued, posted, generation, messages, uiVars, life>>

-----------------------------------------------------------------------------
(* The UI thread: the message loop, dispatch_hook_inputs and               *)
(* dispatch_ui_message.                                                    *)

Serving == life \in {"open", "closed"}

Receive ==
  /\ ui.at = "idle" /\ Serving /\ messages # <<>>
  /\ inbox' = Append(inbox, Head(messages))
  /\ messages' = Tail(messages)
  /\ ui' = Ui("loop")
  /\ UNCHANGED <<hookVars, pending, generation, unreleased, slots, life>>

\* A native call of a handler dispatches the message.  The application is
\* borrowed: the slot stays in the inbox.
Reenter ==
  /\ ui.at \in Reentrant /\ Serving /\ messages # <<>>
  /\ inbox' = Append(inbox, Head(messages))
  /\ messages' = Tail(messages)
  /\ UNCHANGED <<hookVars, pending, generation, unreleased, slots, ui, life>>

\* Mutant: the outer dispatch does not drain what came in meanwhile.
LeaveLoopEarly ==
  /\ ui.at = "loop"
  /\ ui' = Ui("idle")
  /\ UNCHANGED <<hookVars, pending, generation, unreleased, slots, messages,
                 inbox, life>>

LeaveLoop ==
  /\ ui.at = "loop" /\ inbox = <<>>
  /\ ui' = Ui("idle")
  /\ UNCHANGED <<hookVars, pending, generation, unreleased, slots, messages,
                 inbox, life>>

\* CallbackQueue::take; a message whose slot is empty, or that outlived the
\* hook, is ignored.
TakeSlot ==
  /\ ui.at = "loop" /\ inbox # <<>>
  /\ inbox' = Tail(inbox)
  /\ LET slot == Head(inbox)
     IN IF life = "closed" \/ slots[slot] = Empty
          THEN UNCHANGED <<slots, ui>>
          ELSE /\ ui' = [at |-> "taken", callback |-> slots[slot]]
               /\ slots' = [slots EXCEPT ![slot] = Empty]
  /\ UNCHANGED <<hookVars, pending, generation, unreleased, messages, life>>

\* Mutant: a callback runs whatever its generation.
RunAnyCallback ==
  /\ ui.at = "taken"
  /\ Release({Id(ui.callback)})
  /\ ui' = [at |-> "handler", callback |-> ui.callback]
  /\ UNCHANGED <<hookVars, generation, slots, messages, inbox, life>>

\* The callback releases its reservation, and is delivered and handled if no
\* invalidation came after it.
RunCallback ==
  /\ ui.at = "taken"
  /\ Release({Id(ui.callback)})
  /\ ui' = IF ui.callback.generation = generation
             THEN [at |-> "handler", callback |-> ui.callback]
             ELSE Ui("loop")
  /\ UNCHANGED <<hookVars, generation, slots, messages, inbox, life>>

FinishHandler ==
  /\ ui.at = "handler"
  /\ ui' = Ui("loop")
  /\ UNCHANGED <<hookVars, pending, generation, unreleased, slots, messages,
                 inbox, life>>

\* Another message's handler borrows the application.
OtherHandler ==
  /\ ui.at = "idle" /\ life = "open"
  /\ ui' = Ui("other")
  /\ UNCHANGED <<hookVars, pending, generation, unreleased, slots, messages,
                 inbox, life>>

FinishOther ==
  /\ ui.at = "other"
  /\ ui' = Ui("idle")
  /\ UNCHANGED <<hookVars, pending, generation, unreleased, slots, messages,
                 inbox, life>>

\* A handler closes, interrupts or cancels the session, under the input lock.
InvalidatePending ==
  /\ ui.at \in {"handler", "other"} /\ hook = HookIdle
  /\ generation < MaxInvalidations
  /\ generation' = generation + 1
  /\ UNCHANGED <<hookVars, pending, unreleased, slots, messages, uiVars, life>>

-----------------------------------------------------------------------------
(* close_for_shutdown: the hook is taken out of the application, its slots *)
(* are drained, then it is dropped (disposed, invalidated under the lock,  *)
(* drained again).                                                         *)

\* The callback's own reference goes with the slot; the hook thread may still
\* hold the dispatcher's.
Drain ==
  /\ slots' = [s \in Slots |-> Empty]
  /\ Release({Id(slots[s]) : s \in {t \in Slots : slots[t] # hook.callback}})

CloseForShutdown ==
  /\ ui.at = "idle" /\ life = "open"
  /\ life' = "drained"
  /\ Drain
  /\ UNCHANGED <<hookVars, generation, messages, uiVars>>

Dispose ==
  /\ life = "drained"
  /\ life' = "disposed"
  /\ UNCHANGED <<hookVars, pending, generation, unreleased, slots, messages,
                 uiVars>>

InvalidateForDrop ==
  /\ life = "disposed" /\ hook = HookIdle
  /\ generation' = generation + 1
  /\ life' = "invalidated"
  /\ UNCHANGED <<hookVars, pending, unreleased, slots, messages, uiVars>>

\* Mutant: the hook is dropped without the second drain.
DropUndrained ==
  /\ life = "invalidated"
  /\ life' = "closed"
  /\ UNCHANGED <<hookVars, pending, generation, unreleased, slots, messages,
                 uiVars>>

DrainForDrop ==
  /\ life = "invalidated"
  /\ life' = "closed"
  /\ Drain
  /\ UNCHANGED <<hookVars, generation, messages, uiVars>>

-----------------------------------------------------------------------------
HookProgress == GiveBack \/ Insert \/ Post \/ PostFails

UiProgress ==
  \/ LeaveLoop \/ TakeSlot \/ RunCallback
  \/ FinishHandler \/ FinishOther
  \/ Dispose \/ InvalidateForDrop \/ DrainForDrop

Next ==
  \/ \E kind \in Kinds : Refuse(kind) \/ Reserve(kind)
  \/ HookProgress
  \/ Receive \/ Reenter \/ OtherHandler \/ InvalidatePending
  \/ CloseForShutdown
  \/ UiProgress

Spec == Init /\ [][Next]_vars

\* A callback of the hook is not left half done, nor is a message handler;
\* GetMessage returns a posted message ahead of new user input and timers, so
\* other handlers cannot overtake it for ever.
FairSpec ==
  /\ Spec
  /\ WF_vars(HookProgress)
  /\ WF_vars(UiProgress)
  /\ SF_vars(Receive)

-----------------------------------------------------------------------------
(* Refinement: the queue the rest of FrigoTab relies on.                   *)

Live(callback) == callback # Empty /\ callback.generation = generation

\* The callbacks on their way to a handler: the one in the UI thread's hands,
\* and those of the slots in the inbox and in the message queue.
Route == inbox \o messages
Inbound == (IF ui.at = "taken" THEN {ui.callback} ELSE {})
           \cup {slots[Route[i]] : i \in DOMAIN Route}

OnTheWay == {callback.input : callback \in {c \in Inbound : Live(c)}}

\* A set of inputs in the order of their numbers.
ByNumber(inputs) ==
  LET place(x) == Cardinality({y \in inputs : y.id <= x.id})
  IN [n \in 1 .. Cardinality(inputs) |-> CHOOSE x \in inputs : place(x) = n]

Waiting == IF life = "open" THEN ByNumber(OnTheWay) ELSE <<>>

Current == IF ui.at = "handler" THEN ui.callback.input ELSE NoInput

Queue == INSTANCE KeyQueue WITH
           Ids <- 1 .. MaxInputs, waiting <- Waiting, current <- Current,
           last <- posted, open <- life = "open"

-----------------------------------------------------------------------------
(* Properties.                                                             *)

CountsType ==
  /\ issued \in Nat /\ posted \in Nat /\ pending \in Nat /\ generation \in Nat
  /\ unreleased \subseteq 1 .. issued

SlotsType ==
  /\ slots \in [Slots -> Callback \cup {Empty}]
  /\ messages \in Seq(Slots) /\ inbox \in Seq(Slots)

ThreadsType ==
  /\ hook \in [at : {"idle", "refusing", "reserved", "inserted"},
               callback : Callback \cup {Empty}, slot : Slots \cup {0}]
  /\ ui \in [at : {"idle", "loop", "taken", "handler", "other"},
             callback : Callback \cup {Empty}]
  /\ life \in {"open", "drained", "disposed", "invalidated", "closed"}

\* Counters are natural numbers, slots hold callbacks, messages name slots.
TypeOK == CountsType /\ SlotsType /\ ThreadsType

\* The dispatcher implements the bounded queue: in order, at most once,
\* within the bound, and nothing from before an invalidation.
ImplementsQueue == Queue!Spec

\* The pending count is the number of reservations not given back, plus the
\* one a refusal undoes (PendingRelease, "Keep the accounting balanced").
Accounting ==
  pending = Cardinality(unreleased) + IF hook.at = "refusing" THEN 1 ELSE 0

\* Every filled slot holds a reservation that is not given back, no two slots
\* the same one, and the callback in either thread's hands is in no slot but
\* the one it was put in.
SlotsOwnReservations ==
  /\ \A s \in Slots : slots[s] # Empty => Id(slots[s]) \in unreleased
  /\ \A s, t \in Slots : slots[s] # Empty /\ slots[t] # Empty /\ s # t =>
       Id(slots[s]) # Id(slots[t])
  /\ hook.at = "reserved" =>
       /\ hook.callback # Empty /\ Id(hook.callback) \in unreleased
       /\ \A s \in Slots : Id(slots[s]) # Id(hook.callback)
  /\ hook.at = "inserted" =>
       /\ hook.callback # Empty /\ hook.slot # 0
       /\ \A s \in Slots : \/ s = hook.slot
                            \/ Id(slots[s]) # Id(hook.callback)
       /\ slots[hook.slot] \in {hook.callback, Empty}
  /\ ui.at = "taken" =>
       /\ ui.callback # Empty
       /\ \A s \in Slots : Id(slots[s]) # Id(ui.callback)
       /\ hook.at = "reserved" => Id(hook.callback) # Id(ui.callback)

\* An admitted dispatch finds a free slot: CallbackQueue needs no more than
\* one slot beyond the capacity though slots and count change separately.
SlotForReservation == hook.at = "reserved" => Free # {}

\* The callbacks in a slot or in either thread's hands.
Held == {slots[s] : s \in Slots} \cup {ui.callback, hook.callback}

\* Inputs on their way to the UI thread whose reservation still counts.
InFlight ==
  {callback.input : callback \in {c \in Held : Id(c) \in unreleased}}

\* The slot beyond the capacity is in use only on behalf of an input that
\* ends a session (try_dispatch_critical).
ReserveKept ==
  Cardinality(unreleased) > Capacity =>
    \E input \in InFlight : input.kind \in Critical

\* After teardown nothing is held any more: every slot is empty and every
\* reservation given back, though callbacks were still in flight.
ShutdownReleasesAll ==
  life = "closed" /\ ui.at = "idle" =>
    pending = 0 /\ \A s \in Slots : slots[s] = Empty

\* "... a rapid key-up cannot strand a slot" (dispatch_hook_inputs): whatever
\* waits is handed over, or forgotten with its session.
NothingStranded ==
  \A id \in 1 .. MaxInputs :
    LET waits == \E i \in DOMAIN Waiting : Waiting[i].id = id
    IN waits ~> ~waits

=============================================================================
