--------------------------- MODULE DispatcherProofs ---------------------------
(***************************************************************************)
(* The accounting of the dispatcher for any capacity: the pending count is *)
(* the number of reservations, every reservation finds a slot, the reserve *)
(* beyond the capacity is kept for inputs that end a session, and the      *)
(* teardown releases everything.  And the refinement: slots, messages and  *)
(* generation together are the bounded queue of KeyQueue.                  *)
(***************************************************************************)
EXTENDS Dispatcher, FiniteSetTheorems, FunctionTheorems, SequenceTheorems,
        WellFoundedInduction, TLAPS

\* Only a callback has an input number above zero.
LEMMA IdType ==
  /\ Id(Empty) = 0
  /\ \A c \in Callback : Id(c) \in Nat \ {0} /\ c # Empty
  /\ HookIdle.at = "idle" /\ HookIdle.callback = Empty /\ HookIdle.slot = 0
BY DEF Id, Empty, NoInput, Callback, Input, HookIdle

\* Reservations are numbered by the inputs issued, hence finitely many.
LEMMA FinitelyMany == TypeOK => IsFiniteSet(unreleased)
<1> SUFFICES ASSUME TypeOK PROVE IsFiniteSet(unreleased)
  OBVIOUS
<1>1. unreleased \in SUBSET (1 .. issued) /\ issued \in Nat
  BY DEF TypeOK, CountsType
<1>2. IsFiniteSet(1 .. issued)
  BY <1>1, FS_Interval
<1> QED
  BY <1>1, <1>2, FS_Subset

\* Releasing keeps the count equal to the number of reservations, whether or
\* not what is released had been released before.
LEMMA ReleaseCounts ==
  ASSUME IsFiniteSet(unreleased), NEW ids, NEW extra \in Nat,
         pending = Cardinality(unreleased) + extra, Release(ids)
  PROVE  /\ unreleased' \subseteq unreleased
         /\ Cardinality(unreleased) \in Nat /\ Cardinality(unreleased') \in Nat
         /\ pending' = Cardinality(unreleased') + extra
         /\ Cardinality(unreleased') <= Cardinality(unreleased)
         /\ unreleased' # unreleased =>
              Cardinality(unreleased') < Cardinality(unreleased)
<1>1. unreleased' = unreleased \ ids
      /\ pending' = pending - Cardinality(ids \cap unreleased)
  BY DEF Release
<1>2. IsFiniteSet(unreleased')
      /\ Cardinality(unreleased') =
           Cardinality(unreleased) - Cardinality(unreleased \cap ids)
  BY <1>1, FS_Difference
<1>3. IsFiniteSet(unreleased \cap ids) /\ ids \cap unreleased = unreleased \cap ids
  BY FS_Intersection
<1>4. /\ Cardinality(unreleased) \in Nat /\ Cardinality(unreleased') \in Nat
      /\ Cardinality(unreleased \cap ids) \in Nat
  BY <1>2, <1>3, FS_CardinalityType
<1>5. unreleased' # unreleased => Cardinality(unreleased') # Cardinality(unreleased)
  BY <1>1, <1>2, FS_Subset
<1> QED
  BY <1>1, <1>2, <1>3, <1>4, <1>5

\* A release leaves numbers of inputs that were issued.
LEMMA ReleaseKeepsCounts ==
  ASSUME CountsType, UNCHANGED <<issued, posted>>, generation' \in Nat,
         unreleased' \subseteq unreleased,
         NEW n \in Nat, NEW extra \in Nat, pending' = n + extra
  PROVE  CountsType'
<1>1. pending' \in Nat
  OBVIOUS
<1>2. unreleased' \subseteq 1 .. issued'
  BY DEF CountsType
<1> QED
  BY <1>1, <1>2 DEF CountsType

-----------------------------------------------------------------------------
\* The inductive invariant.  No more than the whole capacity with its reserve
\* is ever reserved.
Bounded == Cardinality(unreleased) <= Capacity + 1

\* What the UI thread has taken was issued before.
Known == Id(ui.callback) <= issued

IInv == TypeOK /\ Accounting /\ Bounded /\ Known /\ SlotsOwnReservations

\* The empty dispatcher satisfies it.
LEMMA InitIInv == Init => IInv
<1> SUFFICES ASSUME Init PROVE IInv
  OBVIOUS
<1>1. Cardinality(unreleased) = 0
  BY FS_EmptySet DEF Init
<1>2. TypeOK
  BY IdType DEF Init, TypeOK, CountsType, SlotsType, ThreadsType, Ui, HookIdle
<1> QED
  BY <1>1, <1>2, IdType, DispatcherAssumption
     DEF Init, IInv, Accounting, Bounded, Known, SlotsOwnReservations, Ui

-----------------------------------------------------------------------------
(* The hook thread.                                                        *)

\* A refused input is counted until it is given back.
LEMMA RefuseStep == ASSUME IInv, NEW kind \in Kinds, Refuse(kind) PROVE IInv'
<1> USE DEF IInv
<1>1. hook'.at = "refusing" /\ hook'.callback \in Callback /\ hook'.slot = 0
      /\ hook' \in [at : {"refusing"}, callback : Callback, slot : {0}]
  BY DEF Refuse, TypeOK, CountsType, Callback, Input
<1>2. TypeOK'
  BY <1>1 DEF Refuse, TypeOK, CountsType, SlotsType, ThreadsType, uiVars, Slots
<1>3. Accounting'
  BY <1>1, FinitelyMany, FS_CardinalityType, IdType DEF Refuse, MayDispatch, Accounting
<1>4. Bounded' /\ SlotsOwnReservations'
  BY <1>1 DEF Refuse, Bounded, SlotsOwnReservations, uiVars
<1>5. Known'
  BY IdType DEF Refuse, Known, TypeOK, CountsType, ThreadsType, uiVars
<1> QED
  BY <1>2, <1>3, <1>4, <1>5

\* A refusal that is given back was counted once.
LEMMA GiveBackStep == ASSUME IInv, GiveBack PROVE IInv'
<1> USE DEF IInv
<1>1. TypeOK' /\ Accounting'
  BY FinitelyMany, FS_CardinalityType, IdType
     DEF GiveBack, TypeOK, CountsType, SlotsType, ThreadsType, Accounting, HookIdle, uiVars
<1>2. Bounded' /\ Known' /\ SlotsOwnReservations'
  BY IdType DEF GiveBack, Bounded, Known, SlotsOwnReservations, uiVars
<1> QED
  BY <1>1, <1>2

\* A reservation is made only within the limit, under a new number.
LEMMA ReserveStep == ASSUME IInv, NEW kind \in Kinds, Reserve(kind) PROVE IInv'
<1> USE DEF IInv
<1>1. /\ hook'.at = "reserved" /\ hook'.slot = 0
      /\ hook'.callback \in Callback /\ Id(hook'.callback) = issued'
      /\ hook' \in [at : {"reserved"}, callback : Callback, slot : {0}]
  BY DEF Reserve, TypeOK, CountsType, Callback, Input, Id
<1>2. issued' \notin unreleased /\ unreleased' = unreleased \cup {issued'}
  BY DEF Reserve, TypeOK, CountsType
<1>3. /\ Cardinality(unreleased') = Cardinality(unreleased) + 1
      /\ Cardinality(unreleased) \in Nat
  BY <1>2, FinitelyMany, FS_AddElement, FS_CardinalityType
<1>4. TypeOK'
  BY <1>1, <1>2 DEF Reserve, TypeOK, CountsType, SlotsType, ThreadsType, uiVars
<1>5. Accounting' /\ Bounded'
  BY <1>1, <1>3, IdType, DispatcherAssumption
     DEF Reserve, MayDispatch, Accounting, Bounded, Limit
<1>6. \A s \in Slots : Id(slots[s]) # issued'
  BY <1>2, IdType DEF SlotsOwnReservations, Reserve, TypeOK, CountsType
<1>7. Id(ui.callback) # issued' /\ Known'
  BY IdType DEF Reserve, Known, TypeOK, CountsType, ThreadsType, uiVars
<1>8. SlotsOwnReservations'
  BY <1>1, <1>2, <1>6, <1>7, IdType DEF Reserve, SlotsOwnReservations, uiVars, TypeOK, CountsType
<1> QED
  BY <1>4, <1>5, <1>7, <1>8

\* A nonempty set of slots has a smallest one.
LEMMA SmallestFree ==
  ASSUME NEW S \in SUBSET Slots, S # {}
  PROVE  \E s \in S : \A t \in S : s <= t
<1>1. S \subseteq Nat
  BY DispatcherAssumption DEF Slots
<1>2. PICK s \in S : \A t \in S : <<t, s>> \notin OpToRel(<, Nat)
  BY <1>1, NatLessThanWellFounded, WFMin
<1>3. \A t \in S : ~ (t < s)
  BY <1>1, <1>2 DEF OpToRel
<1> QED
  BY <1>1, <1>3

\* A filled slot leaves the filled slots, the ids and the free slots apart.
LEMMA InsertStep == ASSUME IInv, Insert PROVE IInv'
<1> USE DEF IInv
<1>1. CASE Free = {}
  <2>1. Release({Id(hook.callback)}) /\ hook' = HookIdle /\ slots' = slots
    BY <1>1 DEF Insert
  <2>2. /\ Cardinality(unreleased') <= Cardinality(unreleased)
        /\ Cardinality(unreleased') \in Nat /\ Cardinality(unreleased) \in Nat
        /\ pending' = Cardinality(unreleased') + 0
        /\ unreleased' = unreleased \ {Id(hook.callback)}
    BY <2>1, FinitelyMany, ReleaseCounts DEF Insert, Accounting, Release
  <2>3. TypeOK'
    <3>1. CountsType'
      <4>1. CountsType /\ generation \in Nat
        BY DEF TypeOK, CountsType
      <4>2. UNCHANGED <<issued, posted, generation>>
        BY DEF Insert
      <4> QED
        BY <2>2, <4>1, <4>2, ReleaseKeepsCounts
    <3>2. SlotsType'
      BY <2>1 DEF Insert, TypeOK, SlotsType, uiVars
    <3>3. ThreadsType'
      BY <2>1 DEF Insert, TypeOK, ThreadsType, HookIdle, uiVars
    <3> QED
      BY <3>1, <3>2, <3>3 DEF TypeOK
  <2>6. Accounting' /\ Known'
    BY <2>1, <2>2, IdType DEF Insert, Accounting, Known, uiVars
  <2>4. Bounded'
    BY <2>2, DispatcherAssumption DEF Bounded
  <2>5. SlotsOwnReservations'
    BY <2>1, <2>2, IdType DEF Insert, SlotsOwnReservations, uiVars, TypeOK, CountsType
  <2> QED
    BY <2>3, <2>4, <2>5, <2>6
<1>2. CASE Free # {}
  <2> DEFINE first == CHOOSE s \in Free : \A t \in Free : s <= t
  <2>1. first \in Slots /\ slots[first] = Empty
    <3>1. \E s \in Free : \A t \in Free : s <= t
      BY <1>2, DispatcherAssumption, SmallestFree DEF Free
    <3> QED
      BY <3>1 DEF Free
  <2>2. /\ slots' = [slots EXCEPT ![first] = hook.callback]
        /\ hook' = [at |-> "inserted", slot |-> first, callback |-> hook.callback]
        /\ UNCHANGED <<unreleased, pending, issued, ui>>
    BY <1>2 DEF Insert, uiVars
  <2> HIDE DEF first
  <2>3. hook.callback \in Callback /\ Id(hook.callback) \in unreleased
    BY DEF Insert, SlotsOwnReservations, TypeOK, ThreadsType
  <2>4. TypeOK'
    BY <2>1, <2>2, <2>3 DEF Insert, TypeOK, CountsType, SlotsType, ThreadsType, uiVars
  <2>5. Accounting' /\ Bounded' /\ Known'
    BY <2>2 DEF Insert, Accounting, Bounded, Known
  <2>6. SlotsOwnReservations'
    <3>1. \A s \in Slots : slots'[s] = IF s = first THEN hook.callback ELSE slots[s]
      BY <2>1, <2>2 DEF TypeOK, SlotsType
    <3>2. \A s \in Slots : Id(slots[s]) # Id(hook.callback)
      BY DEF Insert, SlotsOwnReservations
    <3>3. \A s \in Slots : slots'[s] # Empty => Id(slots'[s]) \in unreleased'
      BY <2>2, <2>3, <3>1 DEF SlotsOwnReservations
    <3>4. \A s, t \in Slots :
            slots'[s] # Empty /\ slots'[t] # Empty /\ s # t =>
              Id(slots'[s]) # Id(slots'[t])
      BY <3>1, <3>2 DEF SlotsOwnReservations
    <3>5. hook'.at = "inserted" /\ hook'.callback # Empty /\ hook'.slot # 0
      BY <2>1, <2>2, <2>3, IdType, DispatcherAssumption DEF Slots
    <3>6. \A s \in Slots : s = hook'.slot \/ Id(slots'[s]) # Id(hook'.callback)
      BY <2>2, <3>1, <3>2
    <3>7. slots'[hook'.slot] \in {hook'.callback, Empty}
      BY <2>1, <2>2, <3>1
    <3>8. ui.at = "taken" =>
            ui.callback # Empty /\ \A s \in Slots : Id(slots'[s]) # Id(ui.callback)
      BY <3>1 DEF Insert, SlotsOwnReservations
    <3> QED
      BY <2>2, <3>3, <3>4, <3>5, <3>6, <3>7, <3>8 DEF SlotsOwnReservations
  <2> QED
    BY <2>4, <2>5, <2>6
<1> QED
  BY <1>1, <1>2

\* The hook thread is done with its callback; what it releases is in no slot.
LEMMA PostStep == ASSUME IInv, Post PROVE IInv'
<1> USE DEF IInv
<1>1. hook.slot \in Slots /\ hook.callback \in Callback
  BY DEF Post, SlotsOwnReservations, TypeOK, ThreadsType
<1>2. /\ Cardinality(unreleased') <= Cardinality(unreleased)
      /\ Cardinality(unreleased') \in Nat /\ Cardinality(unreleased) \in Nat
      /\ pending' = Cardinality(unreleased') + 0
      /\ unreleased' \subseteq unreleased
  <2>1. pending = Cardinality(unreleased) + 0
    BY FinitelyMany, FS_CardinalityType DEF Post, Accounting
  <2>2. CASE slots[hook.slot] # hook.callback
    BY <2>1, <2>2, FinitelyMany, ReleaseCounts DEF Post
  <2>3. CASE slots[hook.slot] = hook.callback
    BY <2>1, <2>3, FinitelyMany, FS_CardinalityType DEF Post
  <2> QED
    BY <2>2, <2>3
<1>3. TypeOK' /\ Accounting' /\ Known'
  BY <1>1, <1>2, IdType
     DEF Post, TypeOK, CountsType, SlotsType, ThreadsType, Accounting, Known, HookIdle, uiVars, Callback, Input, Id
<1>4. Bounded'
  BY <1>2, DispatcherAssumption DEF Bounded
<1>5. \A s \in Slots : slots[s] # Empty => Id(slots[s]) \in unreleased'
  <2>1. CASE slots[hook.slot] # hook.callback
    <3>1. \A s \in Slots : slots[s] # Empty => Id(slots[s]) # Id(hook.callback)
      BY <1>1, <2>1 DEF Post, SlotsOwnReservations
    <3> QED
      BY <2>1, <3>1 DEF Post, Release, SlotsOwnReservations
  <2>2. CASE slots[hook.slot] = hook.callback
    BY <2>2 DEF Post, SlotsOwnReservations
  <2> QED
    BY <2>1, <2>2
<1>6. SlotsOwnReservations'
  BY <1>5, IdType DEF Post, SlotsOwnReservations, uiVars
<1> QED
  BY <1>3, <1>4, <1>6

\* The slot of a message that was not posted is emptied with its reservation.
LEMMA PostFailsStep == ASSUME IInv, PostFails PROVE IInv'
<1> USE DEF IInv
<1>1. hook.slot \in Slots /\ hook.callback \in Callback
  BY DEF PostFails, SlotsOwnReservations, TypeOK, ThreadsType
<1>2. /\ Cardinality(unreleased') <= Cardinality(unreleased)
      /\ Cardinality(unreleased') \in Nat /\ Cardinality(unreleased) \in Nat
      /\ pending' = Cardinality(unreleased') + 0
      /\ unreleased' = unreleased \ {Id(hook.callback)}
  <2>1. pending = Cardinality(unreleased) + 0
    BY FinitelyMany, FS_CardinalityType DEF PostFails, Accounting
  <2> QED
    BY <2>1, FinitelyMany, ReleaseCounts DEF PostFails, Release
<1>3. TypeOK'
  <2>1. CountsType'
    <3>1. CountsType /\ generation \in Nat
      BY DEF TypeOK, CountsType
    <3>2. UNCHANGED <<issued, posted, generation>>
      BY DEF PostFails
    <3> QED
      BY <1>2, <3>1, <3>2, ReleaseKeepsCounts
  <2>2. SlotsType'
    BY <1>1 DEF PostFails, TypeOK, SlotsType, uiVars
  <2>3. ThreadsType'
    BY DEF PostFails, TypeOK, ThreadsType, HookIdle, uiVars
  <2> QED
    BY <2>1, <2>2, <2>3 DEF TypeOK
<1>7. Accounting' /\ Known'
  BY <1>2, IdType DEF PostFails, Accounting, Known, uiVars
<1>4. Bounded'
  BY <1>2, DispatcherAssumption DEF Bounded
<1>5. \A s \in Slots : slots'[s] = IF s = hook.slot THEN Empty ELSE slots[s]
  BY <1>1 DEF PostFails, TypeOK, SlotsType
<1>6. SlotsOwnReservations'
  BY <1>1, <1>2, <1>5, IdType DEF PostFails, SlotsOwnReservations, uiVars, TypeOK, ThreadsType
<1> QED
  BY <1>3, <1>4, <1>6, <1>7

-----------------------------------------------------------------------------
(* The UI thread.                                                          *)

\* Steps that move a message, end a handler or advance the generation leave
\* the reservations alone.
LEMMA QuietUiStep ==
  ASSUME IInv,
         \/ Receive \/ Reenter \/ LeaveLoop \/ FinishHandler \/ OtherHandler
         \/ FinishOther \/ InvalidatePending \/ Dispose \/ InvalidateForDrop
  PROVE  IInv'
<1> USE DEF IInv
<1>1. /\ UNCHANGED <<issued, hook, posted, pending, unreleased, slots>>
      /\ ui' = ui \/ (ui'.at # "taken" /\ ui'.callback = Empty)
  BY DEF Receive, Reenter, LeaveLoop, FinishHandler, OtherHandler, FinishOther,
         InvalidatePending, Dispose, InvalidateForDrop, hookVars, uiVars, Ui
<1>2. TypeOK'
  <2>1. messages' \in Seq(Slots) /\ inbox' \in Seq(Slots)
    <3>1. messages \in Seq(Slots) /\ inbox \in Seq(Slots)
      BY DEF TypeOK, SlotsType
    <3>2. CASE Receive \/ Reenter
      <4>1. messages # <<>> /\ messages' = Tail(messages)
            /\ inbox' = Append(inbox, Head(messages))
        BY <3>2 DEF Receive, Reenter
      <4>2. Head(messages) \in Slots /\ Tail(messages) \in Seq(Slots)
        BY <3>1, <4>1
      <4> QED
        BY <3>1, <4>1, <4>2
    <3>3. CASE ~(Receive \/ Reenter)
      BY <3>1, <3>3 DEF LeaveLoop, FinishHandler, OtherHandler, FinishOther,
         InvalidatePending, Dispose, InvalidateForDrop, uiVars
    <3> QED
      BY <3>2, <3>3
  <2>2. ui' = ui \/ (ui' \in [at : {"idle", "loop", "other"}, callback : {Empty}])
    BY DEF Receive, Reenter, LeaveLoop, FinishHandler, OtherHandler,
           FinishOther, InvalidatePending, Dispose, InvalidateForDrop, uiVars, Ui
  <2>3. generation' \in Nat /\ life' \in
          {"open", "drained", "disposed", "invalidated", "closed"}
    BY DEF Receive, Reenter, LeaveLoop, FinishHandler, OtherHandler,
           FinishOther, InvalidatePending, Dispose, InvalidateForDrop, TypeOK, CountsType, ThreadsType
  <2>4. CountsType'
    BY <1>1, <2>3 DEF TypeOK, CountsType
  <2>5. SlotsType'
    BY <1>1, <2>1 DEF TypeOK, SlotsType
  <2>6. ThreadsType'
    BY <1>1, <2>2, <2>3 DEF TypeOK, ThreadsType
  <2> QED
    BY <2>4, <2>5, <2>6 DEF TypeOK
<1>3. Accounting' /\ Bounded' /\ Known'
  BY <1>1, IdType DEF Accounting, Bounded, Known, TypeOK, CountsType
<1>4. SlotsOwnReservations'
  BY <1>1 DEF SlotsOwnReservations
<1> QED
  BY <1>2, <1>3, <1>4

\* The callback taken from a slot is in no slot any more.
LEMMA TakeSlotStep == ASSUME IInv, TakeSlot PROVE IInv'
<1> USE DEF IInv
<1> DEFINE slot == Head(inbox)
<1>1. slot \in Slots /\ Tail(inbox) \in Seq(Slots)
  BY DEF TakeSlot, TypeOK, SlotsType
<1>2. UNCHANGED <<issued, hook, posted, pending, unreleased, generation, messages, life>>
      /\ inbox' = Tail(inbox)
  BY DEF TakeSlot, hookVars
<1>3. \/ UNCHANGED <<slots, ui>>
      \/ /\ slots[slot] # Empty
         /\ ui' = [at |-> "taken", callback |-> slots[slot]]
         /\ slots' = [slots EXCEPT ![slot] = Empty]
  BY DEF TakeSlot
<1> HIDE DEF slot
<1>4. Accounting' /\ Bounded'
  BY <1>2 DEF Accounting, Bounded
<1>5. CASE UNCHANGED <<slots, ui>>
  BY <1>1, <1>2, <1>4, <1>5 DEF TypeOK, CountsType, SlotsType, ThreadsType, Known, SlotsOwnReservations
<1>6. CASE /\ slots[slot] # Empty
           /\ ui' = [at |-> "taken", callback |-> slots[slot]]
           /\ slots' = [slots EXCEPT ![slot] = Empty]
  <2>1. slots[slot] \in Callback
    BY <1>1, <1>6 DEF TypeOK, SlotsType
  <2>2. TypeOK'
    BY <1>1, <1>2, <1>6, <2>1 DEF TypeOK, CountsType, SlotsType, ThreadsType
  <2>3. Known'
    BY <1>1, <1>2, <1>6, IdType DEF Known, SlotsOwnReservations, TypeOK, CountsType, SlotsType
  <2>4. \A s \in Slots : slots'[s] = IF s = slot THEN Empty ELSE slots[s]
    BY <1>1, <1>6 DEF TypeOK, SlotsType
  <2>5. \A s \in Slots : Id(slots'[s]) # Id(slots[slot])
    BY <1>1, <1>6, <2>1, <2>4, IdType DEF SlotsOwnReservations
  <2>6. SlotsOwnReservations'
    BY <1>1, <1>2, <1>6, <2>1, <2>4, <2>5, IdType DEF SlotsOwnReservations, TypeOK, ThreadsType
  <2> QED
    BY <1>4, <2>2, <2>3, <2>6
<1> QED
  BY <1>3, <1>5, <1>6

\* Running a callback releases a reservation no slot holds.
LEMMA RunCallbackStep == ASSUME IInv, RunCallback PROVE IInv'
<1> USE DEF IInv
<1> DEFINE extra == IF hook.at = "refusing" THEN 1 ELSE 0
<1>1. /\ Cardinality(unreleased') <= Cardinality(unreleased)
      /\ Cardinality(unreleased') \in Nat /\ Cardinality(unreleased) \in Nat
      /\ pending' = Cardinality(unreleased') + extra
      /\ unreleased' = unreleased \ {Id(ui.callback)}
  BY FinitelyMany, ReleaseCounts DEF RunCallback, Accounting, Release
<1>2. ui'.at \in {"handler", "loop"} /\ ui'.callback \in {ui.callback, Empty}
  BY DEF RunCallback, Ui
<1>3. UNCHANGED <<issued, hook, posted, slots>>
  BY DEF RunCallback, hookVars
<1>4. TypeOK'
  <2>1. CountsType'
    <3>1. CountsType /\ generation \in Nat /\ extra \in Nat
      BY DEF TypeOK, CountsType
    <3>2. UNCHANGED <<issued, posted, generation>>
      BY <1>3 DEF RunCallback
    <3> HIDE DEF extra
    <3> QED
      BY <1>1, <3>1, <3>2, ReleaseKeepsCounts
  <2>2. SlotsType'
    BY <1>3 DEF RunCallback, TypeOK, SlotsType
  <2>3. ThreadsType'
    BY <1>3 DEF RunCallback, TypeOK, ThreadsType, Ui
  <2> QED
    BY <2>1, <2>2, <2>3 DEF TypeOK
<1>5. Accounting' /\ Bounded'
  BY <1>1, <1>3, DispatcherAssumption DEF Accounting, Bounded
<1>6. Known'
  BY <1>2, <1>3, IdType DEF Known, TypeOK, CountsType
<1>7. SlotsOwnReservations'
  BY <1>1, <1>2, <1>3, IdType DEF RunCallback, SlotsOwnReservations
<1> QED
  BY <1>4, <1>5, <1>6, <1>7

\* A drain empties every slot; the hook thread may still hold a reservation.
LEMMA DrainStep == ASSUME IInv, CloseForShutdown \/ DrainForDrop PROVE IInv'
<1> USE DEF IInv
<1> DEFINE extra == IF hook.at = "refusing" THEN 1 ELSE 0
           drained == {Id(slots[s]) : s \in {t \in Slots : slots[t] # hook.callback}}
<1>1. Release(drained) /\ slots' = [s \in Slots |-> Empty]
      /\ UNCHANGED <<issued, hook, posted, messages, inbox, ui, generation>>
      /\ life' \in {"drained", "closed"}
  BY DEF CloseForShutdown, DrainForDrop, Drain, hookVars, uiVars
<1> HIDE DEF drained
<1>2. /\ Cardinality(unreleased') <= Cardinality(unreleased)
      /\ Cardinality(unreleased') \in Nat /\ Cardinality(unreleased) \in Nat
      /\ pending' = Cardinality(unreleased') + extra
      /\ unreleased' = unreleased \ drained
  BY <1>1, FinitelyMany, ReleaseCounts DEF Accounting, Release
<1>3. TypeOK'
  <2>1. CountsType'
    <3>1. CountsType /\ generation \in Nat /\ extra \in Nat
      BY DEF TypeOK, CountsType
    <3> HIDE DEF extra
    <3> QED
      BY <1>1, <1>2, <3>1, ReleaseKeepsCounts
  <2>2. SlotsType'
    BY <1>1 DEF TypeOK, SlotsType
  <2>3. ThreadsType'
    BY <1>1 DEF TypeOK, ThreadsType
  <2> QED
    BY <2>1, <2>2, <2>3 DEF TypeOK
<1>4. Accounting' /\ Bounded' /\ Known'
  BY <1>1, <1>2, DispatcherAssumption DEF Accounting, Bounded, Known
<1>5. hook.at = "reserved" => Id(hook.callback) \in unreleased'
  BY <1>2 DEF SlotsOwnReservations, drained
<1>6. SlotsOwnReservations'
  BY <1>1, <1>5, IdType DEF SlotsOwnReservations, TypeOK, ThreadsType
<1> QED
  BY <1>3, <1>4, <1>6

-----------------------------------------------------------------------------
\* Every step of either thread keeps the invariant.
LEMMA Invariance == IInv /\ [Next]_vars => IInv'
<1> SUFFICES ASSUME IInv, [Next]_vars PROVE IInv'
  OBVIOUS
<1>1. CASE UNCHANGED vars
  BY <1>1 DEF vars, hookVars, uiVars, IInv, TypeOK, CountsType, SlotsType, ThreadsType, Accounting, Bounded, Known,
              SlotsOwnReservations
<1>2. CASE Next
  BY <1>2, RefuseStep, ReserveStep, GiveBackStep, InsertStep, PostStep,
     PostFailsStep, QuietUiStep, TakeSlotStep, RunCallbackStep, DrainStep
     DEF Next, HookProgress, UiProgress
<1> QED
  BY <1>1, <1>2

\* Accounts: in every reachable state, for any capacity and however callbacks
\* are refused, posted, dropped, drained or run, the pending count is right
\* and the slots hold distinct reservations.
THEOREM Accounts == Spec => [](TypeOK /\ Accounting /\ SlotsOwnReservations)
<1>1. Spec => []IInv
  BY InitIInv, Invariance, PTL DEF Spec
<1> QED
  BY <1>1, PTL DEF IInv

-----------------------------------------------------------------------------
\* With every slot filled there would be more filled slots than reservations
\* left for them: the one just made is in none.
LEMMA PigeonHole == IInv => SlotForReservation
<1> SUFFICES ASSUME IInv, hook.at = "reserved", Free = {} PROVE FALSE
  BY DEF SlotForReservation
<1> DEFINE own == Id(hook.callback)
           others == unreleased \ {own}
           id == [s \in Slots |-> Id(slots[s])]
<1>1. IsFiniteSet(Slots) /\ Cardinality(Slots) = Capacity + 1
  BY FS_Interval, DispatcherAssumption DEF Slots
<1>2. IsFiniteSet(unreleased) /\ Cardinality(unreleased) \in Nat
  BY FinitelyMany, FS_CardinalityType DEF IInv
<1>3. own \in unreleased
  BY DEF IInv, SlotsOwnReservations
<1>4. IsFiniteSet(others) /\ Cardinality(others) < Cardinality(Slots)
  <2>1. IsFiniteSet(others) /\ Cardinality(others) = Cardinality(unreleased) - 1
    BY <1>2, <1>3, FS_RemoveElement
  <2>2. Cardinality(unreleased) <= Capacity + 1 /\ Capacity \in Nat
    BY DispatcherAssumption DEF IInv, Bounded
  <2> QED
    BY <1>1, <1>2, <2>1, <2>2
<1>5. \A s \in Slots : slots[s] # Empty
  BY DEF Free
<1>6. \A s \in Slots : Id(slots[s]) \in unreleased /\ Id(slots[s]) # own
  BY <1>5 DEF IInv, SlotsOwnReservations
<1>7. id \in [Slots -> others]
  BY <1>6
<1> HIDE DEF id, others
<1>8. \E s, t \in Slots : s # t /\ id[s] = id[t]
  BY <1>1, <1>4, <1>7, FS_PigeonHole
<1>9. \A s, t \in Slots : s # t => Id(slots[s]) # Id(slots[t])
  BY <1>5 DEF IInv, SlotsOwnReservations
<1> QED
  BY <1>8, <1>9 DEF id

\* SlotAlwaysFree: for any capacity, CallbackQueue's one slot beyond it is
\* enough: whatever the two threads do between the count and the insertion,
\* an admitted dispatch finds a free slot.
THEOREM SlotAlwaysFree == Spec => []SlotForReservation
<1>1. Spec => []IInv
  BY InitIInv, Invariance, PTL DEF Spec
<1> QED
  BY <1>1, PigeonHole, PTL

-----------------------------------------------------------------------------
(* The reserve.                                                            *)

\* A callback that was refused, delivered or dropped holds no reservation.
Gone ==
  /\ hook.at \in {"idle", "refusing"} => Id(hook.callback) \notin unreleased
  /\ ui.at # "taken" => Id(ui.callback) \notin unreleased

RInv == IInv /\ Gone /\ ReserveKept

\* Inputs are numbered from one.
LEMMA NoZero == IInv => 0 \notin unreleased
BY DEF IInv, TypeOK, CountsType

\* A step that keeps hold of every callback whose reservation stays.
HoldsOn == \A c \in Held : Id(c) \in unreleased' => c \in Held'

\* A step that keeps hold of every callback whose reservation it does not
\* release keeps the reserve: with a release there is room below it again.
LEMMA HeldKept ==
  ASSUME IInv, ReserveKept, unreleased' \subseteq unreleased, HoldsOn
  PROVE  ReserveKept'
<1>1. IsFiniteSet(unreleased) /\ Cardinality(unreleased) \in Nat
  BY FinitelyMany, FS_CardinalityType DEF IInv
<1>2. CASE unreleased' = unreleased
  BY <1>2 DEF ReserveKept, InFlight, HoldsOn
<1>3. CASE unreleased' # unreleased
  <2>1. /\ Cardinality(unreleased') \in Nat
        /\ Cardinality(unreleased') < Cardinality(unreleased)
    BY <1>1, <1>3, FS_Subset, FS_CardinalityType
  <2>2. Cardinality(unreleased) <= Capacity + 1 /\ Capacity \in Nat
    BY DispatcherAssumption DEF IInv, Bounded
  <2>3. ~(Cardinality(unreleased') > Capacity)
    BY <1>1, <2>1, <2>2
  <2> QED
    BY <2>3 DEF ReserveKept
<1> QED
  BY <1>2, <1>3

\* A new reservation beyond the capacity is made for a critical input only.
LEMMA ReserveTakesReserve ==
  ASSUME RInv, NEW kind \in Kinds, Reserve(kind) PROVE Gone' /\ ReserveKept'
<1>1. /\ hook'.at = "reserved" /\ hook'.callback.input.kind = kind
      /\ Id(hook'.callback) = issued'
  BY DEF Reserve, Id
<1>2. /\ unreleased' = unreleased \cup {issued'} /\ ui' = ui
      /\ issued' \notin unreleased /\ Id(ui.callback) # issued'
  BY DEF Reserve, uiVars, RInv, IInv, Known, TypeOK, CountsType
<1>3. hook'.callback.input \in InFlight'
  <2>1. hook'.callback \in Held' /\ Id(hook'.callback) \in unreleased'
    BY <1>1, <1>2 DEF Held
  <2> QED
    BY <2>1 DEF InFlight
<1>4. Gone'
  BY <1>1, <1>2 DEF RInv, Gone
<1>5. CASE kind \in Critical
  BY <1>1, <1>3, <1>4, <1>5 DEF ReserveKept
<1>6. CASE kind \notin Critical
  <2>1. /\ Cardinality(unreleased') = Cardinality(unreleased) + 1
        /\ Cardinality(unreleased) \in Nat
    BY <1>2, FinitelyMany, FS_AddElement, FS_CardinalityType DEF RInv, IInv
  <2>2. hook.at = "idle" /\ pending + 1 <= Capacity
    BY <1>6, IdType DEF Reserve, MayDispatch, Limit
  <2>3. pending = Cardinality(unreleased)
    BY <2>1, <2>2 DEF RInv, IInv, Accounting
  <2> QED
    BY <1>4, <2>1, <2>2, <2>3, DispatcherAssumption DEF ReserveKept
<1> QED
  BY <1>5, <1>6

\* Whatever the hook thread does then.
LEMMA HookKeeps ==
  ASSUME RInv, (\E kind \in Kinds : Refuse(kind)) \/ HookProgress
  PROVE  Gone' /\ ReserveKept' /\ HoldsOn /\ unreleased' \subseteq unreleased
<1> USE DEF RInv
<1>1. ui' = ui /\ unreleased' \subseteq unreleased
  BY DEF Refuse, GiveBack, Insert, Post, PostFails, HookProgress, uiVars, Release
<1>2. ASSUME NEW kind \in Kinds, Refuse(kind)
      PROVE  Gone' /\ HoldsOn
  <2>1. /\ UNCHANGED <<slots, unreleased, ui>> /\ hook.callback = Empty
        /\ hook'.at = "refusing" /\ Id(hook'.callback) = issued'
        /\ issued' = issued + 1
    BY <1>2, IdType DEF Refuse, MayDispatch, uiVars, Id
  <2>2. issued' \notin unreleased
    BY <2>1 DEF IInv, TypeOK, CountsType
  <2> QED
    BY <2>1, <2>2, NoZero, IdType DEF Gone, Held, HoldsOn
<1>3. ASSUME GiveBack
      PROVE  Gone' /\ HoldsOn
  <2>1. /\ UNCHANGED <<slots, unreleased, ui>> /\ hook' = HookIdle
        /\ Id(hook.callback) \notin unreleased
    BY <1>3 DEF GiveBack, uiVars, Gone
  <2> QED
    BY <2>1, NoZero, IdType DEF Gone, Held, HoldsOn
<1>4. ASSUME Insert
      PROVE  Gone' /\ HoldsOn
  <2>1. CASE Free = {}
    <3>1. /\ UNCHANGED <<slots, ui>> /\ hook' = HookIdle
          /\ Id(hook.callback) \notin unreleased'
      BY <1>4, <2>1 DEF Insert, uiVars, Release
    <3> QED
      BY <1>1, <3>1, NoZero, IdType DEF Gone, Held, HoldsOn
  <2>2. CASE Free # {}
    <3>1. PICK first : /\ first \in Free
                       /\ slots' = [slots EXCEPT ![first] = hook.callback]
      <4>1. \E s \in Free : \A t \in Free : s <= t
        BY <2>2, SmallestFree DEF Free
      <4> QED
        BY <1>4, <2>2, <4>1 DEF Insert
    <3>2. /\ hook'.at = "inserted" /\ hook'.callback = hook.callback
          /\ unreleased' = unreleased
      BY <1>4, <2>2 DEF Insert
    <3>3. \A s \in Slots : slots[s] = Empty \/ slots'[s] = slots[s]
      BY <3>1 DEF Free, IInv, TypeOK, SlotsType
    <3> QED
      BY <1>1, <3>2, <3>3, NoZero, IdType DEF Gone, Held, HoldsOn
  <2> QED
    BY <2>1, <2>2
<1>5. ASSUME Post
      PROVE  Gone' /\ HoldsOn
  <2>1. UNCHANGED <<slots, ui>> /\ hook' = HookIdle /\ hook.slot \in Slots
    BY <1>5 DEF Post, uiVars, IInv, TypeOK, ThreadsType, SlotsOwnReservations
  <2>2. Id(hook.callback) \in unreleased' => hook.callback = slots[hook.slot]
    BY <1>5 DEF Post, Release
  <2> QED
    BY <1>1, <2>1, <2>2, NoZero, IdType DEF Gone, Held, HoldsOn
<1>6. ASSUME PostFails
      PROVE  Gone' /\ HoldsOn
  <2>1. /\ slots' = [slots EXCEPT ![hook.slot] = Empty] /\ hook' = HookIdle
        /\ Id(hook.callback) \notin unreleased' /\ ui' = ui
    BY <1>6 DEF PostFails, uiVars, Release
  <2>2. slots[hook.slot] \in {hook.callback, Empty}
    BY <1>6 DEF PostFails, IInv, SlotsOwnReservations
  <2>3. \A s \in Slots : slots[s] \in {hook.callback, Empty} \/ slots'[s] = slots[s]
    BY <2>1, <2>2 DEF IInv, TypeOK, SlotsType
  <2> QED
    BY <1>1, <2>1, <2>3, NoZero, IdType DEF Gone, Held, HoldsOn
<1> QED
  BY <1>1, <1>2, <1>3, <1>4, <1>5, <1>6, HeldKept DEF HookProgress

\* And whatever the UI thread does.
LEMMA UiKeeps ==
  ASSUME RInv,
         Receive \/ Reenter \/ OtherHandler \/ InvalidatePending
           \/ CloseForShutdown \/ UiProgress
  PROVE  Gone' /\ ReserveKept' /\ HoldsOn /\ unreleased' \subseteq unreleased
<1> USE DEF RInv
<1>1. hook' = hook /\ unreleased' \subseteq unreleased
  BY DEF Receive, Reenter, LeaveLoop, FinishHandler, OtherHandler, FinishOther,
         InvalidatePending, Dispose, InvalidateForDrop, TakeSlot, RunCallback,
         CloseForShutdown, DrainForDrop, UiProgress, hookVars, Release, Drain
<1>2. ASSUME \/ Receive \/ Reenter \/ LeaveLoop \/ FinishHandler \/ OtherHandler
             \/ FinishOther \/ InvalidatePending \/ Dispose \/ InvalidateForDrop
      PROVE  Gone' /\ HoldsOn
  <2>1. /\ UNCHANGED <<slots, unreleased>>
        /\ ui' = ui \/ (ui.at # "taken" /\ ui'.callback = Empty)
    BY <1>2 DEF Receive, Reenter, LeaveLoop, FinishHandler, OtherHandler,
       FinishOther, InvalidatePending, Dispose, InvalidateForDrop, uiVars, Ui
  <2> QED
    BY <1>1, <2>1, NoZero, IdType DEF Gone, Held, HoldsOn
<1>3. ASSUME TakeSlot
      PROVE  Gone' /\ HoldsOn
  <2> DEFINE slot == Head(inbox)
  <2>1. UNCHANGED unreleased /\ Id(ui.callback) \notin unreleased
    BY <1>3 DEF TakeSlot, Gone
  <2>2. slot \in Slots
    BY <1>3 DEF TakeSlot, IInv, TypeOK, SlotsType
  <2>3. \/ UNCHANGED <<slots, ui>>
        \/ /\ ui' = [at |-> "taken", callback |-> slots[slot]]
           /\ slots' = [slots EXCEPT ![slot] = Empty]
    BY <1>3 DEF TakeSlot
  <2> HIDE DEF slot
  <2>4. CASE UNCHANGED <<slots, ui>>
    BY <1>1, <2>1, <2>4 DEF Gone, Held, HoldsOn
  <2>5. CASE /\ ui' = [at |-> "taken", callback |-> slots[slot]]
             /\ slots' = [slots EXCEPT ![slot] = Empty]
    <3>1. \A s \in Slots : s = slot \/ slots'[s] = slots[s]
      BY <2>5 DEF IInv, TypeOK, SlotsType
    <3> QED
      BY <1>1, <2>1, <2>5, <3>1 DEF Gone, Held, HoldsOn
  <2> QED
    BY <2>3, <2>4, <2>5
<1>4. ASSUME RunCallback
      PROVE  Gone' /\ HoldsOn
  <2>1. /\ slots' = slots /\ Id(ui.callback) \notin unreleased'
        /\ ui'.callback \in {ui.callback, Empty}
    BY <1>4 DEF RunCallback, Release, Ui
  <2> QED
    BY <1>1, <2>1, NoZero, IdType DEF Gone, Held, HoldsOn
<1>5. ASSUME CloseForShutdown \/ DrainForDrop
      PROVE  Gone' /\ HoldsOn
  <2>1. Drain /\ ui' = ui
    BY <1>5 DEF CloseForShutdown, DrainForDrop, uiVars
  <2>2. \A s \in Slots :
          slots[s] = hook.callback \/ Id(slots[s]) \notin unreleased'
    BY <2>1 DEF Drain, Release
  <2> QED
    BY <1>1, <2>1, <2>2 DEF Gone, Held, HoldsOn
<1> QED
  BY <1>1, <1>2, <1>3, <1>4, <1>5, HeldKept DEF UiProgress

\* Both threads keep the reserve, and no finished callback a reservation.
LEMMA ReserveInvariant == Spec => []RInv
<1>1. Init => RInv
  <2> SUFFICES ASSUME Init PROVE RInv
    OBVIOUS
  <2>1. unreleased = {} /\ Cardinality(unreleased) = 0
    BY FS_EmptySet DEF Init
  <2> QED
    BY <2>1, InitIInv, DispatcherAssumption DEF RInv, Gone, ReserveKept
<1>2. RInv /\ [Next]_vars => RInv'
  <2> SUFFICES ASSUME RInv, [Next]_vars PROVE RInv'
    OBVIOUS
  <2>1. IInv'
    BY Invariance DEF RInv
  <2>2. CASE UNCHANGED vars
    <3>1. UNCHANGED <<unreleased, slots, hook, ui>>
      BY <2>2 DEF vars, hookVars, uiVars
    <3>2. InFlight' = InFlight
      BY <3>1 DEF InFlight, Held
    <3> QED
      BY <2>1, <3>1, <3>2 DEF RInv, Gone, ReserveKept
  <2>3. CASE Next
    BY <2>1, <2>3, ReserveTakesReserve, HookKeeps, UiKeeps DEF Next, RInv
  <2> QED
    BY <2>2, <2>3
<1> QED
  BY <1>1, <1>2, PTL DEF Spec

\* ReserveHolds: for any capacity, the slot beyond it is never used by repeats
\* alone: more than the capacity is reserved only while an input that ends a
\* session is on its way to the UI thread.
THEOREM ReserveHolds == Spec => []ReserveKept
<1>1. RInv => ReserveKept
  BY DEF RInv
<1> QED
  BY <1>1, ReserveInvariant, PTL

-----------------------------------------------------------------------------
(* The teardown.                                                           *)

\* Each reservation belongs to a callback in a slot or in a thread's hands.
AllHeld == \A id \in unreleased : \E c \in Held : Id(c) = id

\* Once the hook is disposed and an invalidation has got the input lock, its
\* thread dispatches nothing more; the second drain leaves no slot filled.
TornDown ==
  /\ life \in {"invalidated", "closed"} => hook = HookIdle
  /\ life = "closed" => \A s \in Slots : slots[s] = Empty

SInv == RInv /\ AllHeld /\ TornDown

\* A reservation is made by the hook thread, and released with its callback.
LEMMA AllHeldStep == ASSUME RInv, AllHeld, Next PROVE AllHeld'
<1>1. ASSUME NEW kind \in Kinds, Reserve(kind) PROVE AllHeld'
  <2>1. /\ unreleased' = unreleased \cup {issued'} /\ UNCHANGED <<slots, ui>>
        /\ Id(hook'.callback) = issued' /\ hook.callback = Empty
    BY <1>1, IdType DEF Reserve, MayDispatch, uiVars, Id
  <2>2. \A c \in Held : Id(c) \in unreleased => c \in Held'
    BY <2>1, NoZero, IdType DEF Held, RInv
  <2>3. hook'.callback \in Held'
    BY DEF Held
  <2> QED
    BY <2>1, <2>2, <2>3 DEF AllHeld
<1>2. ASSUME unreleased' \subseteq unreleased, HoldsOn PROVE AllHeld'
  BY <1>2 DEF AllHeld, HoldsOn
<1> QED
  BY <1>1, <1>2, HookKeeps, UiKeeps DEF Next

\* After the invalidation no step takes up a callback or fills a slot.
LEMMA TornDownStep == ASSUME TypeOK, TornDown, Next PROVE TornDown'
<1>1. ASSUME (\E kind \in Kinds : Refuse(kind) \/ Reserve(kind)) \/ HookProgress
      PROVE  TornDown'
  <2>1. hook.at # "idle" \/ life \in {"open", "drained"}
    BY <1>1, IdType DEF Refuse, Reserve, MayDispatch, HookProgress, GiveBack, Insert,
       Post, PostFails
  <2>2. life' = life /\ life \notin {"invalidated", "closed"}
    BY <1>1, <2>1, IdType DEF TornDown, Refuse, Reserve, HookProgress, GiveBack, Insert,
       Post, PostFails
  <2> QED
    BY <2>2 DEF TornDown
<1>2. ASSUME Receive \/ Reenter \/ LeaveLoop \/ FinishHandler \/ OtherHandler
               \/ FinishOther \/ InvalidatePending \/ RunCallback
      PROVE  TornDown'
  BY <1>2 DEF TornDown, Receive, Reenter, LeaveLoop, FinishHandler, OtherHandler,
     FinishOther, InvalidatePending, RunCallback, hookVars
<1>3. ASSUME TakeSlot PROVE TornDown'
  <2>1. UNCHANGED <<hook, life>> /\ (life = "closed" => slots' = slots)
    BY <1>3 DEF TakeSlot, hookVars
  <2> QED
    BY <2>1 DEF TornDown
<1>4. ASSUME CloseForShutdown \/ Dispose \/ InvalidateForDrop PROVE TornDown'
  BY <1>4 DEF TornDown, CloseForShutdown, Dispose, InvalidateForDrop, hookVars
<1>5. ASSUME DrainForDrop PROVE TornDown'
  BY <1>5 DEF TornDown, DrainForDrop, Drain, hookVars
<1> QED
  BY <1>1, <1>2, <1>3, <1>4, <1>5 DEF Next, UiProgress

\* With the hook thread idle, the slots empty and the UI thread back in its
\* loop, nobody is left to hold a reservation.
LEMMA NobodyHolds == SInv => ShutdownReleasesAll
<1> SUFFICES ASSUME SInv, life = "closed", ui.at = "idle"
             PROVE  pending = 0 /\ \A s \in Slots : slots[s] = Empty
  BY DEF ShutdownReleasesAll
<1>1. hook = HookIdle /\ \A s \in Slots : slots[s] = Empty
  BY DEF SInv, TornDown
<1>2. 0 \notin unreleased /\ Id(ui.callback) \notin unreleased
  BY NoZero DEF SInv, RInv, Gone
<1>3. \A c \in Held : Id(c) \notin unreleased
  BY <1>1, <1>2, IdType DEF Held
<1>4. unreleased = {}
  BY <1>3 DEF SInv, AllHeld
<1>5. pending = Cardinality(unreleased) + 0
  BY <1>1, IdType, FinitelyMany, FS_CardinalityType DEF SInv, RInv, IInv, Accounting
<1> QED
  BY <1>1, <1>4, <1>5, FS_EmptySet

\* ShutdownHolds: for any capacity, and with callbacks in flight on both
\* threads when the hook is taken down, the teardown leaves every slot empty
\* and every reservation given back.
THEOREM ShutdownHolds == Spec => []ShutdownReleasesAll
<1>1. Init => AllHeld /\ TornDown
  BY DEF Init, AllHeld, TornDown
<1>2. RInv /\ AllHeld /\ TornDown /\ [Next]_vars => AllHeld' /\ TornDown'
  <2> SUFFICES ASSUME RInv, AllHeld, TornDown, [Next]_vars PROVE AllHeld' /\ TornDown'
    OBVIOUS
  <2>1. CASE UNCHANGED vars
    BY <2>1 DEF vars, hookVars, uiVars, AllHeld, TornDown, Held
  <2>2. CASE Next
    BY <2>2, AllHeldStep, TornDownStep DEF RInv, IInv
  <2> QED
    BY <2>1, <2>2
<1> QED
  BY <1>1, <1>2, ReserveInvariant, NobodyHolds, PTL DEF Spec, SInv

-----------------------------------------------------------------------------
(* The order of the inputs: sequences that rise by number.                 *)

\* The inputs of a sequence are numbered in its order.
Rising(s) == \A i, j \in DOMAIN s : i < j => s[i].id < s[j].id

\* What a sequence holds.
Elements(s) == {s[i] : i \in DOMAIN s}

\* The numbers of a set of inputs tell them apart.
NumbersDiffer(inputs) == \A x, y \in inputs : x.id = y.id => x = y

\* Two rising sequences of the same inputs agree wherever the first is long
\* enough, up to a place where all before is equal.
LEMMA RisingAgreeAt ==
  ASSUME NEW v \in Seq(Input), NEW w \in Seq(Input), Rising(v), Rising(w),
         Elements(v) = Elements(w), NEW n \in DOMAIN v,
         \A k \in DOMAIN v : k < n => k \in DOMAIN w /\ v[k] = w[k]
  PROVE  n \in DOMAIN w /\ v[n] = w[n]
<1>0. /\ DOMAIN v = 1 .. Len(v) /\ DOMAIN w = 1 .. Len(w)
      /\ Len(v) \in Nat /\ Len(w) \in Nat
      /\ \A i \in DOMAIN v : v[i].id \in Nat
      /\ \A i \in DOMAIN w : w[i].id \in Nat
  <2>1. \A x \in Input : x.id \in Nat
    BY DEF Input
  <2>2. \A i \in DOMAIN v : v[i] \in Input
    BY ElementOfSeq
  <2>3. \A i \in DOMAIN w : w[i] \in Input
    BY ElementOfSeq
  <2> QED
    BY <2>1, <2>2, <2>3, LenProperties
<1>1. PICK m \in DOMAIN w : v[n] = w[m]
  BY DEF Elements
<1>2. CASE m < n
  BY <1>0, <1>1, <1>2 DEF Rising
<1>3. CASE m > n
  <2>1. n \in DOMAIN w
    BY <1>0, <1>3
  <2>2. PICK k \in DOMAIN v : w[n] = v[k]
    BY <2>1 DEF Elements
  <2>3. w[n].id < v[n].id
    BY <1>1, <1>3, <2>1 DEF Rising
  <2>4. CASE k > n
    BY <1>0, <2>1, <2>2, <2>3, <2>4 DEF Rising
  <2>5. CASE k < n
    BY <1>0, <2>1, <2>2, <2>5 DEF Rising
  <2>6. CASE k = n
    BY <1>0, <2>1, <2>2, <2>3, <2>6
  <2> QED
    BY <1>0, <2>4, <2>5, <2>6
<1> QED
  BY <1>0, <1>1, <1>2, <1>3

\* A rising sequence is determined by its inputs.
LEMMA RisingUnique ==
  ASSUME NEW v \in Seq(Input), NEW w \in Seq(Input), Rising(v), Rising(w),
         Elements(v) = Elements(w)
  PROVE  v = w
<1> DEFINE Differ == {n \in Nat : /\ n \in DOMAIN v \cup DOMAIN w
                                  /\ ~(n \in DOMAIN v /\ n \in DOMAIN w /\ v[n] = w[n])}
<1>0. /\ DOMAIN v = 1 .. Len(v) /\ DOMAIN w = 1 .. Len(w)
      /\ Len(v) \in Nat /\ Len(w) \in Nat
  OBVIOUS
<1>1. ASSUME Differ # {} PROVE FALSE
  <2>1. PICK n \in Differ : \A k \in Differ : <<k, n>> \notin OpToRel(<, Nat)
    BY <1>1, NatLessThanWellFounded, WFMin
  <2>2. \A k \in DOMAIN v \cup DOMAIN w : k < n =>
          k \in DOMAIN v /\ k \in DOMAIN w /\ v[k] = w[k]
    <3>1. \A k \in Nat : k < n => <<k, n>> \in OpToRel(<, Nat)
      BY DEF OpToRel
    <3>2. \A k \in Nat : k < n => k \notin Differ
      <4> HIDE DEF Differ
      <4> QED
        BY <2>1, <3>1
    <3> QED
      BY <1>0, <3>2
  <2>3. CASE n \in DOMAIN v
    <3>1. \A k \in DOMAIN v : k < n => k \in DOMAIN w /\ v[k] = w[k]
      BY <2>2
    <3> QED
      BY <2>1, <2>3, <3>1, RisingAgreeAt
  <2>4. CASE n \in DOMAIN w
    <3>1. \A k \in DOMAIN w : k < n => k \in DOMAIN v /\ w[k] = v[k]
      BY <2>2
    <3> QED
      BY <2>1, <2>4, <3>1, RisingAgreeAt
  <2> QED
    BY <2>1, <2>3, <2>4
<1>2. \A n \in DOMAIN v : n \in DOMAIN w /\ v[n] = w[n]
  BY <1>0, <1>1
<1>3. \A n \in DOMAIN w : n \in DOMAIN v /\ v[n] = w[n]
  BY <1>0, <1>1
<1> HIDE DEF Differ
<1>4. Len(v) = Len(w)
  <2>1. Len(v) <= Len(w)
    BY <1>0, <1>2
  <2>2. Len(w) <= Len(v)
    BY <1>0, <1>3
  <2>3. \A a, b \in Nat : a <= b /\ b <= a => a = b
    OBVIOUS
  <2> QED
    BY <1>0, <2>1, <2>2, <2>3
<1> QED
  BY <1>0, <1>2, <1>4, SeqEqual

\* A finite set of inputs, put in the order of its numbers, is a rising
\* sequence of just these inputs.
LEMMA ByNumberRises ==
  ASSUME NEW inputs \in SUBSET Input, IsFiniteSet(inputs), NumbersDiffer(inputs)
  PROVE  /\ ByNumber(inputs) \in Seq(Input)
         /\ Len(ByNumber(inputs)) = Cardinality(inputs)
         /\ Elements(ByNumber(inputs)) = inputs
         /\ Rising(ByNumber(inputs))
<1> DEFINE upTo(x) == {y \in inputs : y.id <= x.id}
           size == Cardinality(inputs)
           place == [x \in inputs |-> Cardinality(upTo(x))]
           w == [n \in 1 .. size |-> CHOOSE x \in inputs : Cardinality(upTo(x)) = n]
<1>1. size \in Nat /\ IsFiniteSet(1 .. size) /\ Cardinality(1 .. size) = size
  BY FS_CardinalityType, FS_Interval
<1>2. \A x \in inputs : x.id \in Nat
  BY DEF Input
<1>3. ASSUME NEW x \in inputs
      PROVE  place[x] \in 1 .. size /\ IsFiniteSet(upTo(x)) /\ place[x] = Cardinality(upTo(x))
  <2>1. upTo(x) \in SUBSET inputs /\ x \in upTo(x)
    BY <1>2
  <2>2. IsFiniteSet(upTo(x)) /\ Cardinality(upTo(x)) <= size
    BY <2>1, FS_Subset
  <2>3. Cardinality(upTo(x)) \in Nat /\ Cardinality(upTo(x)) # 0
    BY <2>1, <2>2, FS_CardinalityType, FS_EmptySet
  <2>4. place[x] = Cardinality(upTo(x))
    OBVIOUS
  <2> HIDE DEF place, upTo, size
  <2> QED
    BY <1>1, <2>2, <2>3, <2>4
<1>4. ASSUME NEW x \in inputs, NEW y \in inputs, x.id < y.id
      PROVE  place[x] < place[y]
  <2>1. upTo(x) \in SUBSET upTo(y) /\ y \in upTo(y) /\ y \notin upTo(x)
    BY <1>2, <1>4
  <2>2. place[x] <= place[y] /\ place[x] # place[y]
    BY <1>3, <2>1, FS_Subset
  <2>3. place[x] \in Nat /\ place[y] \in Nat
    BY <1>3
  <2> HIDE DEF place
  <2> QED
    BY <2>2, <2>3
<1>5. \A x, y \in inputs : place[x] = place[y] => x = y
  <2> SUFFICES ASSUME NEW x \in inputs, NEW y \in inputs, place[x] = place[y], x # y
               PROVE  FALSE
    OBVIOUS
  <2>1. x.id < y.id \/ y.id < x.id
    BY <1>2 DEF NumbersDiffer
  <2>2. place[x] < place[y] \/ place[y] < place[x]
    BY <1>4, <2>1
  <2>3. place[x] \in Nat /\ place[y] \in Nat
    BY <1>3
  <2> HIDE DEF place
  <2> QED
    BY <2>2, <2>3
<1>6. \A n \in 1 .. size : \E x \in inputs : Cardinality(upTo(x)) = n
  <2>1. place \in [inputs -> 1 .. size]
    <3>1. DOMAIN place = inputs /\ \A x \in inputs : place[x] \in 1 .. size
      BY <1>3
    <3> QED
      BY <1>3
  <2>2. Cardinality(inputs) = Cardinality(1 .. size)
    BY <1>1
  <2> HIDE DEF place, size
  <2>3. place \in Injection(inputs, 1 .. size)
    BY <1>5, <2>1 DEF Injection, IsInjective
  <2>4. place \in Surjection(inputs, 1 .. size)
    BY <1>1, <2>2, <2>3, FS_Injection
  <2>5. \A n \in 1 .. size : \E x \in inputs : place[x] = n
    BY <2>4 DEF Surjection
  <2> QED
    BY <1>3, <2>5
<1>7. \A n \in 1 .. size : w[n] \in inputs /\ Cardinality(upTo(w[n])) = n
  <2> HIDE DEF size
  <2> QED
    BY <1>6
<1>8. w = ByNumber(inputs)
  BY DEF ByNumber
<1> HIDE DEF size, w
<1>9. \A n \in 1 .. size : w[n] \in inputs /\ place[w[n]] = n
  BY <1>3, <1>7
<1>10. DOMAIN w = 1 .. size /\ w \in Seq(Input) /\ Len(w) = size
  <2>1. w \in [1 .. size -> Input]
    BY <1>7 DEF w
  <2> QED
    BY <1>1, <2>1, IsASeq
<1> HIDE DEF place
<1>11. Elements(w) = inputs
  <2>1. ASSUME NEW x \in inputs PROVE w[place[x]] = x /\ place[x] \in 1 .. size
    <3>1. place[x] \in 1 .. size
      BY <1>3
    <3>2. w[place[x]] \in inputs /\ place[w[place[x]]] = place[x]
      BY <1>9, <3>1
    <3> QED
      BY <1>5, <3>1, <3>2
  <2> QED
    BY <1>9, <1>10, <2>1 DEF Elements
<1>12. Rising(w)
  <2> SUFFICES ASSUME NEW i \in 1 .. size, NEW j \in 1 .. size, i < j
               PROVE  w[i].id < w[j].id
    BY <1>10 DEF Rising
  <2>1. /\ w[i] \in inputs /\ w[j] \in inputs
        /\ place[w[i]] = i /\ place[w[j]] = j
    BY <1>9
  <2>2. w[i].id \in Nat /\ w[j].id \in Nat
    BY <1>2, <2>1
  <2>3. CASE w[j].id < w[i].id
    BY <1>1, <1>4, <2>1, <2>3
  <2>4. CASE w[i].id = w[j].id
    BY <1>1, <2>1, <2>4 DEF NumbersDiffer
  <2> QED
    BY <2>2, <2>3, <2>4
<1> QED
  BY <1>8, <1>10, <1>11, <1>12 DEF size

\* Without inputs there is no sequence.
LEMMA ByNumberEmpty == ByNumber({}) = <<>>
<1>1. IsFiniteSet({}) /\ {} \in SUBSET Input /\ NumbersDiffer({}) /\ Cardinality({}) = 0
  BY FS_EmptySet DEF NumbersDiffer
<1>2. ByNumber({}) \in Seq(Input) /\ Len(ByNumber({})) = 0
  BY <1>1, ByNumberRises
<1> QED
  BY <1>2, EmptySeq

\* An input with a higher number goes to the end.
LEMMA ByNumberAppend ==
  ASSUME NEW inputs \in SUBSET Input, IsFiniteSet(inputs), NumbersDiffer(inputs),
         NEW x \in Input, \A y \in inputs : y.id < x.id
  PROVE  ByNumber(inputs \cup {x}) = Append(ByNumber(inputs), x)
<1> DEFINE v == ByNumber(inputs \cup {x})
           w == Append(ByNumber(inputs), x)
           s == ByNumber(inputs)
<1>1. /\ s \in Seq(Input) /\ Elements(s) = inputs /\ Rising(s)
  BY ByNumberRises
<1>2. /\ IsFiniteSet(inputs \cup {x}) /\ inputs \cup {x} \in SUBSET Input
  BY FS_AddElement
<1>3. NumbersDiffer(inputs \cup {x})
  <2>1. \A y \in inputs : y.id \in Nat /\ x.id \in Nat /\ y.id # x.id
    BY DEF Input
  <2> QED
    BY <2>1 DEF NumbersDiffer
<1>4. v \in Seq(Input) /\ Elements(v) = inputs \cup {x} /\ Rising(v)
  BY <1>2, <1>3, ByNumberRises
<1> HIDE DEF s
<1>5. /\ w \in Seq(Input) /\ Len(w) = Len(s) + 1 /\ Len(s) \in Nat
      /\ DOMAIN s = 1 .. Len(s) /\ DOMAIN w = 1 .. Len(s) + 1
      /\ \A i \in 1 .. Len(s) : w[i] = s[i]
      /\ w[Len(s) + 1] = x
  BY <1>1, AppendProperties DEF s
<1> HIDE DEF w
<1>6. Elements(w) = inputs \cup {x}
  <2>1. \A i \in DOMAIN w : (i \in DOMAIN s /\ w[i] = s[i]) \/ w[i] = x
    BY <1>5
  <2>2. \A i \in DOMAIN s : i \in DOMAIN w /\ w[i] = s[i]
    BY <1>5
  <2>3. Len(s) + 1 \in DOMAIN w
    BY <1>5
  <2> QED
    BY <1>1, <1>5, <2>1, <2>2, <2>3 DEF Elements
<1>7. Rising(w)
  <2> SUFFICES ASSUME NEW i \in DOMAIN w, NEW j \in DOMAIN w, i < j
               PROVE  w[i].id < w[j].id
    BY DEF Rising
  <2>1. i \in DOMAIN s /\ w[i] = s[i]
    BY <1>5
  <2>2. CASE j \in DOMAIN s
    BY <1>1, <1>5, <2>1, <2>2 DEF Rising
  <2>3. CASE j \notin DOMAIN s
    <3>1. w[j] = x
      BY <1>5, <2>3
    <3>2. s[i] \in inputs
      BY <1>1, <2>1 DEF Elements
    <3> QED
      BY <2>1, <3>1, <3>2
  <2> QED
    BY <2>2, <2>3
<1>8. v = w
  <2> HIDE DEF v
  <2> QED
    BY <1>4, <1>5, <1>6, <1>7, RisingUnique
<1> QED
  BY <1>8 DEF w, s

\* The input with the lowest number comes first, and the rest follow.
LEMMA ByNumberTail ==
  ASSUME NEW inputs \in SUBSET Input, IsFiniteSet(inputs), NumbersDiffer(inputs),
         NEW x \in inputs, \A y \in inputs : y = x \/ x.id < y.id
  PROVE  /\ ByNumber(inputs) # <<>> /\ Head(ByNumber(inputs)) = x
         /\ ByNumber(inputs \ {x}) = Tail(ByNumber(inputs))
<1> DEFINE s == ByNumber(inputs)
           v == ByNumber(inputs \ {x})
           w == Tail(s)
<1>1. s \in Seq(Input) /\ Elements(s) = inputs /\ Rising(s)
  BY ByNumberRises
<1>2. IsFiniteSet(inputs \ {x}) /\ inputs \ {x} \in SUBSET Input /\ NumbersDiffer(inputs \ {x})
  BY FS_RemoveElement DEF NumbersDiffer
<1>3. v \in Seq(Input) /\ Elements(v) = inputs \ {x} /\ Rising(v)
  BY <1>2, ByNumberRises
<1> HIDE DEF s
<1>4. \A y \in inputs : y.id \in Nat
  BY DEF Input
<1>5. /\ DOMAIN s = 1 .. Len(s) /\ Len(s) \in Nat
      /\ 1 \in DOMAIN s /\ s # <<>>
  BY <1>1 DEF Elements
<1>6. s[1] = x
  <2>1. PICK n \in DOMAIN s : s[n] = x
    BY <1>1 DEF Elements
  <2>2. s[1] \in inputs
    BY <1>1, <1>5 DEF Elements
  <2>3. CASE n > 1
    <3>1. s[1].id < x.id
      BY <1>1, <1>5, <2>1, <2>3 DEF Rising
    <3>2. s[1].id \in Nat /\ x.id \in Nat
      BY <1>4, <2>2
    <3>3. s[1] = x \/ x.id < s[1].id
      BY <2>2
    <3> QED
      BY <3>1, <3>2, <3>3
  <2> QED
    BY <1>5, <2>1, <2>3
<1>7. /\ w \in Seq(Input) /\ DOMAIN w = 1 .. Len(s) - 1
      /\ \A i \in DOMAIN w : i + 1 \in DOMAIN s /\ w[i] = s[i + 1]
      /\ Head(s) = s[1]
  BY <1>1, <1>5, HeadTailProperties
<1> HIDE DEF w
<1>8. Rising(w)
  <2> SUFFICES ASSUME NEW i \in DOMAIN w, NEW j \in DOMAIN w, i < j
               PROVE  w[i].id < w[j].id
    BY DEF Rising
  <2>1. /\ i + 1 \in DOMAIN s /\ w[i] = s[i + 1] /\ j + 1 \in DOMAIN s
        /\ w[j] = s[j + 1] /\ i + 1 < j + 1
    BY <1>5, <1>7
  <2> QED
    BY <1>1, <2>1 DEF Rising
<1>9. Elements(w) = inputs \ {x}
  <2>1. ASSUME NEW i \in DOMAIN w PROVE w[i] \in inputs \ {x}
    <3>1. w[i] = s[i + 1] /\ i + 1 \in DOMAIN s /\ 1 < i + 1
      BY <1>5, <1>7
    <3>2. w[i] \in inputs /\ x.id < w[i].id
      BY <1>1, <1>5, <1>6, <3>1 DEF Elements, Rising
    <3> QED
      BY <1>4, <3>2
  <2>2. ASSUME NEW y \in inputs, y # x PROVE \E i \in DOMAIN w : w[i] = y
    <3>1. PICK n \in DOMAIN s : s[n] = y
      BY <1>1 DEF Elements
    <3>2. n \in Nat /\ n # 1 /\ n - 1 \in DOMAIN w
      BY <1>5, <1>6, <1>7, <2>2, <3>1
    <3>3. w[n - 1] = s[(n - 1) + 1] /\ (n - 1) + 1 = n
      BY <1>7, <3>2
    <3> QED
      BY <3>1, <3>2, <3>3
  <2> QED
    BY <2>1, <2>2 DEF Elements
<1>10. v = w
  <2> HIDE DEF v
  <2> QED
    BY <1>3, <1>7, <1>8, <1>9, RisingUnique
<1> QED
  BY <1>5, <1>6, <1>7, <1>10 DEF s, w

-----------------------------------------------------------------------------
(* The invariant behind the order.                                         *)

\* Inputs are numbered as they are issued, and the one in the hook thread's
\* hands is the latest, of this generation and within the limit of its kind.
Numbering ==
  /\ posted <= issued /\ issued <= MaxInputs
  /\ hook.at # "idle" => /\ Id(hook.callback) = issued /\ posted < issued
                         /\ hook.callback.generation = generation
  /\ hook.at \in {"reserved", "inserted"} =>
       Cardinality(unreleased) <= Limit(hook.callback.input.kind)

\* No callback is of a generation to come.
Earlier ==
  /\ \A s \in Slots : slots[s].generation <= generation
  /\ ui.callback.generation <= generation

\* Each message on its way names a filled slot, and they rise by number from
\* the callback the UI thread has taken to the one the hook thread holds.
SlotsInOrder ==
  /\ hook.at = "inserted" => slots[hook.slot] = hook.callback
  /\ \A i \in DOMAIN Route : slots[Route[i]] # Empty /\ Id(slots[Route[i]]) <= posted
  /\ \A i, j \in DOMAIN Route : i < j => Id(slots[Route[i]]) < Id(slots[Route[j]])
  /\ ui.at = "taken" => /\ Id(ui.callback) \in unreleased /\ Id(ui.callback) <= posted
                        /\ \A i \in DOMAIN Route : Id(ui.callback) < Id(slots[Route[i]])

\* The order is that of an open queue; a closed one hands over nothing.
InOrder ==
  IF life = "open" THEN SlotsInOrder
  ELSE ui.at = "idle" \/ (life = "closed" /\ ui.at = "loop")

QInv == IInv /\ Numbering /\ Earlier /\ InOrder

\* The route is a sequence of slots.
LEMMA RouteType ==
  ASSUME SlotsType
  PROVE  /\ Route \in Seq(Slots) /\ Len(Route) \in Nat
         /\ DOMAIN Route = 1 .. Len(Route)
         /\ \A i \in DOMAIN Route : Route[i] \in Slots
<1>1. Route \in Seq(Slots)
  BY ConcatProperties DEF Route, SlotsType
<1> HIDE DEF Route
<1> QED
  BY <1>1, ElementOfSeq, LenProperties

\* The head is the first element.
LEMMA HeadIsFirst ==
  ASSUME NEW S, NEW s \in Seq(S), s # <<>>
  PROVE  1 \in DOMAIN s /\ Head(s) = s[1]
BY EmptySeq, LenProperties

\* A sequence is its head and its tail.
LEMMA HeadAndTail ==
  ASSUME NEW S, NEW h \in S, NEW r \in Seq(S)
  PROVE  /\ <<h>> \o r \in Seq(S) /\ <<h>> \o r # <<>>
         /\ Head(<<h>> \o r) = h /\ Tail(<<h>> \o r) = r
<1> DEFINE one == <<h>>
           s == one \o r
<1>1. one \in Seq(S) /\ Len(one) = 1 /\ one[1] = h /\ Len(r) \in Nat
  BY LenProperties
<1> HIDE DEF one
<1>2. s \in Seq(S) /\ Len(s) = 1 + Len(r)
  BY <1>1, ConcatProperties
<1>3. \A i \in 1 .. 1 + Len(r) : s[i] = IF i <= Len(one) THEN one[i] ELSE r[i - Len(one)]
  BY <1>1, ConcatProperties
<1>4. s[1] = h /\ \A i \in 1 .. Len(r) : s[i + 1] = r[i]
  <2>1. 1 \in 1 .. 1 + Len(r) /\ 1 <= Len(one)
    BY <1>1
  <2>2. ASSUME NEW i \in 1 .. Len(r) PROVE s[i + 1] = r[i]
    <3>1. i + 1 \in 1 .. 1 + Len(r) /\ ~(i + 1 <= Len(one)) /\ (i + 1) - Len(one) = i
      BY <1>1
    <3> HIDE DEF s
    <3> QED
      BY <1>3, <3>1
  <2> HIDE DEF s
  <2> QED
    BY <1>1, <1>3, <2>1, <2>2
<1> HIDE DEF s
<1>5. s # <<>> /\ Head(s) = s[1]
  BY <1>1, <1>2
<1>6. /\ Tail(s) \in Seq(S) /\ Len(Tail(s)) = Len(r)
      /\ \A i \in 1 .. Len(r) : Tail(s)[i] = s[i + 1]
  <2>1. /\ Tail(s) \in Seq(S) /\ Len(Tail(s)) = Len(s) - 1
        /\ \A i \in 1 .. Len(Tail(s)) : Tail(s)[i] = s[i + 1]
    BY <1>2, <1>5, HeadTailProperties
  <2>2. Len(Tail(s)) = Len(r)
    BY <1>1, <1>2, <2>1
  <2> QED
    BY <2>1, <2>2
<1>7. Tail(s) = r
  BY <1>4, <1>6, SeqEqual
<1> QED
  BY <1>2, <1>4, <1>5, <1>7 DEF s, one

\* And the other way round.
LEMMA HeadThenTail ==
  ASSUME NEW S, NEW s \in Seq(S), s # <<>>
  PROVE  Head(s) \in S /\ Tail(s) \in Seq(S) /\ s = <<Head(s)>> \o Tail(s)
<1> DEFINE h == Head(s)
           r == Tail(s)
           w == <<h>> \o r
<1>1. /\ h \in S /\ r \in Seq(S) /\ h = s[1] /\ Len(s) \in Nat /\ Len(r) = Len(s) - 1
      /\ \A i \in 1 .. Len(r) : r[i] = s[i + 1]
  BY HeadTailProperties, LenProperties
<1> HIDE DEF h, r
<1>2. w \in Seq(S) /\ w # <<>> /\ Head(w) = h /\ Tail(w) = r
  BY <1>1, HeadAndTail
<1> HIDE DEF w
<1>3. /\ Len(w) \in Nat /\ Head(w) = w[1] /\ Len(r) = Len(w) - 1
      /\ \A i \in 1 .. Len(r) : r[i] = w[i + 1]
  BY <1>2, HeadTailProperties, LenProperties
<1>4. Len(w) = Len(s)
  BY <1>1, <1>3
<1>5. ASSUME NEW i \in 1 .. Len(w) PROVE w[i] = s[i]
  <2>1. CASE i = 1
    BY <1>1, <1>2, <1>3, <2>1
  <2>2. CASE i # 1
    <3> DEFINE k == i - 1
    <3>1. k \in 1 .. Len(r) /\ k + 1 = i
      BY <1>3, <2>2
    <3>2. r[k] = w[k + 1] /\ r[k] = s[k + 1]
      BY <1>1, <1>3, <3>1
    <3> QED
      BY <3>1, <3>2
  <2> QED
    BY <2>1, <2>2
<1>6. w = s
  BY <1>2, <1>4, <1>5, SeqEqual
<1> QED
  BY <1>1, <1>6 DEF w, h, r

\* A message received goes from one half of the route to the other.
LEMMA MoveHead ==
  ASSUME NEW S, NEW p \in Seq(S), NEW q \in Seq(S), q # <<>>
  PROVE  Append(p, Head(q)) \o Tail(q) = p \o q
<1> DEFINE h == <<Head(q)>>
           r == Tail(q)
<1>0. Head(q) \in S /\ h \in Seq(S) /\ r \in Seq(S)
  BY HeadThenTail
<1>1. q = h \o r
  BY HeadThenTail
<1>2. Append(p, Head(q)) = p \o h
  BY <1>0, AppendIsConcat
<1> HIDE DEF h, r
<1>3. (p \o h) \o r = p \o (h \o r)
  BY <1>0, ConcatAssociative
<1> QED
  BY ONLY <1>1, <1>2, <1>3 DEF r

\* The first message leaves the route.
LEMMA DropHead ==
  ASSUME NEW S, NEW p \in Seq(S), NEW q \in Seq(S), p # <<>>
  PROVE  /\ p \o q # <<>> /\ Head(p \o q) = Head(p)
         /\ Tail(p) \o q = Tail(p \o q)
<1> DEFINE f == Head(p)
           h == <<f>>
           r == Tail(p)
           s == r \o q
<1>1. f \in S /\ h \in Seq(S) /\ r \in Seq(S) /\ p = h \o r
  BY HeadThenTail
<1>2. (h \o r) \o q = h \o s /\ s \in Seq(S)
  BY <1>1, ConcatAssociative, ConcatProperties
<1>3. h \o s # <<>> /\ Head(h \o s) = f /\ Tail(h \o s) = s
  <2> HIDE DEF f, s
  <2> QED
    BY <1>1, <1>2, HeadAndTail
<1>4. p \o q = h \o s
  <2> HIDE DEF h, r, s
  <2> QED
    BY ONLY <1>1, <1>2
<1> QED
  <2> HIDE DEF h
  <2> QED
    BY ONLY <1>3, <1>4 DEF f, s, r

\* A posted message goes to the end of the route.
LEMMA AddLast ==
  ASSUME NEW S, NEW p \in Seq(S), NEW q \in Seq(S), NEW x \in S
  PROVE  p \o Append(q, x) = Append(p \o q, x)
<1> DEFINE l == <<x>>
           r == p \o q
<1>1. l \in Seq(S) /\ r \in Seq(S)
  BY ConcatProperties
<1>2. Append(q, x) = q \o l /\ Append(r, x) = r \o l
  <2> HIDE DEF r
  <2> QED
    BY <1>1, AppendIsConcat DEF l
<1> HIDE DEF l
<1>3. r \o l = p \o (q \o l)
  BY <1>1, ConcatAssociative
<1> QED
  BY ONLY <1>2, <1>3 DEF r

\* The steps of the UI thread.
UiSteps ==
  \/ Receive \/ Reenter \/ OtherHandler \/ InvalidatePending
  \/ CloseForShutdown \/ UiProgress

\* The UI thread takes nothing from the hook thread's hands, adds no
\* reservation, and advances the generation only while the hook thread rests.
LEMMA UiFrame ==
  ASSUME UiSteps
  PROVE  /\ UNCHANGED <<issued, hook, posted>> /\ unreleased' \subseteq unreleased
         /\ generation' = generation \/ (generation' = generation + 1 /\ hook = HookIdle)
BY DEF UiSteps, Receive, Reenter, LeaveLoop, FinishHandler, OtherHandler, FinishOther,
       InvalidatePending, Dispose, InvalidateForDrop, TakeSlot, RunCallback,
       CloseForShutdown, DrainForDrop, UiProgress, hookVars, Release, Drain

\* Numbers are given out one by one, within the limits.
LEMMA NumberingStep == ASSUME IInv, Numbering, Next PROVE Numbering'
<1> USE DEF IInv
<1>0. /\ issued \in Nat /\ posted \in Nat /\ generation \in Nat
      /\ IsFiniteSet(unreleased) /\ Cardinality(unreleased) \in Nat
  BY FinitelyMany, FS_CardinalityType DEF TypeOK, CountsType
<1>1. ASSUME NEW kind \in Kinds, Refuse(kind) PROVE Numbering'
  <2>1. /\ hook'.at = "refusing" /\ Id(hook'.callback) = issued'
        /\ hook'.callback.generation = generation'
        /\ issued' = issued + 1 /\ posted' = posted /\ issued < MaxInputs
    BY <1>1 DEF Refuse, MayDispatch, Id
  <2> QED
    BY <1>0, <2>1, DispatcherAssumption DEF Numbering
<1>2. ASSUME NEW kind \in Kinds, Reserve(kind) PROVE Numbering'
  <2>1. /\ hook'.at = "reserved" /\ Id(hook'.callback) = issued'
        /\ hook'.callback.generation = generation' /\ hook'.callback.input.kind = kind
        /\ issued' = issued + 1 /\ posted' = posted /\ issued < MaxInputs
        /\ hook = HookIdle /\ pending + 1 <= Limit(kind)
        /\ unreleased' = unreleased \cup {issued'}
    BY <1>2 DEF Reserve, MayDispatch, Id
  <2>2. issued' \notin unreleased
    BY <1>0, <2>1 DEF TypeOK, CountsType
  <2>3. Cardinality(unreleased') = Cardinality(unreleased) + 1
    BY <1>0, <2>1, <2>2, FS_AddElement
  <2>4. pending = Cardinality(unreleased)
    BY <1>0, <2>1, IdType DEF Accounting
  <2>5. Cardinality(unreleased') <= Limit(hook'.callback.input.kind)
    BY <2>1, <2>3, <2>4
  <2> QED
    BY <1>0, <2>1, <2>5, DispatcherAssumption DEF Numbering, Limit
<1>3. ASSUME GiveBack \/ Post \/ PostFails \/ (Insert /\ Free = {}) PROVE Numbering'
  <2>1. hook' = HookIdle /\ issued' = issued
        /\ (posted' = posted \/ (posted' = Id(hook.callback) /\ hook.at = "inserted"))
    BY <1>3 DEF GiveBack, Post, PostFails, Insert
  <2> QED
    BY <1>0, <2>1, IdType DEF Numbering
<1>4. ASSUME Insert, Free # {} PROVE Numbering'
  <2>1. /\ hook'.at = "inserted" /\ hook'.callback = hook.callback
        /\ UNCHANGED <<issued, posted, generation, unreleased>> /\ hook.at = "reserved"
    BY <1>4 DEF Insert
  <2> QED
    BY <2>1 DEF Numbering, Limit
<1>5. ASSUME UiSteps PROVE Numbering'
  <2>1. /\ UNCHANGED <<issued, hook, posted>> /\ unreleased' \subseteq unreleased
        /\ generation' = generation \/ hook = HookIdle
    BY <1>5, UiFrame
  <2>2. Cardinality(unreleased') <= Cardinality(unreleased) /\ Cardinality(unreleased') \in Nat
    BY <1>0, <2>1, FS_Subset, FS_CardinalityType
  <2>3. \A kind : Limit(kind) \in Nat
    BY DispatcherAssumption DEF Limit
  <2>4. hook.at \in {"reserved", "inserted"} =>
          Cardinality(unreleased') <= Limit(hook.callback.input.kind)
    <3> SUFFICES ASSUME Cardinality(unreleased) <= Limit(hook.callback.input.kind)
                 PROVE  Cardinality(unreleased') <= Limit(hook.callback.input.kind)
      BY DEF Numbering
    <3> QED
      BY <1>0, <2>2, <2>3
  <2> QED
    BY <2>1, <2>4, IdType DEF Numbering, Limit
<1> QED
  BY <1>1, <1>2, <1>3, <1>4, <1>5 DEF Next, HookProgress, UiSteps

\* A callback keeps its generation wherever it goes.
LEMMA EarlierStep == ASSUME IInv, Numbering, Earlier, Next PROVE Earlier'
<1>0. /\ generation \in Nat /\ hook.callback.generation \in Nat
      /\ ui.callback.generation \in Nat /\ Empty.generation = 0
      /\ \A s \in Slots : slots[s].generation \in Nat
  BY DEF IInv, TypeOK, CountsType, SlotsType, ThreadsType, Callback, Empty
<1>1. ASSUME NEW kind \in Kinds, Refuse(kind) \/ Reserve(kind) PROVE Earlier'
  BY <1>1 DEF Refuse, Reserve, Earlier, uiVars
<1>2. ASSUME GiveBack \/ Post PROVE Earlier'
  BY <1>2 DEF GiveBack, Post, Earlier, uiVars
<1>3. ASSUME PostFails PROVE Earlier'
  <2>1. /\ \A s \in Slots : slots'[s] \in {slots[s], Empty}
        /\ generation' = generation /\ ui' = ui
    BY <1>3 DEF PostFails, uiVars, IInv, TypeOK, SlotsType
  <2> QED
    BY <1>0, <2>1 DEF Earlier
<1>4. ASSUME Insert PROVE Earlier'
  <2>1. generation' = generation /\ ui' = ui /\ hook.callback.generation = generation
    BY <1>4 DEF Insert, uiVars, Numbering
  <2>2. \A s \in Slots : slots'[s] \in {slots[s], hook.callback}
    <3>1. slots' = slots \/ \E f : slots' = [slots EXCEPT ![f] = hook.callback]
      BY <1>4 DEF Insert
    <3> QED
      BY <3>1 DEF IInv, TypeOK, SlotsType
  <2> QED
    BY <1>0, <2>1, <2>2 DEF Earlier
<1>5. ASSUME UiSteps PROVE Earlier'
  <2>1. generation' \in Nat /\ generation' >= generation
    BY <1>0, <1>5, UiFrame
  <2>2. /\ ui'.callback = ui.callback \/ ui'.callback = Empty
             \/ (TakeSlot /\ ui'.callback = slots[Head(inbox)])
    BY <1>5 DEF UiSteps, Receive, Reenter, LeaveLoop, FinishHandler, OtherHandler,
       FinishOther, InvalidatePending, Dispose, InvalidateForDrop, TakeSlot, RunCallback,
       CloseForShutdown, DrainForDrop, UiProgress, uiVars, Ui
  <2>3. \A s \in Slots : slots'[s] \in {slots[s], Empty}
    <3>1. CASE TakeSlot
      BY <3>1 DEF TakeSlot, IInv, TypeOK, SlotsType
    <3>2. CASE ~TakeSlot
      BY <1>5, <3>2 DEF UiSteps, Receive, Reenter, LeaveLoop, FinishHandler, OtherHandler,
         FinishOther, InvalidatePending, Dispose, InvalidateForDrop, RunCallback,
         CloseForShutdown, DrainForDrop, UiProgress, uiVars, Drain
    <3> QED
      BY <3>1, <3>2
  <2>4. TakeSlot => Head(inbox) \in Slots
    BY DEF TakeSlot, IInv, TypeOK, SlotsType
  <2>5. ui'.callback.generation \in Nat /\ ui'.callback.generation <= generation
    BY <1>0, <2>2, <2>4 DEF Earlier
  <2>6. \A s \in Slots : slots'[s].generation \in Nat /\ slots'[s].generation <= generation
    BY <1>0, <2>3 DEF Earlier
  <2>7. \A g \in Nat : g <= generation => g <= generation'
    BY <1>0, <2>1
  <2> QED
    BY <2>5, <2>6, <2>7 DEF Earlier
<1> QED
  BY <1>1, <1>2, <1>3, <1>4, <1>5 DEF Next, HookProgress, UiSteps

\* Steps that leave the route and the slots along it alone keep the order.
LEMMA OrderFrame ==
  ASSUME SlotsInOrder, Route' = Route, posted' = posted,
         \A i \in DOMAIN Route : slots'[Route[i]] = slots[Route[i]],
         hook'.at = "inserted" => slots'[hook'.slot] = hook'.callback,
         ui'.at = "taken" => /\ ui.at = "taken" /\ ui'.callback = ui.callback
                             /\ Id(ui.callback) \in unreleased'
  PROVE  SlotsInOrder'
<1> HIDE DEF Route
<1> QED
  BY DEF SlotsInOrder

\* The hook thread fills a slot no message names, and posts at the end.
LEMMA HookInOrder ==
  ASSUME IInv, Numbering, SlotsInOrder,
         (\E kind \in Kinds : Refuse(kind) \/ Reserve(kind)) \/ HookProgress
  PROVE  SlotsInOrder'
<1> USE DEF IInv
<1>0. /\ issued \in Nat /\ posted \in Nat /\ SlotsType
      /\ Route \in Seq(Slots) /\ Len(Route) \in Nat /\ DOMAIN Route = 1 .. Len(Route)
      /\ \A i \in DOMAIN Route : Route[i] \in Slots
      /\ \A i \in DOMAIN Route : Id(slots[Route[i]]) \in Nat
      /\ Id(ui.callback) \in Nat
  <2>1. \A c \in Callback \cup {Empty} : Id(c) \in Nat
    BY IdType
  <2> QED
    BY <2>1, RouteType DEF TypeOK, CountsType, SlotsType, ThreadsType
<1>1. ASSUME NEW kind \in Kinds, Refuse(kind) \/ Reserve(kind) PROVE SlotsInOrder'
  <2>1. /\ Route' = Route /\ slots' = slots /\ posted' = posted /\ ui' = ui
        /\ unreleased \subseteq unreleased' /\ hook'.at # "inserted"
    BY <1>1 DEF Refuse, Reserve, uiVars, Route
  <2> QED
    BY <2>1, OrderFrame DEF SlotsInOrder
<1>2. ASSUME GiveBack PROVE SlotsInOrder'
  <2>1. /\ Route' = Route /\ slots' = slots /\ posted' = posted /\ ui' = ui
        /\ unreleased' = unreleased /\ hook'.at # "inserted"
    BY <1>2, IdType DEF GiveBack, uiVars, Route
  <2> QED
    BY <2>1, OrderFrame DEF SlotsInOrder
<1>3. ASSUME Insert PROVE SlotsInOrder'
  <2>0. Route' = Route /\ posted' = posted /\ ui' = ui
    BY <1>3 DEF Insert, uiVars, Route
  <2>1. CASE Free = {}
    <3>1. /\ slots' = slots /\ hook'.at # "inserted"
          /\ unreleased' = unreleased \ {Id(hook.callback)}
      BY <1>3, <2>1, IdType DEF Insert, Release
    <3>2. ui.at = "taken" => Id(ui.callback) \in unreleased'
      BY <1>0, <1>3, <3>1 DEF SlotsInOrder, Numbering, Insert
    <3> QED
      BY <2>0, <3>1, <3>2, OrderFrame
  <2>2. CASE Free # {}
    <3>1. PICK f \in Free : /\ slots' = [slots EXCEPT ![f] = hook.callback]
                            /\ hook'.slot = f /\ hook'.callback = hook.callback
                            /\ unreleased' = unreleased
      <4> DEFINE first == CHOOSE s \in Free : \A t \in Free : s <= t
      <4>1. first \in Free
        BY <2>2, SmallestFree DEF Free
      <4>2. /\ slots' = [slots EXCEPT ![first] = hook.callback]
            /\ hook' = [at |-> "inserted", slot |-> first, callback |-> hook.callback]
            /\ unreleased' = unreleased
        BY <1>3, <2>2 DEF Insert
      <4> HIDE DEF first
      <4> QED
        BY <4>1, <4>2
    <3>2. f \in Slots /\ slots[f] = Empty
      BY DEF Free
    <3>3. slots'[f] = hook.callback /\ \A s \in Slots : s # f => slots'[s] = slots[s]
      BY <1>0, <3>1, <3>2 DEF SlotsType
    <3>4. \A i \in DOMAIN Route : slots'[Route[i]] = slots[Route[i]]
      BY <1>0, <3>2, <3>3 DEF SlotsInOrder
    <3>5. ui.at = "taken" => Id(ui.callback) \in unreleased'
      BY <3>1 DEF SlotsInOrder
    <3> QED
      BY <2>0, <3>1, <3>3, <3>4, <3>5, OrderFrame
  <2> QED
    BY <2>1, <2>2
<1>4. ASSUME Post PROVE SlotsInOrder'
  <2> DEFINE l == Len(Route) + 1
  <2>1. /\ hook.slot \in Slots /\ slots[hook.slot] = hook.callback
        /\ Id(hook.callback) = issued /\ posted < issued /\ hook.callback # Empty
    BY <1>4 DEF Post, SlotsInOrder, Numbering, SlotsOwnReservations, TypeOK, ThreadsType
  <2>2. /\ messages' = Append(messages, hook.slot) /\ posted' = issued
        /\ UNCHANGED <<slots, ui, inbox, unreleased>> /\ hook'.at # "inserted"
    BY <1>4, <2>1, IdType DEF Post, uiVars
  <2>3. Route' = Append(Route, hook.slot)
    BY <1>0, <2>1, <2>2, AddLast DEF Route, SlotsType
  <2>4. /\ Len(Route') = l /\ DOMAIN Route' = 1 .. l
        /\ \A i \in DOMAIN Route : Route'[i] = Route[i] /\ i < l
        /\ Route'[l] = hook.slot
    <3> HIDE DEF Route
    <3> QED
      BY <1>0, <2>1, <2>3, AppendProperties
  <2>5. \A i \in DOMAIN Route' : i \in DOMAIN Route \/ i = l
    BY <1>0, <2>4
  <2> HIDE DEF Route, l
  <2>6. \A i \in DOMAIN Route : slots'[Route'[i]] = slots[Route[i]]
    BY <2>2, <2>4
  <2>7. slots'[Route'[l]] = hook.callback
    BY <2>1, <2>2, <2>4
  <2>8. \A i \in DOMAIN Route : Id(slots[Route[i]]) < issued /\ Id(slots[Route[i]]) <= issued
    BY <1>0, <2>1 DEF SlotsInOrder
  <2>9. \A i \in DOMAIN Route' :
          slots'[Route'[i]] # Empty /\ Id(slots'[Route'[i]]) <= posted'
    <3> SUFFICES ASSUME NEW i \in DOMAIN Route'
                 PROVE  slots'[Route'[i]] # Empty /\ Id(slots'[Route'[i]]) <= posted'
      OBVIOUS
    <3>1. CASE i \in DOMAIN Route
      BY <2>2, <2>6, <2>8, <3>1 DEF SlotsInOrder
    <3>2. CASE i = l
      BY <1>0, <2>1, <2>2, <2>7, <3>2
    <3> QED
      BY <2>5, <3>1, <3>2
  <2>10. ASSUME NEW i \in DOMAIN Route', NEW j \in DOMAIN Route', i < j
         PROVE  Id(slots'[Route'[i]]) < Id(slots'[Route'[j]])
    <3>1. i \in DOMAIN Route
      BY <1>0, <2>4, <2>10 DEF l
    <3>2. CASE j \in DOMAIN Route
      BY <2>6, <2>10, <3>1, <3>2 DEF SlotsInOrder
    <3>3. CASE j = l
      BY <2>1, <2>6, <2>7, <2>8, <3>1, <3>3
    <3> QED
      BY <2>5, <3>2, <3>3
  <2>11. ui.at = "taken" =>
           /\ Id(ui.callback) \in unreleased' /\ Id(ui.callback) <= posted'
           /\ \A i \in DOMAIN Route' : Id(ui.callback) < Id(slots'[Route'[i]])
    <3> SUFFICES ASSUME ui.at = "taken"
                 PROVE  /\ Id(ui.callback) \in unreleased' /\ Id(ui.callback) <= posted'
                        /\ \A i \in DOMAIN Route' : Id(ui.callback) < Id(slots'[Route'[i]])
      OBVIOUS
    <3>1. Id(ui.callback) \in unreleased /\ Id(ui.callback) < issued
      BY <1>0, <2>1 DEF SlotsInOrder
    <3>2. \A i \in DOMAIN Route' : Id(ui.callback) < Id(slots'[Route'[i]])
      <4> SUFFICES ASSUME NEW i \in DOMAIN Route'
                   PROVE  Id(ui.callback) < Id(slots'[Route'[i]])
        OBVIOUS
      <4>1. CASE i \in DOMAIN Route
        BY <2>6, <4>1 DEF SlotsInOrder
      <4>2. CASE i = l
        BY <2>1, <2>7, <3>1, <4>2
      <4> QED
        BY <2>5, <4>1, <4>2
    <3> QED
      BY <1>0, <2>2, <3>1, <3>2
  <2> QED
    BY <2>2, <2>9, <2>10, <2>11 DEF SlotsInOrder
<1>5. ASSUME PostFails PROVE SlotsInOrder'
  <2>1. /\ hook.slot \in Slots /\ slots[hook.slot] = hook.callback
        /\ Id(hook.callback) = issued /\ posted < issued
    BY <1>5 DEF PostFails, SlotsInOrder, Numbering, SlotsOwnReservations, TypeOK, ThreadsType
  <2>2. /\ slots' = [slots EXCEPT ![hook.slot] = Empty] /\ Route' = Route
        /\ posted' = posted /\ ui' = ui /\ hook'.at # "inserted"
        /\ unreleased' = unreleased \ {issued}
    BY <1>5, <2>1, IdType DEF PostFails, Release, uiVars, Route
  <2>3. \A i \in DOMAIN Route : Route[i] # hook.slot
    BY <1>0, <2>1 DEF SlotsInOrder
  <2>4. \A i \in DOMAIN Route : slots'[Route[i]] = slots[Route[i]]
    BY <1>0, <2>1, <2>2, <2>3 DEF SlotsType
  <2>5. ui.at = "taken" => Id(ui.callback) \in unreleased'
    BY <1>0, <2>1, <2>2 DEF SlotsInOrder
  <2> QED
    BY <2>2, <2>4, <2>5, OrderFrame
<1> QED
  BY <1>1, <1>2, <1>3, <1>4, <1>5 DEF HookProgress

\* A message received stays on the route; that of the first slot leaves it
\* with the callback.
LEMMA UiInOrder == ASSUME IInv, Numbering, InOrder, UiSteps PROVE InOrder'
<1> USE DEF IInv
<1>0. /\ SlotsType /\ Route \in Seq(Slots) /\ Len(Route) \in Nat
      /\ DOMAIN Route = 1 .. Len(Route) /\ \A i \in DOMAIN Route : Route[i] \in Slots
  BY RouteType DEF TypeOK
<1>1. UNCHANGED <<issued, hook, posted>>
  BY UiFrame
<1>2. CASE life # "open"
  BY <1>2 DEF InOrder, UiSteps, Receive, Reenter, LeaveLoop, FinishHandler, OtherHandler,
     FinishOther, InvalidatePending, Dispose, InvalidateForDrop, TakeSlot, RunCallback,
     CloseForShutdown, DrainForDrop, UiProgress, uiVars, Ui, Serving
<1>3. ASSUME CloseForShutdown PROVE InOrder'
  BY <1>3 DEF CloseForShutdown, InOrder, uiVars
<1>4. ASSUME life = "open", Receive \/ Reenter PROVE InOrder'
  <2>1. /\ messages \in Seq(Slots) /\ inbox \in Seq(Slots) /\ messages # <<>>
        /\ messages' = Tail(messages) /\ inbox' = Append(inbox, Head(messages))
    BY <1>0, <1>4 DEF Receive, Reenter, SlotsType
  <2>2. Route' = Route
    BY ONLY <2>1, MoveHead DEF Route
  <2>3. /\ UNCHANGED <<slots, unreleased, life>> /\ (ui' = ui \/ ui'.at # "taken")
    BY <1>4 DEF Receive, Reenter, Ui
  <2>4. SlotsInOrder
    BY <1>4 DEF InOrder
  <2>5. SlotsInOrder'
    BY <1>1, <2>2, <2>3, <2>4, OrderFrame DEF SlotsInOrder
  <2> QED
    BY <1>4, <2>3, <2>5 DEF InOrder
<1>5. ASSUME life = "open",
             LeaveLoop \/ FinishHandler \/ OtherHandler \/ FinishOther
               \/ InvalidatePending \/ RunCallback
      PROVE  InOrder'
  <2>1. /\ UNCHANGED <<slots, life>> /\ Route' = Route
        /\ ui'.at # "taken" \/ (ui' = ui /\ unreleased' = unreleased)
    BY <1>5 DEF LeaveLoop, FinishHandler, OtherHandler, FinishOther, InvalidatePending,
       RunCallback, Ui, uiVars, Route
  <2>2. SlotsInOrder
    BY <1>5 DEF InOrder
  <2>3. SlotsInOrder'
    BY <1>1, <2>1, <2>2, OrderFrame DEF SlotsInOrder
  <2> QED
    BY <1>5, <2>1, <2>3 DEF InOrder
<1>6. ASSUME life = "open", TakeSlot PROVE InOrder'
  <2>0. SlotsInOrder
    BY <1>6 DEF InOrder
  <2>1. inbox # <<>> /\ inbox \in Seq(Slots) /\ messages \in Seq(Slots)
    BY <1>0, <1>6 DEF TakeSlot, SlotsType
  <2>2. Route # <<>> /\ Head(Route) = Head(inbox) /\ Tail(inbox) \o messages = Tail(Route)
    BY ONLY <2>1, DropHead DEF Route
  <2>3. inbox' = Tail(inbox) /\ messages' = messages
    BY <1>6 DEF TakeSlot
  <2>4. Route' = Tail(Route)
    BY ONLY <2>2, <2>3 DEF Route
  <2> HIDE DEF Route
  <2>5. /\ 1 \in DOMAIN Route /\ Route[1] = Head(inbox) /\ Route[1] \in Slots
        /\ \A i \in DOMAIN Route' : /\ i + 1 \in DOMAIN Route /\ Route'[i] = Route[i + 1]
                                    /\ i \in Nat /\ 1 < i + 1
    <3>1. 1 \in DOMAIN Route /\ Route[1] = Head(inbox)
      <4>1. 1 \in DOMAIN Route /\ Head(Route) = Route[1]
        BY ONLY <1>0, <2>2, HeadIsFirst
      <4> QED
        BY ONLY <2>2, <4>1
    <3>2. /\ Tail(Route) \in Seq(Slots) /\ Len(Tail(Route)) = Len(Route) - 1
          /\ \A i \in 1 .. Len(Tail(Route)) : Tail(Route)[i] = Route[i + 1]
      BY <1>0, <2>2, HeadTailProperties
    <3>3. DOMAIN Tail(Route) = 1 .. Len(Tail(Route))
      BY <3>2, LenProperties
    <3>4. \A i \in 1 .. Len(Tail(Route)) : i + 1 \in DOMAIN Route /\ i \in Nat /\ 1 < i + 1
      BY <1>0, <3>2
    <3> QED
      BY <1>0, <2>4, <3>1, <3>2, <3>3, <3>4
  <2>6. /\ ui' = [at |-> "taken", callback |-> slots[Route[1]]]
        /\ slots' = [slots EXCEPT ![Route[1]] = Empty]
        /\ UNCHANGED <<unreleased, life>>
    BY <1>6, <2>0, <2>5 DEF TakeSlot, SlotsInOrder
  <2>7. \A i \in DOMAIN Route' : slots'[Route'[i]] = slots[Route[i + 1]]
    <3> SUFFICES ASSUME NEW i \in DOMAIN Route'
                 PROVE  slots'[Route'[i]] = slots[Route[i + 1]]
      OBVIOUS
    <3>1. Route[i + 1] # Route[1]
      <4>1. Id(slots[Route[1]]) < Id(slots[Route[i + 1]])
        BY <2>0, <2>5 DEF SlotsInOrder
      <4>2. Id(slots[Route[1]]) \in Nat
        BY <1>0, <2>5, IdType DEF SlotsType
      <4> QED
        BY <4>1, <4>2
    <3>2. Route[i + 1] \in Slots
      BY <1>0, <2>5
    <3> QED
      BY <1>0, <2>5, <2>6, <3>1, <3>2 DEF SlotsType
  <2>8. /\ \A i \in DOMAIN Route' :
             slots'[Route'[i]] # Empty /\ Id(slots'[Route'[i]]) <= posted'
        /\ \A i \in DOMAIN Route' : Id(ui'.callback) < Id(slots'[Route'[i]])
        /\ \A i, j \in DOMAIN Route' : i < j =>
             Id(slots'[Route'[i]]) < Id(slots'[Route'[j]])
    <3>1. \A i \in DOMAIN Route' :
             slots'[Route'[i]] # Empty /\ Id(slots'[Route'[i]]) <= posted'
      BY <1>1, <2>0, <2>5, <2>7 DEF SlotsInOrder
    <3>2. \A i \in DOMAIN Route' : Id(ui'.callback) < Id(slots'[Route'[i]])
      BY <2>0, <2>5, <2>6, <2>7 DEF SlotsInOrder
    <3>3. ASSUME NEW i \in DOMAIN Route', NEW j \in DOMAIN Route', i < j
          PROVE  Id(slots'[Route'[i]]) < Id(slots'[Route'[j]])
      <4>1. i + 1 < j + 1
        BY <2>5, <3>3
      <4> QED
        BY <2>0, <2>5, <2>7, <4>1 DEF SlotsInOrder
    <3> QED
      BY <3>1, <3>2, <3>3
  <2>9. Id(ui'.callback) \in unreleased' /\ Id(ui'.callback) <= posted'
    BY <1>1, <2>0, <2>5, <2>6 DEF SlotsInOrder, SlotsOwnReservations
  <2>10. hook'.at = "inserted" => slots'[hook'.slot] = hook'.callback
    <3> SUFFICES ASSUME hook.at = "inserted" PROVE slots'[hook.slot] = hook.callback
      BY <1>1
    <3>1. hook.slot \in Slots /\ slots[hook.slot] = hook.callback
      BY <2>0 DEF SlotsInOrder, SlotsOwnReservations, TypeOK, ThreadsType
    <3>2. hook.slot # Route[1]
      <4>1. Id(slots[Route[1]]) <= posted
        BY <2>0, <2>5 DEF SlotsInOrder
      <4>2. Id(hook.callback) = issued /\ posted < issued
        BY DEF Numbering
      <4>3. Id(slots[Route[1]]) \in Nat /\ posted \in Nat /\ issued \in Nat
        BY <1>0, <2>5, IdType DEF SlotsType, TypeOK, CountsType
      <4> QED
        BY <3>1, <4>1, <4>2, <4>3
    <3> QED
      BY <1>0, <2>5, <2>6, <3>1, <3>2 DEF SlotsType
  <2>11. SlotsInOrder'
    BY <2>8, <2>9, <2>10 DEF SlotsInOrder
  <2> QED
    BY <1>6, <2>6, <2>11 DEF InOrder
<1> QED
  BY <1>2, <1>3, <1>4, <1>5, <1>6
     DEF UiSteps, UiProgress, Dispose, InvalidateForDrop, DrainForDrop

\* Every step keeps the order.
LEMMA OrderStep == ASSUME QInv, [Next]_vars PROVE QInv'
<1> USE DEF QInv
<1>1. IInv'
  BY Invariance
<1>2. CASE UNCHANGED vars
  BY <1>1, <1>2 DEF vars, hookVars, uiVars, Numbering, Earlier, InOrder, SlotsInOrder, Route, Limit
<1>3. CASE Next
  <2>1. Numbering' /\ Earlier'
    BY <1>3, NumberingStep, EarlierStep
  <2>2. CASE UiSteps
    BY <1>1, <2>1, <2>2, UiInOrder
  <2>3. CASE (\E kind \in Kinds : Refuse(kind) \/ Reserve(kind)) \/ HookProgress
    <3>1. ui' = ui /\ life' = life
      BY <2>3 DEF Refuse, Reserve, HookProgress, GiveBack, Insert, Post, PostFails, uiVars
    <3> QED
      BY <1>1, <2>1, <2>3, <3>1, HookInOrder DEF InOrder
  <2> QED
    BY <1>3, <2>2, <2>3 DEF Next, UiSteps
<1> QED
  BY <1>2, <1>3

-----------------------------------------------------------------------------
(* The refinement.                                                         *)

\* What is on its way is in the UI thread's hands or in a slot of the route.
LEMMA InboundIs ==
  \A c : c \in Inbound <=> \/ ui.at = "taken" /\ c = ui.callback
                           \/ \E i \in DOMAIN Route : c = slots[Route[i]]
BY DEF Inbound

\* The inputs on their way are finitely many, told apart by their numbers,
\* already posted and not yet released.
LEMMA OnTheWayType ==
  ASSUME QInv, life = "open"
  PROVE  /\ OnTheWay \in SUBSET Input /\ IsFiniteSet(OnTheWay) /\ NumbersDiffer(OnTheWay)
         /\ \A x \in OnTheWay : x.id \in unreleased /\ x.id <= posted
         /\ \A c \in Inbound : c \in Callback
<1> USE DEF QInv, IInv
<1>0. SlotsInOrder /\ \A i \in DOMAIN Route : Route[i] \in Slots
  BY RouteType DEF InOrder, TypeOK
<1>1. ASSUME NEW c \in Inbound
      PROVE  c \in Callback /\ Id(c) \in unreleased /\ Id(c) <= posted
  <2>1. CASE ui.at = "taken" /\ c = ui.callback
    BY <1>0, <2>1 DEF SlotsInOrder, SlotsOwnReservations, TypeOK, ThreadsType
  <2>2. CASE \E i \in DOMAIN Route : c = slots[Route[i]]
    <3>1. PICK i \in DOMAIN Route : c = slots[Route[i]]
      BY <2>2
    <3>2. c # Empty /\ Id(c) <= posted
      BY <1>0, <3>1 DEF SlotsInOrder
    <3> QED
      BY <1>0, <3>1, <3>2 DEF SlotsOwnReservations, TypeOK, SlotsType
  <2> QED
    BY <2>1, <2>2, InboundIs
<1>2. \A c \in Callback : Id(c) \in Nat
  BY IdType
<1>3. ASSUME NEW c \in Inbound, NEW d \in Inbound, Id(c) = Id(d) PROVE c = d
  <2>0. Id(c) \in Nat
    BY <1>1, <1>2
  <2>1. CASE ui.at = "taken" /\ (c = ui.callback \/ d = ui.callback)
    BY <1>0, <1>3, <2>0, <2>1, InboundIs DEF SlotsInOrder
  <2>2. CASE ~(ui.at = "taken" /\ (c = ui.callback \/ d = ui.callback))
    <3>1. PICK i \in DOMAIN Route : c = slots[Route[i]]
      BY <2>2, InboundIs
    <3>2. PICK j \in DOMAIN Route : d = slots[Route[j]]
      BY <2>2, InboundIs
    <3>3. ~(i < j) /\ ~(j < i)
      BY <1>0, <1>3, <2>0, <3>1, <3>2 DEF SlotsInOrder
    <3>4. i \in Nat /\ j \in Nat
      BY RouteType DEF TypeOK
    <3> QED
      BY <3>1, <3>2, <3>3, <3>4
  <2> QED
    BY <2>1, <2>2
<1>4. ASSUME NEW x \in OnTheWay
      PROVE  \E c \in Inbound : x = c.input /\ x.id = Id(c)
  BY <1>4 DEF OnTheWay, Id
<1>5. OnTheWay \in SUBSET Input /\ \A x \in OnTheWay : x.id \in unreleased /\ x.id <= posted
  BY <1>1, <1>4 DEF Callback
<1>6. NumbersDiffer(OnTheWay)
  BY <1>3, <1>4 DEF NumbersDiffer
<1>7. IsFiniteSet(OnTheWay)
  <2> DEFINE f == [x \in OnTheWay |-> x.id]
  <2>1. f \in Injection(OnTheWay, unreleased)
    BY <1>5, <1>6 DEF NumbersDiffer, Injection, IsInjective
  <2> HIDE DEF f
  <2> QED
    BY <2>1, FinitelyMany, FS_Injection
<1> QED
  BY <1>1, <1>5, <1>6, <1>7

\* With the input about to be posted there are no more of them than
\* reservations, so there is room for it.
LEMMA RoomForOne ==
  ASSUME QInv, life = "open", hook.at = "inserted"
  PROVE  /\ Cardinality(OnTheWay) < Limit(hook.callback.input.kind)
         /\ \A x \in OnTheWay : x.id < Id(hook.callback)
         /\ hook.callback \in Callback
<1> DEFINE own == Id(hook.callback)
           others == unreleased \ {own}
           f == [x \in OnTheWay |-> x.id]
<1>0. SlotsInOrder /\ issued \in Nat /\ posted \in Nat
  BY DEF QInv, InOrder, IInv, TypeOK, CountsType
<1>1. own = issued /\ posted < issued /\ Cardinality(unreleased) <= Limit(hook.callback.input.kind)
  BY DEF QInv, Numbering
<1>2. own \in unreleased /\ hook.callback \in Callback
  BY <1>0 DEF QInv, IInv, SlotsInOrder, SlotsOwnReservations, TypeOK, ThreadsType
<1>3. \A x \in OnTheWay : x.id < own /\ x.id \in unreleased /\ x.id # own
  <2>1. \A x \in OnTheWay : x.id \in Nat
    BY OnTheWayType DEF Input
  <2> QED
    BY <1>0, <1>1, <2>1, OnTheWayType
<1>4. /\ IsFiniteSet(others) /\ Cardinality(others) = Cardinality(unreleased) - 1
      /\ Cardinality(unreleased) \in Nat
  <2>1. IsFiniteSet(unreleased)
    BY FinitelyMany DEF QInv, IInv
  <2> QED
    BY <1>2, <2>1, FS_RemoveElement, FS_CardinalityType
<1>5. f \in Injection(OnTheWay, others)
  BY <1>3, OnTheWayType DEF NumbersDiffer, Injection, IsInjective
<1> HIDE DEF f, others, own
<1>6. Cardinality(OnTheWay) <= Cardinality(others)
  BY <1>4, <1>5, FS_Injection
<1>7. Cardinality(OnTheWay) \in Nat
  BY OnTheWayType, FS_CardinalityType
<1>8. Limit(hook.callback.input.kind) \in Nat
  BY DispatcherAssumption DEF Limit
<1>9. Cardinality(OnTheWay) < Limit(hook.callback.input.kind)
  BY <1>1, <1>4, <1>6, <1>7, <1>8
<1> QED
  BY <1>2, <1>3, <1>9 DEF own

\* Where the callbacks stay the same and their generation, so does the queue.
LEMMA SameQueue ==
  ASSUME Inbound' = Inbound, UNCHANGED <<generation, life, posted>>, Current' = Current
  PROVE  UNCHANGED Queue!queueVars
<1>1. OnTheWay' = OnTheWay
  BY DEF OnTheWay, Live
<1>2. Waiting' = Waiting
  BY <1>1 DEF Waiting, ByNumber
<1>3. (life = "open")' = (life = "open")
  BY Zenon
<1> QED
  BY <1>2, <1>3 DEF Queue!queueVars

\* The dispatcher starts with an empty queue.
LEMMA InitRefines == Init => Queue!Init
<1> SUFFICES ASSUME Init PROVE Queue!Init
  OBVIOUS
<1>1. Inbound = {}
  BY DEF Init, Inbound, Route, Ui
<1>2. Waiting = <<>>
  BY <1>1, ByNumberEmpty DEF Waiting, OnTheWay
<1>3. Current = NoInput /\ posted = 0 /\ life = "open"
  BY DEF Init, Current, Ui
<1>4. NoInput = Queue!NoInput
  BY DEF NoInput, Queue!NoInput
<1> QED
  BY <1>2, <1>3, <1>4 DEF Queue!Init

\* The invariant holds at the start.
LEMMA InitQInv == Init => QInv
<1> SUFFICES ASSUME Init PROVE QInv
  OBVIOUS
<1>1. IInv
  BY InitIInv
<1>2. Numbering /\ Earlier
  BY DispatcherAssumption DEF Init, Numbering, Earlier, HookIdle, Empty, Ui
<1>3. Route = <<>> /\ DOMAIN Route = {}
  BY DEF Init, Route
<1>4. InOrder
  <2> HIDE DEF Route
  <2> QED
    BY <1>3 DEF Init, InOrder, SlotsInOrder, HookIdle, Ui
<1> QED
  BY <1>1, <1>2, <1>4 DEF QInv

\* Once the queue is closed nothing waits and nothing is handled.
LEMMA ClosedIsEmpty ==
  /\ life # "open" => Waiting = <<>>
  /\ QInv /\ life # "open" => Current = NoInput
BY DEF QInv, InOrder, Waiting, Current

\* A message posted: an input is accepted.
LEMMA PostAccepts == ASSUME QInv, Post PROVE Queue!Accept
<1> DEFINE c == hook.callback
           x == c.input
<1>0. /\ hook.at = "inserted" /\ c # Empty /\ c \in Callback
      /\ UNCHANGED <<slots, ui, life, generation, inbox>>
      /\ messages' = Append(messages, hook.slot) /\ posted' = Id(c)
      /\ hook.slot \in Slots
  BY DEF Post, uiVars, QInv, IInv, SlotsOwnReservations, TypeOK, ThreadsType
<1>1. /\ x \in Input /\ x.id = Id(c) /\ x.kind \in Kinds /\ x = [id |-> x.id, kind |-> x.kind]
      /\ x.id \in 1 .. MaxInputs /\ x.id > posted
  <2>1. x \in Input /\ x.id = Id(c)
    BY <1>0 DEF Callback, Id
  <2>2. Id(c) = issued /\ posted < issued /\ issued <= MaxInputs
    BY <1>0 DEF QInv, Numbering
  <2>3. issued \in Nat /\ posted \in Nat /\ MaxInputs \in Nat
    BY DispatcherAssumption DEF QInv, IInv, TypeOK, CountsType
  <2>4. x.id \in Nat \ {0} /\ x.kind \in Kinds /\ x = [id |-> x.id, kind |-> x.kind]
    BY <2>1 DEF Input
  <2> QED
    BY <2>1, <2>2, <2>3, <2>4
<1>2. Current' = Current /\ (life = "open")' = (life = "open")
  <2>1. Current' = Current
    BY <1>0 DEF Current
  <2>2. (life = "open")' = (life = "open")
    BY <1>0, Zenon
  <2> QED
    BY <2>1, <2>2
<1>3. CASE life = "open"
  <2>1. /\ Cardinality(OnTheWay) < Limit(x.kind)
        /\ \A y \in OnTheWay : y.id < x.id
    BY <1>0, <1>1, <1>3, RoomForOne
  <2>2. /\ OnTheWay \in SUBSET Input /\ IsFiniteSet(OnTheWay) /\ NumbersDiffer(OnTheWay)
    BY <1>3, OnTheWayType
  <2>3. OnTheWay' = OnTheWay \cup {x}
    <3>1. /\ Route' = Append(Route, hook.slot) /\ Route \in Seq(Slots)
      BY <1>0, AddLast, RouteType DEF Route, QInv, IInv, TypeOK, SlotsType
    <3>2. slots[hook.slot] = c
      BY <1>0, <1>3 DEF QInv, InOrder, SlotsInOrder
    <3>3. /\ DOMAIN Route' = DOMAIN Route \cup {Len(Route) + 1}
          /\ \A i \in DOMAIN Route : Route'[i] = Route[i]
          /\ Route'[Len(Route) + 1] = hook.slot
      <4> HIDE DEF Route
      <4>1. /\ Len(Route) \in Nat /\ DOMAIN Route = 1 .. Len(Route)
        BY <3>1, LenProperties
      <4>2. /\ DOMAIN Route' = 1 .. Len(Route) + 1
            /\ \A i \in 1 .. Len(Route) : Route'[i] = Route[i]
            /\ Route'[Len(Route) + 1] = hook.slot
        BY <1>0, <3>1, AppendProperties
      <4> QED
        BY <4>1, <4>2
    <3>4. Inbound' = Inbound \cup {c}
      <4> HIDE DEF Route, c
      <4> QED
        BY <1>0, <3>2, <3>3 DEF Inbound
    <3>5. Live(c) /\ \A d : Live(d)' <=> Live(d)
      BY <1>0 DEF Live, QInv, Numbering
    <3> HIDE DEF c
    <3> QED
      BY <1>0, <3>4, <3>5 DEF OnTheWay, x, Live
  <2> HIDE DEF x
  <2>4. ByNumber(OnTheWay \cup {x}) = Append(ByNumber(OnTheWay), x)
    BY <1>1, <2>1, <2>2, ByNumberAppend
  <2>5. Waiting' = Append(Waiting, x)
    BY <1>0, <1>3, <2>3, <2>4 DEF Waiting, ByNumber
  <2>6. Len(Waiting) < Limit(x.kind)
    BY <1>3, <2>1, <2>2, ByNumberRises DEF Waiting
  <2> HIDE DEF c
  <2> QED
    BY <1>0, <1>1, <1>2, <1>3, <2>5, <2>6 DEF Queue!Accept, Queue!Limit, Limit
<1>4. CASE life # "open"
  <2>1. Waiting = <<>> /\ Waiting' = <<>>
    BY <1>0, <1>4 DEF Waiting
  <2>2. Len(Waiting) < Limit(x.kind)
    BY <2>1, DispatcherAssumption DEF Limit
  <2> HIDE DEF c, x
  <2> QED
    BY <1>0, <1>1, <1>2, <1>4, <2>1, <2>2 DEF Queue!Accept, Queue!Limit, Limit
<1> QED
  BY <1>3, <1>4

\* A callback run: the first input is handed over, or an input of the past
\* is dropped.
LEMMA RunHandsOver ==
  ASSUME QInv, RunCallback
  PROVE  Queue!HandOver \/ UNCHANGED Queue!queueVars
<1> DEFINE c == ui.callback
           x == c.input
<1>0. /\ ui.at = "taken" /\ c # Empty /\ c \in Callback
      /\ UNCHANGED <<slots, life, generation, inbox, messages, posted>>
      /\ Route' = Route
  BY DEF RunCallback, hookVars, Route, QInv, IInv, SlotsOwnReservations, TypeOK, ThreadsType
<1>1. life = "open" /\ SlotsInOrder
  BY <1>0 DEF QInv, InOrder
<1>2. Current = NoInput /\ x # NoInput /\ x \in Input /\ x.id = Id(c)
  BY <1>0 DEF Current, Callback, Input, NoInput, Id
<1>3. ui'.at # "taken"
  BY DEF RunCallback, Ui
<1>4. /\ \A d : d \in Inbound <=> d = c \/ \E i \in DOMAIN Route : d = slots[Route[i]]
      /\ \A d : d \in Inbound' <=> \E i \in DOMAIN Route : d = slots[Route[i]]
  <2> HIDE DEF c, Route
  <2> QED
    BY <1>0, <1>3 DEF Inbound, c
<1>5. CASE ~Live(c)
  <2>1. Current' = Current
    BY <1>0, <1>2, <1>5 DEF RunCallback, Live, Current, Ui
  <2>2. \A d : Live(d)' <=> Live(d)
    BY <1>0 DEF Live
  <2>3. OnTheWay' = OnTheWay
    BY <1>4, <1>5, <2>2 DEF OnTheWay, Live
  <2>4. Waiting' = Waiting
    BY <1>0, <2>3 DEF Waiting, ByNumber
  <2>5. (life = "open")' = (life = "open")
    BY <1>0, Zenon
  <2> QED
    BY <1>0, <2>1, <2>4, <2>5 DEF Queue!queueVars
<1>6. CASE Live(c)
  <2>1. Current' = x
    BY <1>6 DEF RunCallback, Live, Current
  <2>2. /\ OnTheWay \in SUBSET Input /\ IsFiniteSet(OnTheWay) /\ NumbersDiffer(OnTheWay)
        /\ \A d \in Inbound : d \in Callback
    BY <1>1, OnTheWayType
  <2>3. \A d \in Inbound : d # c => Id(c) < Id(d)
    BY <1>0, <1>1, <1>4 DEF SlotsInOrder
  <2>4. x \in OnTheWay
    BY <1>4, <1>6 DEF OnTheWay
  <2>5. \A y \in OnTheWay : y = x \/ x.id < y.id
    BY <1>2, <2>3 DEF OnTheWay, Id
  <2>6. OnTheWay' = OnTheWay \ {x}
    <3>1. \A d : Live(d)' <=> Live(d)
      BY <1>0 DEF Live
    <3>2. \A d : d \in Inbound' <=> d \in Inbound /\ d # c
      <4>1. \A i \in DOMAIN Route : slots[Route[i]] # c
        <5>1. \A i \in DOMAIN Route : Id(c) < Id(slots[Route[i]])
          BY <1>0, <1>1 DEF SlotsInOrder
        <5>2. Id(c) \in Nat
          BY <1>0, IdType
        <5> QED
          BY <5>1, <5>2
      <4> QED
        BY <1>4, <4>1
    <3>3. \A d \in Inbound : d # c => d.input # x
      <4>1. \A d \in Inbound : d # c => Id(c) < Id(d)
        BY <2>3
      <4>2. Id(c) \in Nat
        BY <1>0, IdType
      <4> QED
        BY <4>1, <4>2 DEF Id
    <3> HIDE DEF c
    <3> QED
      BY <3>1, <3>2, <3>3 DEF OnTheWay, x, Live
  <2> HIDE DEF x
  <2>7. /\ ByNumber(OnTheWay) # <<>> /\ Head(ByNumber(OnTheWay)) = x
        /\ ByNumber(OnTheWay \ {x}) = Tail(ByNumber(OnTheWay))
    BY <2>2, <2>4, <2>5, ByNumberTail
  <2>8. Waiting # <<>> /\ Head(Waiting) = x /\ Waiting' = Tail(Waiting)
    <3>1. Waiting' = ByNumber(OnTheWay \ {x})
      BY <1>0, <1>1, <2>6 DEF Waiting, ByNumber
    <3>2. Waiting = ByNumber(OnTheWay)
      BY <1>1 DEF Waiting
    <3> QED
      BY <2>7, <3>1, <3>2
  <2>9. (life = "open")' = (life = "open")
    BY <1>0, Zenon
  <2>10. NoInput = Queue!NoInput
    BY DEF NoInput, Queue!NoInput
  <2> QED
    BY <1>0, <1>1, <1>2, <2>1, <2>8, <2>9, <2>10 DEF Queue!HandOver
<1> QED
  BY <1>5, <1>6

\* An invalidation: what waits is forgotten.
LEMMA InvalidationForgets == ASSUME QInv, InvalidatePending PROVE Queue!Forget
<1>0. /\ UNCHANGED <<slots, life, inbox, messages, posted, ui>>
      /\ Route' = Route /\ generation' = generation + 1 /\ generation \in Nat
  BY DEF InvalidatePending, hookVars, uiVars, Route, QInv, IInv, TypeOK, CountsType
<1>1. \A d \in Inbound' : d.generation \in Nat /\ d.generation <= generation
  <2>1. \A i \in DOMAIN Route : Route[i] \in Slots
    BY RouteType DEF QInv, IInv, TypeOK
  <2>2. /\ ui.callback.generation \in Nat /\ \A s \in Slots : slots[s].generation \in Nat
    BY DEF QInv, IInv, TypeOK, ThreadsType, SlotsType, Callback, Empty
  <2> HIDE DEF Route
  <2> QED
    BY <1>0, <2>1, <2>2 DEF QInv, Earlier, Inbound
<1>2. OnTheWay' = {}
  BY <1>0, <1>1 DEF OnTheWay, Live
<1>3. Waiting' = <<>>
  <2>1. ByNumber({}) = ByNumber({})'
    BY DEF ByNumber
  <2> QED
    BY <1>2, <2>1, ByNumberEmpty DEF Waiting, ByNumber
<1>4. Current' = Current
  BY <1>0 DEF Current
<1>5. (life = "open")' = (life = "open")
  BY <1>0, Zenon
<1> QED
  BY <1>0, <1>3, <1>4, <1>5 DEF Queue!Forget

\* The hook taken out of the application: the queue closes.
LEMMA ShutdownCloses == ASSUME QInv, CloseForShutdown PROVE Queue!Close
<1>1. life = "open" /\ life' = "drained" /\ ui' = ui /\ posted' = posted
  BY DEF CloseForShutdown, hookVars, uiVars
<1>2. Waiting' = <<>>
  BY <1>1 DEF Waiting
<1>3. Current' = Current
  BY <1>1 DEF Current
<1>4. (life = "open")' = FALSE
  BY <1>1, Zenon
<1> QED
  BY <1>1, <1>2, <1>3, <1>4 DEF Queue!Close

\* A handler that returns: its input is finished.
LEMMA HandlerFinishes ==
  ASSUME QInv, FinishHandler
  PROVE  Queue!Finish \/ UNCHANGED Queue!queueVars
<1>0. /\ UNCHANGED <<slots, life, generation, inbox, messages, posted>>
      /\ Route' = Route /\ ui.at # "taken" /\ ui'.at # "taken" /\ Current' = NoInput
  BY DEF FinishHandler, hookVars, Route, Ui, Current
<1>1. Inbound' = Inbound
  BY <1>0 DEF Inbound
<1>2. OnTheWay' = OnTheWay
  BY <1>0, <1>1 DEF OnTheWay, Live
<1>3. Waiting' = Waiting
  BY <1>0, <1>2 DEF Waiting, ByNumber
<1>4. (life = "open")' = (life = "open")
  BY <1>0, Zenon
<1>5. NoInput = Queue!NoInput
  BY DEF NoInput, Queue!NoInput
<1> QED
  BY <1>0, <1>3, <1>4, <1>5 DEF Queue!Finish, Queue!queueVars

\* A hook thread that dispatches nothing, and a UI thread that takes messages
\* from one place to the other, leave the queue as it is.
LEMMA StepIsQuiet ==
  ASSUME QInv,
         \/ \E kind \in Kinds : Refuse(kind) \/ Reserve(kind)
         \/ GiveBack \/ Insert \/ PostFails
         \/ Receive \/ Reenter \/ LeaveLoop \/ OtherHandler \/ FinishOther \/ TakeSlot
         \/ Dispose \/ InvalidateForDrop \/ DrainForDrop
  PROVE  UNCHANGED Queue!queueVars
<1>0. posted' = posted /\ (life = "open")' = (life = "open")
  <2>1. posted' = posted /\ (life' = life \/ (life # "open" /\ life' # "open"))
    BY DEF Refuse, Reserve, GiveBack, Insert, PostFails, Receive, Reenter, LeaveLoop,
       OtherHandler, FinishOther, TakeSlot, Dispose, InvalidateForDrop, DrainForDrop,
       hookVars
  <2>2. life' = "open" <=> life = "open"
    BY <2>1
  <2>3. (life = "open")' = (life = "open")
    BY <2>2, Zenon
  <2> QED
    BY <2>1, <2>3
<1>1. CASE life # "open"
  <2>1. QInv' /\ life' # "open"
    <3>1. life' # "open"
      BY <1>0, <1>1, Zenon
    <3>2. QInv'
      BY OrderStep DEF Next, HookProgress, UiProgress
    <3> QED
      BY <3>1, <3>2
  <2>2. Waiting = <<>> /\ Current = NoInput
    BY <1>1, ClosedIsEmpty
  <2>3. Waiting' = <<>> /\ Current' = NoInput'
    BY <2>1 DEF Waiting, Current, QInv, InOrder
  <2>4. NoInput' = NoInput
    BY DEF NoInput
  <2> QED
    BY <1>0, <2>2, <2>3, <2>4 DEF Queue!queueVars
<1>2. ASSUME life = "open",
             \/ \E kind \in Kinds : Refuse(kind) \/ Reserve(kind)
             \/ GiveBack
             \/ LeaveLoop \/ OtherHandler \/ FinishOther
      PROVE  UNCHANGED Queue!queueVars
  <2>1. /\ UNCHANGED <<generation, life, posted, slots, inbox, messages>>
        /\ ui' = ui \/ (ui.at \notin {"taken", "handler"} /\ ui'.at \notin {"taken", "handler"})
    BY <1>2 DEF Refuse, Reserve, GiveBack, LeaveLoop, OtherHandler, FinishOther,
       hookVars, uiVars, Ui
  <2>2. Inbound' = Inbound /\ Current' = Current
    BY <2>1 DEF Inbound, Route, Current
  <2> QED
    BY <2>1, <2>2, SameQueue
<1>3. ASSUME life = "open", Insert \/ PostFails PROVE UNCHANGED Queue!queueVars
  <2>1. UNCHANGED <<generation, life, posted, inbox, messages, ui>> /\ Route' = Route
    BY <1>3 DEF Insert, PostFails, hookVars, uiVars, Route
  <2>2. \A i \in DOMAIN Route : slots'[Route[i]] = slots[Route[i]]
    <3>0. SlotsInOrder /\ SlotsType /\ \A i \in DOMAIN Route : Route[i] \in Slots
      BY <1>3, RouteType DEF QInv, InOrder, IInv, TypeOK
    <3>1. CASE Insert
      <4>1. CASE Free = {}
        BY <3>1, <4>1 DEF Insert
      <4>2. CASE Free # {}
        <5>1. \E f \in Free : slots' = [slots EXCEPT ![f] = hook.callback]
          <6> DEFINE first == CHOOSE s \in Free : \A t \in Free : s <= t
          <6>1. first \in Free
            BY <4>2, SmallestFree DEF Free
          <6>2. slots' = [slots EXCEPT ![first] = hook.callback]
            BY <3>1, <4>2 DEF Insert
          <6> HIDE DEF first
          <6> QED
            BY <6>1, <6>2
        <5>2. PICK f \in Free : slots' = [slots EXCEPT ![f] = hook.callback]
          BY <5>1
        <5>3. slots[f] = Empty
          BY DEF Free
        <5> HIDE DEF Route
        <5> QED
          BY <3>0, <5>2, <5>3 DEF SlotsType, SlotsInOrder
      <4> QED
        BY <4>1, <4>2
    <3>2. CASE PostFails
      <4>1. /\ hook.at = "inserted" /\ slots' = [slots EXCEPT ![hook.slot] = Empty]
            /\ slots[hook.slot] = hook.callback
        BY <3>0, <3>2 DEF PostFails, SlotsInOrder
      <4>2. /\ Id(hook.callback) = issued /\ posted < issued
            /\ issued \in Nat /\ posted \in Nat
        BY <4>1 DEF QInv, Numbering, IInv, TypeOK, CountsType
      <4>3. \A i \in DOMAIN Route : Route[i] # hook.slot
        BY <3>0, <4>1, <4>2 DEF SlotsInOrder
      <4> HIDE DEF Route
      <4> QED
        BY <3>0, <4>1, <4>3 DEF SlotsType
    <3> QED
      BY <1>3, <3>1, <3>2
  <2>3. Inbound' = Inbound /\ Current' = Current
    <3> HIDE DEF Route
    <3> QED
      BY <2>1, <2>2 DEF Inbound, Current
  <2> QED
    BY <2>1, <2>3, SameQueue
<1>4. ASSUME life = "open", Receive \/ Reenter PROVE UNCHANGED Queue!queueVars
  <2>1. /\ messages \in Seq(Slots) /\ inbox \in Seq(Slots) /\ messages # <<>>
        /\ messages' = Tail(messages) /\ inbox' = Append(inbox, Head(messages))
    BY <1>4 DEF Receive, Reenter, QInv, IInv, TypeOK, SlotsType
  <2>2. Route' = Route
    BY ONLY <2>1, MoveHead DEF Route
  <2>3. /\ UNCHANGED <<slots, generation, life, posted>>
        /\ ui' = ui \/ (ui.at \notin {"taken", "handler"} /\ ui'.at \notin {"taken", "handler"})
    BY <1>4 DEF Receive, Reenter, Ui, hookVars
  <2>4. Inbound' = Inbound /\ Current' = Current
    <3> HIDE DEF Route
    <3> QED
      BY <2>2, <2>3 DEF Inbound, Current
  <2> QED
    BY <2>3, <2>4, SameQueue
<1>5. ASSUME life = "open", TakeSlot PROVE UNCHANGED Queue!queueVars
  <2>0. /\ SlotsInOrder /\ SlotsType /\ Route \in Seq(Slots)
        /\ \A i \in DOMAIN Route : Route[i] \in Slots
    BY <1>5, RouteType DEF QInv, InOrder, IInv, TypeOK
  <2>1. /\ inbox # <<>> /\ inbox \in Seq(Slots) /\ messages \in Seq(Slots)
        /\ inbox' = Tail(inbox) /\ messages' = messages
    BY <1>5, <2>0 DEF TakeSlot, SlotsType
  <2>2. Route # <<>> /\ Head(Route) = Head(inbox) /\ Tail(inbox) \o messages = Tail(Route)
    BY ONLY <2>1, DropHead DEF Route
  <2>3. Route' = Tail(Route)
    BY ONLY <2>1, <2>2 DEF Route
  <2> HIDE DEF Route
  <2>4. 1 \in DOMAIN Route /\ Route[1] = Head(inbox) /\ Route[1] \in Slots
    <3>1. 1 \in DOMAIN Route /\ Head(Route) = Route[1]
      BY ONLY <2>0, <2>2, HeadIsFirst
    <3> QED
      BY <2>0, <2>2, <3>1
  <2>5. /\ \A i \in DOMAIN Route' :
             i + 1 \in DOMAIN Route /\ Route'[i] = Route[i + 1] /\ i \in Nat /\ 1 < i + 1
        /\ \A k \in DOMAIN Route : k # 1 =>
             k \in Nat /\ 1 < k /\ k - 1 \in DOMAIN Route' /\ Route'[k - 1] = Route[k]
    <3>1. /\ Tail(Route) \in Seq(Slots) /\ Len(Tail(Route)) = Len(Route) - 1
          /\ \A i \in 1 .. Len(Tail(Route)) : Tail(Route)[i] = Route[i + 1]
      BY <2>0, <2>2, HeadTailProperties
    <3>2. /\ DOMAIN Tail(Route) = 1 .. Len(Tail(Route))
          /\ DOMAIN Route = 1 .. Len(Route) /\ Len(Route) \in Nat
      BY <2>0, <3>1, LenProperties
    <3>3. /\ \A i \in 1 .. Len(Tail(Route)) : i + 1 \in DOMAIN Route /\ i \in Nat /\ 1 < i + 1
          /\ \A k \in DOMAIN Route : k # 1 =>
               k \in Nat /\ 1 < k /\ k - 1 \in 1 .. Len(Tail(Route)) /\ (k - 1) + 1 = k
      BY <3>1, <3>2
    <3>4. \A k \in DOMAIN Route : k # 1 => Tail(Route)[k - 1] = Route[k]
      <4> SUFFICES ASSUME NEW k \in DOMAIN Route, k # 1 PROVE Tail(Route)[k - 1] = Route[k]
        OBVIOUS
      <4>1. k - 1 \in 1 .. Len(Tail(Route)) /\ (k - 1) + 1 = k
        BY <3>3
      <4>2. Tail(Route)[k - 1] = Route[(k - 1) + 1]
        BY <3>1, <4>1
      <4> QED
        BY <4>1, <4>2
    <3> QED
      BY <2>3, <3>1, <3>2, <3>3, <3>4
  <2>6. /\ ui.at = "loop" /\ ui' = [at |-> "taken", callback |-> slots[Route[1]]]
        /\ slots' = [slots EXCEPT ![Route[1]] = Empty]
        /\ UNCHANGED <<generation, life, posted>>
    BY <1>5, <2>0, <2>4 DEF TakeSlot, SlotsInOrder, hookVars
  <2>7. \A k \in DOMAIN Route : k # 1 => slots'[Route[k]] = slots[Route[k]]
    <3> SUFFICES ASSUME NEW k \in DOMAIN Route, k # 1
                 PROVE  slots'[Route[k]] = slots[Route[k]]
      OBVIOUS
    <3>1. Id(slots[Route[1]]) < Id(slots[Route[k]])
      BY <2>0, <2>4, <2>5 DEF SlotsInOrder
    <3>2. Id(slots[Route[1]]) \in Nat
      BY <2>0, <2>4, IdType DEF SlotsType
    <3>3. Route[k] # Route[1] /\ Route[k] \in Slots
      BY <2>0, <3>1, <3>2
    <3> QED
      BY <2>0, <2>4, <2>6, <3>3 DEF SlotsType
  <2>8. \A d : (\E k \in DOMAIN Route : k # 1 /\ d = slots[Route[k]])
                 <=> \E i \in DOMAIN Route' : d = slots'[Route'[i]]
    <3> SUFFICES ASSUME NEW d
                 PROVE  (\E k \in DOMAIN Route : k # 1 /\ d = slots[Route[k]])
                          <=> \E i \in DOMAIN Route' : d = slots'[Route'[i]]
      OBVIOUS
    <3>1. ASSUME NEW k \in DOMAIN Route, k # 1, d = slots[Route[k]]
          PROVE  \E i \in DOMAIN Route' : d = slots'[Route'[i]]
      BY <2>5, <2>7, <3>1
    <3>2. ASSUME NEW i \in DOMAIN Route', d = slots'[Route'[i]]
          PROVE  \E k \in DOMAIN Route : k # 1 /\ d = slots[Route[k]]
      <4>1. i + 1 \in DOMAIN Route /\ Route'[i] = Route[i + 1] /\ i + 1 # 1
        BY <2>5
      <4> QED
        BY <2>7, <3>2, <4>1
    <3> QED
      BY <3>1, <3>2
  <2>9. \A d : d \in Inbound <=> \E k \in DOMAIN Route : d = slots[Route[k]]
    BY <2>6, InboundIs
  <2>10. \A d : d \in Inbound' <=> \/ d = slots[Route[1]]
                                   \/ \E i \in DOMAIN Route' : d = slots'[Route'[i]]
    BY <2>6 DEF Inbound
  <2>11. \A d : d \in Inbound' <=> d \in Inbound
    BY <2>4, <2>8, <2>9, <2>10
  <2>12. Inbound' = Inbound
    BY <2>11
  <2>13. Current' = Current
    BY <2>6 DEF Current
  <2> QED
    BY <2>6, <2>12, <2>13, SameQueue
<1> QED
  BY <1>1, <1>2, <1>3, <1>4, <1>5 DEF Dispose, InvalidateForDrop, DrainForDrop

\* Every step of the dispatcher is a step of the queue, or none.
LEMMA StepRefines == QInv /\ [Next]_vars => [Queue!Next]_(Queue!queueVars)
<1> SUFFICES ASSUME QInv, [Next]_vars PROVE Queue!Next \/ UNCHANGED Queue!queueVars
  OBVIOUS
<1>1. CASE UNCHANGED vars
  <2>1. Inbound' = Inbound /\ Current' = Current
    BY <1>1 DEF vars, hookVars, uiVars, Inbound, Route, Current
  <2> QED
    BY <1>1, <2>1, SameQueue DEF vars, hookVars
<1>2. CASE Post
  BY <1>2, PostAccepts DEF Queue!Next
<1>3. CASE RunCallback
  BY <1>3, RunHandsOver DEF Queue!Next
<1>4. CASE FinishHandler
  BY <1>4, HandlerFinishes DEF Queue!Next
<1>5. CASE InvalidatePending
  BY <1>5, InvalidationForgets DEF Queue!Next
<1>6. CASE CloseForShutdown
  BY <1>6, ShutdownCloses DEF Queue!Next
<1> QED
  BY <1>1, <1>2, <1>3, <1>4, <1>5, <1>6, StepIsQuiet DEF Next, HookProgress, UiProgress

\* QueueRefined: whatever the two threads interleave, for any capacity and
\* any number of inputs, what reaches the handlers is what a bounded queue
\* hands over: in the order of the dispatches, each input at most once, none
\* from before an invalidation (try_dispatch_with_limit, dispatch_hook_inputs).
THEOREM QueueRefined == Spec => ImplementsQueue
<1> QED
  BY InitQInv, InitRefines, OrderStep, StepRefines, PTL
     DEF Spec, ImplementsQueue, Queue!Spec

===============================================================================
