---------------------------- MODULE KeyHookProofs ----------------------------
(***************************************************************************)
(* What KeyHook guarantees for every keyboard, every keyboard state at the *)
(* start and every behaviour of SendInput: its type invariant, the mutual  *)
(* exclusion of the owners of an Alt, the quarantine of the old target     *)
(* during a session, and that the gate opens again.  For keyboards with    *)
(* one Alt, or one Alt and one Shift, where the consumed-release ledger    *)
(* names one key per entry: no release reaches a target that never saw the *)
(* press, an admitted session has taken the Alt, and no key is left down.  *)
(***************************************************************************)
EXTENDS KeyHook, SequenceTheorems, TLAPS

\* A virtual key maps to a switcher key or to none, Alt and Shift as expected.
LEMMA KeyOfType ==
  ASSUME NEW k \in Vk
  PROVE  /\ KeyOf(k) \in SwitcherKeys \cup {"Unknown"}
         /\ KeyOf(k) = "Alt" <=> k \in Alts
         /\ KeyOf(k) = "Tab" => k \notin Modifiers
BY DEF KeyOf, Vk, Modifiers, Alts, Shifts, Ctrls, SwitcherKeys

\* The modifier state stays a set of modifiers.
LEMMA ModsAfterType ==
  ASSUME NEW k \in Vk, NEW d, mods \subseteq Modifiers \cup {AltSentinel}
  PROVE  ModsAfter(k, d) \subseteq Modifiers \cup {AltSentinel}
BY DEF ModsAfter

\* Whatever arrives, the target's keys are keys.
LEMMA AfterType == \A held, events : After(held, events) \subseteq Vk
BY DEF After

\* Unpaired releases are keys too.
LEMMA UnpairedType == \A held, events : Unpaired(held, events) \subseteq Vk
BY DEF Unpaired

\* What the user did leaves the target's side well typed.
LEMMA DeliverType ==
  ASSUME NEW events, Deliver(events),
         stray \subseteq Vk
  PROVE  /\ target' \subseteq Vk /\ seen' \subseteq Vk
         /\ stray' \subseteq Vk
BY AfterType, UnpairedType DEF Deliver

\* So does what FrigoTab injects.
LEMMA InjectType ==
  ASSUME NEW events, Inject(events),
         stray \subseteq Vk
  PROVE  /\ target' \subseteq Vk
         /\ stray' \subseteq Vk
BY AfterType DEF Inject

\* The recovered gesture is a sequence of key transitions.
LEMMA RecoveryPlanType ==
  ASSUME NEW a, NEW r, NEW s
  PROVE  RecoveryPlan(a, r, s) \in Seq(Event)
<1>1. \A k \in {"LAlt", "LShift", "Tab"} : Down(k) \in Event /\ Up(k) \in Event
  BY DEF Down, Up, Event, Vk, Modifiers, Alts, Shifts
<1>2. \A e \in Event : \A c : When(c, <<e>>) \in Seq(Event)
  BY DEF When
<1>3. <<Down("Tab"), Up("Tab")>> \in Seq(Event)
  BY <1>1
<1>4. \A x, y \in Seq(Event) : x \o y \in Seq(Event)
  BY ConcatProperties
<1> QED
  BY <1>1, <1>2, <1>3, <1>4 DEF RecoveryPlan

\* What is held back is a sequence of presses.
LEMMA DeferredType ==
  ASSUME deferredAlt \in Alts, deferredShift \in Shifts \cup {None}
  PROVE  Deferred \in Seq(Event)
<1>1. <<Down(deferredAlt)>> \in Seq(Event)
  BY DEF Down, Event, Vk, Modifiers
<1>2. When(deferredShift # None, <<Down(deferredShift)>>) \in Seq(Event)
  BY DEF When, Down, Event, Vk, Modifiers
<1> QED
  BY <1>1, <1>2, ConcatProperties DEF Deferred

-----------------------------------------------------------------------------
\* A physical transition of a key of the keyboard, whatever becomes of it.
LEMMA TransitionType ==
  ASSUME TypeOK, NEW k \in Keys, NEW d \in {"down", "up"}, Transition(k, d)
  PROVE  /\ phys' \subseteq Keys /\ typematic' \in Keys \cup {None}
         /\ mods' \subseteq Modifiers \cup {AltSentinel}
         /\ abandoned' \in BOOLEAN /\ disposed' \in BOOLEAN
         /\ ui' \in Seq(Event)
BY KeysAssumption, ModsAfterType DEF TypeOK, Transition, Strike, Press, Release

\* What the target is left with by a transition let through or swallowed.
LEMMA VerdictType ==
  ASSUME TypeOK, NEW k, NEW d, PassOn(k, d) \/ Swallow(k, d)
  PROVE  /\ target' \subseteq Vk /\ seen' \subseteq Vk
         /\ stray' \subseteq Vk
BY DeliverType DEF TypeOK, PassOn, Swallow

\* SendInput reports how many of its inputs it inserted.
LEMMA SentCountsType ==
  ASSUME NEW events, Len(events) \in Nat, NEW n \in SentCounts(events)
  PROVE  n \in Nat /\ n <= Len(events)
BY DEF SentCounts

\* The Shifts to be balanced form a sequence.
LEMMA HeldShiftsType == HeldShifts \in Seq(Shifts) /\ Len(HeldShifts) \in Nat
<1>1. When("LShift" \in mods, <<"LShift">>) \in Seq(Shifts)
  <2>1. "LShift" \in Shifts
    BY DEF Shifts
  <2>2. <<"LShift">> \in Seq(Shifts) /\ <<>> \in Seq(Shifts)
    BY <2>1
  <2> QED
    BY <2>2 DEF When
<1>2. When("RShift" \in mods, <<"RShift">>) \in Seq(Shifts)
  <2>1. "RShift" \in Shifts
    BY DEF Shifts
  <2>2. <<"RShift">> \in Seq(Shifts) /\ <<>> \in Seq(Shifts)
    BY <2>1
  <2> QED
    BY <2>2 DEF When
<1> QED
  BY <1>1, <1>2, ConcatProperties DEF HeldShifts

\* Balancing blocks the releases of Shift keys only.
LEMMA BalanceType ==
  ASSUME TypeOK, NEW k, NEW d, NEW sent \in Nat,
         sent <= Len(HeldShifts), BalanceShift(k, d, sent)
  PROVE  blocked' \subseteq Vk
BY HeldShiftsType DEF BalanceShift, TypeOK, Vk, Modifiers

\* The branches of the callback that leave nothing to send keep the types.
LEMMA QuietType ==
  ASSUME TypeOK, NEW k \in Keys, NEW d \in {"down", "up"},
         QuietKey(k, d) \/ DispatchedKey(k, d)
  PROVE  TypeOK'
<1> k \in Vk
  BY KeysAssumption
<1>1. CASE SwallowBlocked(k, d)
  <2>1. consumed' \subseteq SwitcherKeys /\ blocked' \subseteq Vk
    BY <1>1 DEF SwallowBlocked, TypeOK, gate
  <2> QED
    BY <1>1, <2>1, TransitionType, VerdictType DEF SwallowBlocked, TypeOK, gate
<1>2. CASE SwallowOwed(k, d)
  <2>1. consumed' \subseteq SwitcherKeys /\ blocked' \subseteq Vk
    BY <1>2 DEF SwallowOwed, TypeOK, gate
  <2> QED
    BY <1>2, <2>1, TransitionType, VerdictType DEF SwallowOwed, TypeOK, gate
<1>3. CASE FailClosed(k, d)
  BY <1>3, TransitionType, VerdictType
     DEF FailClosed, TypeOK, gate, ledger, SwitcherKeys
<1>4. CASE StayForwarded(k, d)
  BY <1>4, TransitionType, VerdictType
     DEF StayForwarded, TypeOK, gate, ledger, SwitcherKeys
<1>5. CASE PassUnownedTab(k, d)
  BY <1>5, TransitionType, VerdictType
     DEF PassUnownedTab, TypeOK, gate, ledger, SwitcherKeys
<1>6. CASE ClaimAlt(k, d)
  BY <1>6, TransitionType, VerdictType
     DEF ClaimAlt, TypeOK, gate, ledger, SwitcherKeys
<1>7. CASE ForwardCtrlAlt(k, d)
  BY <1>7, TransitionType, VerdictType
     DEF ForwardCtrlAlt, TypeOK, gate, ledger, SwitcherKeys
<1>8. CASE DeferAlt(k, d)
  BY <1>8, TransitionType, VerdictType
     DEF DeferAlt, TypeOK, gate, ledger, SwitcherKeys
<1>9. CASE DeferShift(k, d)
  BY <1>9, TransitionType, VerdictType
     DEF DeferShift, TypeOK, gate, ledger, SwitcherKeys
<1>10. CASE PassHeldShift(k, d)
  BY <1>10, TransitionType, VerdictType
     DEF PassHeldShift, TypeOK, gate, ledger, SwitcherKeys
<1>11. CASE RepeatDeferred(k, d)
  BY <1>11, TransitionType, VerdictType
     DEF RepeatDeferred, TypeOK, gate, ledger, SwitcherKeys
<1>12. CASE ReplayChord(k, d)
  <2>1. Deferred \o <<Down(k)>> \in Seq(Event)
    <3>1. Deferred \in Seq(Event)
      BY <1>12, DeferredType DEF ReplayChord, Tracked, TypeOK
    <3>2. <<Down(k)>> \in Seq(Event)
      BY DEF Down, Event
    <3> QED
      BY <3>1, <3>2, ConcatProperties
  <2> QED
    BY <1>12, <2>1, TransitionType, VerdictType DEF ReplayChord, TypeOK, Work, gate, ledger
<1>13. CASE ReplayRelease(k, d)
  <2>1. Deferred \o <<Up(k)>> \in Seq(Event)
    <3>1. Deferred \in Seq(Event)
      BY <1>13, DeferredType DEF ReplayRelease, Tracked, TypeOK
    <3>2. <<Up(k)>> \in Seq(Event)
      BY DEF Up, Event
    <3> QED
      BY <3>1, <3>2, ConcatProperties
  <2> QED
    BY <1>13, <2>1, TransitionType, VerdictType DEF ReplayRelease, TypeOK, Work, gate, ledger
<1>14. CASE DiscardGesture(k, d)
  <2>1. PICK sent \in SentCounts(HeldShifts) : BalanceShift(k, d, sent)
    BY <1>14 DEF DiscardGesture
  <2>2. blocked' \subseteq Vk
    BY <2>1, SentCountsType, HeldShiftsType, BalanceType
  <2>3. target' \subseteq Vk /\ stray' \subseteq Vk
    BY <2>1, InjectType DEF BalanceShift, TypeOK
  <2>4. Transition(k, d)
    BY <2>1 DEF BalanceShift
  <2> QED
    BY <1>14, <2>1, <2>2, <2>3, <2>4, TransitionType
       DEF DiscardGesture, BalanceShift, TypeOK, SwitcherKeys
<1>15. CASE QuarantineKey(k, d)
  BY <1>15, TransitionType, VerdictType
     DEF QuarantineKey, TypeOK, gate, ledger, SwitcherKeys
<1>16. CASE PassUnknown(k, d)
  BY <1>16, TransitionType, VerdictType
     DEF PassUnknown, TypeOK, gate, ledger, SwitcherKeys
<1>17. CASE PassDisposed(k, d)
  BY <1>17, VerdictType DEF PassDisposed, TypeOK, Work, gate, ledger, Strike, Press, Release
<1>18. CASE TakeKey(k, d)
  BY <1>18, TransitionType, VerdictType, KeyOfType
     DEF TakeKey, TypeOK, gate, OwedAfter
<1>19. CASE PassKey(k, d)
  BY <1>19, TransitionType, VerdictType
     DEF PassKey, TypeOK, gate, ledger, SwitcherKeys
<1> QED
  BY <1>1, <1>2, <1>3, <1>4, <1>5, <1>6, <1>7, <1>8, <1>9, <1>10, <1>11, <1>12, <1>13,
     <1>14, <1>15, <1>16, <1>17, <1>18, <1>19 DEF QuietKey, DispatchedKey

\* An admission, accepted or refused, keeps the types.
LEMMA AdmissionType ==
  ASSUME TypeOK, NEW k \in Vk, NEW d, NEW owed \in SUBSET SwitcherKeys,
         NEW ok \in BOOLEAN, Admission(k, d, owed, ok)
  PROVE  /\ consumed' \subseteq SwitcherKeys /\ active' \in BOOLEAN
         /\ gestureShift' \in BOOLEAN /\ hook' \in Work
<1>1. consumed' \subseteq SwitcherKeys
  BY DEF Admission, OwedAfter, Admits, SwitcherKeys
<1>2. gestureShift' \in BOOLEAN
  BY DEF Admission
<1>3. hook' \in Work
  <2>1. Idle \in Work
    BY DEF Idle, Work
  <2>2. ASSUME NEW a, NEW r, NEW s
        PROVE [op |-> "recover", events |-> RecoveryPlan(a, r, s)] \in Work
    BY RecoveryPlanType DEF Work
  <2> QED
    BY <2>1, <2>2 DEF Admission
<1> QED
  BY <1>1, <1>2, <1>3 DEF Admission

\* The branches that ask for an admission keep the types.
LEMMA AdmittingType ==
  ASSUME TypeOK, NEW k \in Keys, NEW d \in {"down", "up"}, NEW ok \in BOOLEAN,
         AdmittingKey(k, d, ok)
  PROVE  TypeOK'
<1> k \in Vk
  BY KeysAssumption
<1> DEFINE promoted == consumed \cup {"Alt"} \cup
                         IF deferredShift = None THEN {} ELSE {"Shift"}
<1>1. CASE PromoteTab(k, d, ok)
  <2>1. promoted \in SUBSET SwitcherKeys
    BY DEF TypeOK, SwitcherKeys
  <2> QED
    BY <1>1, <2>1, AdmissionType, TransitionType, VerdictType
       DEF PromoteTab, TypeOK
<1>2. CASE PromoteTabOverShift(k, d, ok)
  <2>1. BalanceShift(k, d, Len(HeldShifts)) /\ Transition(k, d)
    BY <1>2 DEF PromoteTabOverShift, BalanceShift
  <2>2. consumed \cup {"Alt", "Shift"} \in SUBSET SwitcherKeys
    BY DEF TypeOK, SwitcherKeys
  <2>3. blocked' \subseteq Vk
    BY <2>1, HeldShiftsType, BalanceType
  <2>4. target' \subseteq Vk /\ stray' \subseteq Vk
    BY <2>1, InjectType DEF BalanceShift, TypeOK
  <2>5. /\ consumed' \subseteq SwitcherKeys /\ active' \in BOOLEAN
        /\ gestureShift' \in BOOLEAN /\ hook' \in Work
    BY <1>2, <2>2, AdmissionType DEF PromoteTabOverShift
  <2> QED
    BY <2>1, <2>3, <2>4, <2>5, TransitionType DEF BalanceShift, TypeOK
<1>3. CASE ReopenTab(k, d, ok)
  BY <1>3, AdmissionType, TransitionType, VerdictType DEF ReopenTab, TypeOK, gate
<1> QED
  BY <1>1, <1>2, <1>3 DEF AdmittingKey

\* Sending what was decided keeps the types.
LEMMA SendRecoveryType ==
  ASSUME TypeOK, NEW events, SendRecovery(events)
  PROVE  /\ target' \subseteq Vk /\ abandoned' \in BOOLEAN
         /\ stray' \subseteq Vk
BY InjectType DEF SendRecovery, TypeOK

\* The second lock region of a replay or recovery keeps the types.
LEMMA FinishType ==
  ASSUME TypeOK, FinishReplay \/ FinishRecovery
  PROVE  TypeOK'
<1>1. CASE FinishReplay
  <2>1. PICK n \in SentCounts(hook.events) :
          /\ \E sent : Deliver(sent)
          /\ altForwarded' \in BOOLEAN
          /\ blocked' \subseteq blocked \cup
               {hook.events[i][1] : i \in n + 1 .. Len(hook.events)}
    BY <1>1 DEF FinishReplay, TypeOK
  <2>2. n \in Nat /\ hook.events \in Seq(Event)
    BY SentCountsType, LenProperties DEF TypeOK, Work
  <2>3. \A i \in n + 1 .. Len(hook.events) : hook.events[i][1] \in Vk
    BY <2>2 DEF Event
  <2>4. blocked' \subseteq Vk
    BY <2>1, <2>3 DEF TypeOK
  <2>5. /\ target' \subseteq Vk /\ seen' \subseteq Vk
        /\ stray' \subseteq Vk
    BY <2>1, DeliverType DEF TypeOK
  <2> QED
    BY <1>1, <2>1, <2>4, <2>5 DEF FinishReplay, TypeOK, Idle, Work, ledger
<1>2. CASE FinishRecovery
  BY <1>2, SendRecoveryType DEF FinishRecovery, TypeOK, Idle, Work, ledger, gate
<1> QED
  BY <1>1, <1>2

\* The UI thread's entry points keep the types.
LEMMA UiType ==
  ASSUME TypeOK, UiThread
  PROVE  TypeOK'
<1>1. CASE SetSessionVisible(FALSE)
  BY <1>1 DEF SetSessionVisible, UiStep, TypeOK, external, gate
<1>2. CASE ResetInputState
  BY <1>2 DEF ResetInputState, TypeOK, external, SwitcherKeys
<1>3. CASE CancelAdmission(gestureShift)
  BY <1>3, RecoveryPlanType DEF CancelAdmission, UiStep, TypeOK, external, gate
<1>4. CASE SendOwnerRecovery
  <2>1. ui' \in Seq(Event)
    BY <1>4 DEF SendOwnerRecovery
  <2> QED
    BY <1>4, <2>1, SendRecoveryType DEF SendOwnerRecovery, TypeOK, ledger, gate
<1>5. CASE Dispose
  BY <1>5 DEF Dispose, TypeOK, external
<1> QED
  BY <1>1, <1>2, <1>3, <1>4, <1>5 DEF UiThread

\* Typing: every variable keeps its type in every behaviour.
THEOREM Typing == Spec => []TypeOK
<1>1. Init => TypeOK
  <2> SUFFICES ASSUME Init PROVE TypeOK
    OBVIOUS
  <2>1. Idle \in Work /\ <<>> \in Seq(Event)
    BY DEF Idle, Work
  <2>2. phys \subseteq Keys /\ phys \subseteq Vk /\ typematic \in Keys \cup {None}
    BY KeysAssumption DEF Init
  <2> QED
    BY <2>1, <2>2 DEF Init, TypeOK
<1>2. TypeOK /\ [Next]_vars => TypeOK'
  <2> SUFFICES ASSUME TypeOK, [Next]_vars PROVE TypeOK'
    OBVIOUS
  <2>1. CASE UNCHANGED vars
    BY <2>1 DEF TypeOK, vars, external, ledger, gate
  <2>2. CASE HookThread
    BY <2>2, QuietType, AdmittingType, FinishType DEF HookThread
  <2>3. CASE UiThread
    BY <2>3, UiType
  <2> QED
    BY <2>1, <2>2, <2>3 DEF Next
<1> QED
  BY <1>1, <1>2, PTL DEF Spec

-----------------------------------------------------------------------------
(* The owners of an Alt exclude each other.                                *)

\* No branch that asks for no admission lets two owners of Alt meet.
LEMMA GateQuiet ==
  ASSUME TypeOK, GateExclusive, NEW k \in Keys, NEW d \in {"down", "up"},
         QuietKey(k, d) \/ DispatchedKey(k, d)
  PROVE  GateExclusive'
<1> k \in Vk
  BY KeysAssumption
<1> USE DEF GateExclusive, Tracked, AltBlocked
<1>1. CASE SwallowBlocked(k, d)
  BY <1>1 DEF SwallowBlocked, Transition, Idle
<1>2. CASE SwallowOwed(k, d)
  BY <1>2 DEF SwallowOwed, Transition, Idle, gate
<1>3. CASE FailClosed(k, d)
  BY <1>3, KeyOfType DEF FailClosed, Transition, Idle, ledger
<1>4. CASE StayForwarded(k, d)
  BY <1>4 DEF StayForwarded, Transition, Idle, ledger
<1>5. CASE PassUnownedTab(k, d)
  BY <1>5 DEF PassUnownedTab, Transition, Idle, ledger, gate
<1>6. CASE ClaimAlt(k, d)
  BY <1>6 DEF ClaimAlt, Transition, Idle, gate
<1>7. CASE ForwardCtrlAlt(k, d)
  BY <1>7 DEF ForwardCtrlAlt, Transition, Idle, ledger
<1>8. CASE DeferAlt(k, d)
  BY <1>8, KeyOfType DEF DeferAlt, Transition, Idle, ledger, Ordinary, Owed, None, Alts
<1>9. CASE DeferShift(k, d)
  BY <1>9 DEF DeferShift, Transition, Idle, ledger
<1>10. CASE PassHeldShift(k, d)
  BY <1>10 DEF PassHeldShift, Transition, Idle, ledger, gate
<1>11. CASE RepeatDeferred(k, d)
  BY <1>11 DEF RepeatDeferred, Transition, Idle, ledger, gate
<1>12. CASE ReplayChord(k, d)
  BY <1>12 DEF ReplayChord, Transition, Idle, ledger, None
<1>13. CASE ReplayRelease(k, d)
  BY <1>13 DEF ReplayRelease, Transition, Idle, None
<1>14. CASE DiscardGesture(k, d)
  <2>1. PICK sent : BalanceShift(k, d, sent)
    BY <1>14 DEF DiscardGesture
  <2>2. HeldShifts \in Seq(Shifts) /\ ~active /\ ~altForwarded
    BY <2>1, HeldShiftsType DEF BalanceShift
  <2> QED
    BY <1>14, <2>1, <2>2 DEF DiscardGesture, BalanceShift, Transition
<1>15. CASE QuarantineKey(k, d)
  BY <1>15, KeyOfType DEF QuarantineKey, Transition, Idle, ledger
<1>16. CASE PassUnknown(k, d)
  BY <1>16 DEF PassUnknown, Transition, Idle, ledger, gate
<1>17. CASE PassDisposed(k, d)
  BY <1>17 DEF PassDisposed, ledger, gate
<1>18. CASE TakeKey(k, d)
  BY <1>18, KeyOfType DEF TakeKey, LeftToPolicy, Transition, Idle, OwedAfter, gate
<1>19. CASE PassKey(k, d)
  BY <1>19 DEF PassKey, Transition, Idle, ledger, gate
<1> QED
  BY <1>1, <1>2, <1>3, <1>4, <1>5, <1>6, <1>7, <1>8, <1>9, <1>10, <1>11, <1>12, <1>13,
     <1>14, <1>15, <1>16, <1>17, <1>18, <1>19 DEF QuietKey, DispatchedKey

\* An admission finds no other owner left.
LEMMA GateAdmitting ==
  ASSUME TypeOK, GateExclusive, NEW k \in Keys, NEW d \in {"down", "up"},
         NEW ok \in BOOLEAN, AdmittingKey(k, d, ok)
  PROVE  GateExclusive'
<1>1. ~altForwarded /\ ~AltBlocked /\ ~disposed /\ disposed' = disposed
  BY DEF AdmittingKey, PromoteTab, PromoteTabOverShift, BalanceShift, ReopenTab,
         Transition, Ordinary
<1>2. deferredAlt' = None /\ deferredShift' = None /\ altForwarded' = altForwarded
  BY DEF AdmittingKey, PromoteTab, PromoteTabOverShift, BalanceShift, ReopenTab,
         gate, Tracked, GateExclusive
<1>3. ~AltBlocked'
  <2>1. \A i \in 1 .. Len(HeldShifts) : HeldShifts[i] \notin Alts
    BY HeldShiftsType DEF Shifts, Alts
  <2> QED
    BY <1>1, <2>1 DEF AdmittingKey, PromoteTab, PromoteTabOverShift, BalanceShift,
                      ReopenTab, gate, AltBlocked
<1>4. hook'.op # "idle" => ~active'
  BY DEF AdmittingKey, PromoteTab, PromoteTabOverShift, ReopenTab, Admission, Idle
<1> QED
  BY <1>1, <1>2, <1>3, <1>4 DEF GateExclusive, Tracked

\* Neither the second lock region nor the UI thread lets two owners meet.
LEMMA GateOther ==
  ASSUME TypeOK, GateExclusive, FinishReplay \/ FinishRecovery \/ UiThread
  PROVE  GateExclusive'
<1> USE DEF GateExclusive, Tracked, AltBlocked, Idle
<1>1. CASE FinishReplay
  BY <1>1 DEF FinishReplay, ledger
<1>2. CASE FinishRecovery
  BY <1>2 DEF FinishRecovery, ledger, gate
<1>3. CASE SetSessionVisible(FALSE)
  BY <1>3 DEF SetSessionVisible, UiStep, gate
<1>4. CASE ResetInputState
  BY <1>4 DEF ResetInputState, None
<1>5. CASE CancelAdmission(gestureShift)
  BY <1>5 DEF CancelAdmission, UiStep, gate
<1>6. CASE SendOwnerRecovery
  BY <1>6 DEF SendOwnerRecovery, ledger, gate
<1>7. CASE Dispose
  BY <1>7 DEF Dispose, None
<1> QED
  BY <1>1, <1>2, <1>3, <1>4, <1>5, <1>6, <1>7 DEF UiThread

\* GateExclusivity: a deferred Alt, a session, a forwarded chord and a refused
\* replay never own the same Alt, in any interleaving of the two threads.
THEOREM GateExclusivity == Spec => []GateExclusive
<1>1. Init => GateExclusive
  BY DEF Init, GateExclusive, Tracked, AltBlocked, Idle, None
<1>2. TypeOK /\ GateExclusive /\ [Next]_vars => GateExclusive'
  <2> SUFFICES ASSUME TypeOK, GateExclusive, [Next]_vars PROVE GateExclusive'
    OBVIOUS
  <2>1. CASE UNCHANGED vars
    BY <2>1 DEF GateExclusive, Tracked, AltBlocked, vars, ledger, gate
  <2>2. CASE HookThread
    BY <2>2, GateQuiet, GateAdmitting, GateOther DEF HookThread
  <2>3. CASE UiThread
    BY <2>3, GateOther
  <2> QED
    BY <2>1, <2>2, <2>3 DEF Next
<1> QED
  BY <1>1, <1>2, Typing, PTL DEF Spec

-----------------------------------------------------------------------------
(* The quarantine of the old target.                                       *)

\* A release puts no key down.
LEMMA UpAddsNothing ==
  ASSUME NEW held, NEW k
  PROVE  After(held, << <<k, "up">> >>) \subseteq held
BY DEF After, Down

\* With a session on, what the callback lets through are releases.
LEMMA ActivePasses ==
  ASSUME GateExclusive, active, NEW k \in Keys, NEW d \in {"down", "up"},
         QuietKey(k, d) \/ DispatchedKey(k, d)
  PROVE  Swallow(k, d) \/ (PassOn(k, d) /\ d = "up")
<1>1. ~Tracked /\ ~altForwarded /\ ~AltBlocked /\ ~disposed
  BY DEF GateExclusive
<1>2. CASE DispatchedKey(k, d)
  BY <1>2 DEF DispatchedKey, TakeKey, PassKey, Takes
<1>3. CASE QuietKey(k, d)
  BY <1>1, <1>3
     DEF QuietKey, SwallowBlocked, SwallowOwed, FailClosed, StayForwarded,
         PassUnownedTab, ClaimAlt, ForwardCtrlAlt, DeferAlt, DeferShift,
         PassHeldShift, RepeatDeferred, ReplayChord, ReplayRelease,
         DiscardGesture, BalanceShift, QuarantineKey, PassUnknown, PassDisposed
<1> QED
  BY <1>2, <1>3

\* QuarantineHolds: as long as a session stays active, nothing the hook lets
\* through or replays puts a key down in the old target.
THEOREM QuarantineHolds == Spec => Quarantine
<1>1. GateExclusive /\ [Next]_vars
        => (active /\ active' /\ ui' = ui => target' \subseteq target)
  <2> SUFFICES ASSUME GateExclusive, [Next]_vars, active, active', ui' = ui
               PROVE  target' \subseteq target
    OBVIOUS
  <2>1. CASE UNCHANGED vars
    BY <2>1 DEF vars, external
  <2>2. ASSUME NEW k \in Keys, NEW d \in {"down", "up"},
               QuietKey(k, d) \/ DispatchedKey(k, d)
        PROVE  target' \subseteq target
    <3>1. CASE Swallow(k, d)
      BY <3>1 DEF Swallow
    <3>2. CASE PassOn(k, d) /\ d = "up"
      <4>1. target' = After(target, << <<k, "up">> >>)
        BY <3>2 DEF PassOn, Deliver
      <4> QED
        BY <4>1, UpAddsNothing
    <3> QED
      BY <2>2, <3>1, <3>2, ActivePasses
  <2>3. ASSUME NEW k \in Keys, NEW d \in {"down", "up"}, NEW ok \in BOOLEAN
        PROVE  ~AdmittingKey(k, d, ok)
    BY DEF AdmittingKey, PromoteTab, PromoteTabOverShift, ReopenTab, Admission, Admits
  <2>4. ~FinishReplay /\ ~FinishRecovery
    BY DEF FinishReplay, FinishRecovery, GateExclusive
  <2>5. CASE UiThread
    <3>1. ~SendOwnerRecovery
      BY DEF SendOwnerRecovery
    <3>2. CASE SetSessionVisible(FALSE) \/ ResetInputState
      BY <3>2 DEF SetSessionVisible, ResetInputState, UiStep, external
    <3>3. CASE CancelAdmission(gestureShift) \/ Dispose
      BY <3>3 DEF CancelAdmission, Dispose, UiStep, external
    <3> QED
      BY <2>5, <3>1, <3>2, <3>3 DEF UiThread
  <2> QED
    BY <2>1, <2>2, <2>3, <2>4, <2>5 DEF Next, HookThread
<1> QED
  BY <1>1, GateExclusivity, PTL DEF Spec, Quarantine

-----------------------------------------------------------------------------
(* The keyboards the properties below are about.  The ledgers know one Alt *)
(* and one Shift (KeyOf), whatever the keyboard has.                       *)

OneAlt   == \A k, l \in Keys \cap Alts : k = l
OneShift == \A k, l \in Keys \cap Shifts : k = l

(* What becomes of the state by one physical transition.                   *)

\* What a physical transition does to the keys held and the key repeating.
LEMMA StrikeEffect ==
  ASSUME NEW k \in Keys, NEW d \in {"down", "up"}, Strike(k, d),
         typematic \in phys \cup {None}
  PROVE  /\ d = "down" => /\ phys' = phys \cup {k} /\ typematic' = k
                          /\ k \in phys => typematic = k
         /\ d = "up" => /\ k \in phys /\ phys' = phys \ {k} /\ k \notin phys'
                        /\ typematic' # k \/ k = None
                        /\ typematic' \in {typematic, None}
         /\ typematic' \in phys' \cup {None}
BY DEF Strike, Press, Release

\* The modifier state never holds a key that is not held down, and a release
\* of the last Alt held leaves no Alt in it.
LEMMA ModsEffect ==
  ASSUME TypeOK, NEW k \in Keys, NEW d \in {"down", "up"}, Transition(k, d),
         mods \ {AltSentinel} \subseteq phys
  PROVE  /\ mods' \ {AltSentinel} \subseteq phys'
         /\ k \in Alts /\ d = "up" /\ phys' \cap Alts = {}
              => mods' \cap (Alts \cup {AltSentinel}) = {}
<1>1. AltSentinel \notin Alts
  BY DEF Alts, AltSentinel
<1>2. mods' = ModsAfter(k, d) /\ Strike(k, d)
  BY DEF Transition
<1>3. CASE d = "down"
  <2>1. phys' = phys \cup {k}
    BY <1>2, <1>3 DEF Strike, Press
  <2> QED
    BY <1>2, <1>3, <2>1 DEF ModsAfter
<1>4. CASE d = "up"
  <2>1. phys' = phys \ {k}
    BY <1>2, <1>4 DEF Strike, Release
  <2>2. mods' \ {AltSentinel} \subseteq phys'
    BY <1>2, <1>4, <2>1 DEF ModsAfter
  <2>3. k \in Alts => AltSentinel \notin mods'
    BY <1>1, <1>2, <1>4 DEF ModsAfter
  <2> QED
    BY <1>1, <2>2, <2>3
<1> QED
  BY <1>3, <1>4

-----------------------------------------------------------------------------
(* The gate opens again.                                                   *)

\* A key of the gate is held down: its release is what opens the gate.
HeldKeys ==
  /\ mods \ {AltSentinel} \subseteq phys
  /\ blocked \subseteq phys
  /\ {deferredAlt, deferredShift} \ {None} \subseteq phys
  /\ deferredShift # None => deferredShift \notin blocked /\ "Shift" \notin consumed

\* What waits to be replayed is the Alt and the Shift held back and the key
\* that decided their fate: a further press, or the release of one of them.
ReplayOf(a, s, k, d) ==
  IF s = None THEN << Down(a), <<k, d>> >> ELSE << Down(a), Down(s), <<k, d>> >>

ReplayHeld ==
  hook.op = "replay" =>
    /\ ~altForwarded
    /\ \E a \in Alts, s \in Shifts \cup {None}, k \in Vk, d \in {"down", "up"} :
         /\ hook.events = ReplayOf(a, s, k, d) /\ {a, s, k} \ {None} \subseteq Keys
         /\ \A x \in {a, s, k} \ {None} : x \notin blocked /\ KeyOf(x) \notin consumed
         /\ d = "down" => k \notin {a, s} /\ {a, s, k} \ {None} \subseteq phys
         /\ d = "up" => k \in {a, s} /\ k \notin phys /\ {a, s} \ {None, k} \subseteq phys

ReplayAlone == hook.op = "replay" => ~AltBlocked

\* A chord is forwarded only while an Alt is held that is neither blocked nor
\* owed, so that its release is seen by StayForwarded.
ForwardedHeld ==
  altForwarded => phys \cap Alts # {} /\ "Alt" \notin consumed /\ ~AltBlocked

GateInv == /\ ReplayHeld /\ ReplayAlone
           /\ ~disposed => HeldKeys /\ ForwardedHeld

\* The switcher keys of the modifiers.
LEMMA ModifierKeys ==
  /\ Alts \subseteq Vk /\ Shifts \subseteq Vk /\ Alts \cap Shifts = {}
  /\ \A k \in Vk : KeyOf(k) = "Alt" <=> k \in Alts
  /\ \A k \in Vk : KeyOf(k) = "Shift" <=> k \in Shifts
  /\ \A k \in Vk : KeyOf(k) = "Tab" <=> k = "Tab"
  /\ \A k \in Vk : KeyOf(k) = "Unknown" => k \notin Alts \cup Shifts \cup {"Tab"}
BY DEF Alts, Shifts, Vk, Modifiers, Ctrls, KeyOf

\* None is no key.
LEMMA NoneIsNoKey == None \notin Vk /\ None \notin Keys
BY KeysAssumption DEF None, Vk, Modifiers, Alts, Shifts, Ctrls

\* Two short sequences, put together.
LEMMA PairConcat == \A x, y : <<x>> \o <<y>> = <<x, y>>
<1> TAKE x, y
<1> DEFINE S == {x, y}
<1>1. x \in S /\ y \in S
  OBVIOUS
<1> HIDE DEF S
<1>2. <<x>> \in Seq(S) /\ <<y>> \in Seq(S) /\ <<x, y>> \in Seq(S)
  BY <1>1
<1>3. /\ <<x>> \o <<y>> \in Seq(S) /\ Len(<<x>> \o <<y>>) = 2
      /\ \A i \in 1 .. 2 : (<<x>> \o <<y>>)[i] = <<x, y>>[i]
  BY <1>2, ConcatProperties
<1>4. Len(<<x, y>>) = 2
  OBVIOUS
<1> QED
  BY ONLY <1>2, <1>3, <1>4, SeqEqual

\* A pair and one more.
LEMMA TripleConcat == \A x, y, z : <<x, y>> \o <<z>> = <<x, y, z>>
<1> TAKE x, y, z
<1> DEFINE S == {x, y, z}
<1>1. x \in S /\ y \in S /\ z \in S
  OBVIOUS
<1> HIDE DEF S
<1>2. <<x, y>> \in Seq(S) /\ <<z>> \in Seq(S) /\ <<x, y, z>> \in Seq(S)
  BY <1>1
<1>3. /\ <<x, y>> \o <<z>> \in Seq(S) /\ Len(<<x, y>> \o <<z>>) = 3
      /\ \A i \in 1 .. 3 : (<<x, y>> \o <<z>>)[i] = <<x, y, z>>[i]
  BY <1>2, ConcatProperties
<1>4. Len(<<x, y, z>>) = 3
  OBVIOUS
<1> QED
  BY ONLY <1>2, <1>3, <1>4, SeqEqual

\* What is held back, written out.
LEMMA DeferredReplay ==
  ASSUME NEW k, NEW d, deferredAlt \in Alts
  PROVE  Deferred \o << <<k, d>> >> = ReplayOf(deferredAlt, deferredShift, k, d)
<1>1. CASE deferredShift = None
  <2>1. Deferred = <<Down(deferredAlt)>>
    BY <1>1, ConcatEmptySeq DEF Deferred, When
  <2> QED
    BY <1>1, <2>1, PairConcat DEF ReplayOf
<1>2. CASE deferredShift # None
  <2>1. Deferred = <<Down(deferredAlt), Down(deferredShift)>>
    BY <1>2, PairConcat DEF Deferred, When
  <2> QED
    BY <1>2, <2>1, TripleConcat DEF ReplayOf
<1> QED
  BY <1>1, <1>2

\* The Shifts to be balanced are held down as far as the modifier state goes.
LEMMA HeldShiftsHeld ==
  /\ \A i \in 1 .. Len(HeldShifts) : HeldShifts[i] \in mods \cap Shifts
  /\ \A n \in SentCounts(HeldShifts) : n \in Nat /\ n <= Len(HeldShifts)
<1>1. HeldShifts \in Seq(mods \cap Shifts)
  <2> DEFINE S == mods \cap Shifts
  <2>1. "LShift" \in mods => "LShift" \in S
    BY DEF Shifts
  <2>2. "RShift" \in mods => "RShift" \in S
    BY DEF Shifts
  <2> HIDE DEF S
  <2>3. /\ When("LShift" \in mods, <<"LShift">>) \in Seq(S)
        /\ When("RShift" \in mods, <<"RShift">>) \in Seq(S)
    BY <2>1, <2>2 DEF When
  <2>4. HeldShifts \in Seq(S)
    BY <2>3, ConcatProperties DEF HeldShifts
  <2> QED
    BY <2>4 DEF S
<1> QED
  BY <1>1, HeldShiftsType, SentCountsType

\* No branch of the callback that asks for no admission puts a key into the
\* gate whose release it could miss.
LEMMA GateInvQuiet ==
  ASSUME TypeOK, GateExclusive, GateInv, NEW k \in Keys, NEW d \in {"down", "up"},
         QuietKey(k, d) \/ DispatchedKey(k, d), typematic \in phys \cup {None}
  PROVE  GateInv'
<1> k \in Vk /\ k # None
  BY KeysAssumption, NoneIsNoKey
<1> USE DEF Tracked, AltBlocked
<1>17. CASE PassDisposed(k, d)
  BY <1>17 DEF PassDisposed, GateInv, ReplayHeld, ReplayAlone, Idle
<1> SUFFICES ASSUME ~PassDisposed(k, d) PROVE GateInv'
  BY <1>17
<1> ~disposed
  BY DEF QuietKey, DispatchedKey, SwallowBlocked, SwallowOwed, FailClosed,
      StayForwarded, PassUnownedTab, ClaimAlt, ForwardCtrlAlt, DeferAlt, DeferShift,
      PassHeldShift, RepeatDeferred, ReplayChord, ReplayRelease, DiscardGesture,
      QuarantineKey, PassUnknown, TakeKey, PassKey, BalanceShift, Transition
<1>0. ASSUME Transition(k, d)
      PROVE  /\ hook = Idle /\ ~disposed'
             /\ d = "down" => phys' = phys \cup {k}
             /\ d = "up" => k \in phys /\ phys' = phys \ {k}
             /\ mods' \ {AltSentinel} \subseteq phys'
             /\ k \in Alts /\ d = "up" /\ phys' \cap Alts = {}
                  => mods' \cap (Alts \cup {AltSentinel}) = {}
  BY <1>0, StrikeEffect, ModsEffect DEF Transition, GateInv, HeldKeys
<1>a. HeldKeys /\ ReplayHeld /\ ReplayAlone /\ ForwardedHeld
  BY DEF GateInv
<1>1. CASE SwallowBlocked(k, d)
  <2>1. ~Tracked \/ k \notin {deferredAlt, deferredShift}
    BY <1>1, <1>a DEF SwallowBlocked, GateExclusive, HeldKeys, TypeOK
  <2>2. HeldKeys'
    BY <1>0, <1>1, <1>a, <2>1 DEF SwallowBlocked, HeldKeys, GateExclusive
  <2>3. ReplayHeld' /\ ReplayAlone'
    BY <1>0, <1>1 DEF SwallowBlocked, ReplayHeld, ReplayAlone, Idle
  <2>4. ForwardedHeld'
    BY <1>0, <1>1, <1>a DEF SwallowBlocked, ForwardedHeld
  <2> QED
    BY <2>2, <2>3, <2>4 DEF GateInv
<1>2. CASE SwallowOwed(k, d)
  <2>1. k \notin {deferredAlt, deferredShift}
    BY <1>2, <1>a, ModifierKeys DEF SwallowOwed, Owed, GateExclusive, HeldKeys, TypeOK
  <2>2. HeldKeys'
    BY <1>0, <1>2, <1>a, <2>1 DEF SwallowOwed, HeldKeys, gate
  <2>3. ReplayHeld' /\ ReplayAlone'
    BY <1>0, <1>2 DEF SwallowOwed, ReplayHeld, ReplayAlone, Idle
  <2>4. ForwardedHeld'
    BY <1>0, <1>2, <1>a, KeyOfType DEF SwallowOwed, ForwardedHeld, Owed, gate
  <2> QED
    BY <2>2, <2>3, <2>4 DEF GateInv
<1>3. CASE FailClosed(k, d)
  <2>2. HeldKeys'
    BY <1>0, <1>3, <1>a DEF FailClosed, HeldKeys, GateExclusive, ledger
  <2>3. ReplayHeld' /\ ReplayAlone' /\ ForwardedHeld'
    BY <1>0, <1>3, <1>a DEF FailClosed, ReplayHeld, ReplayAlone, Idle, ForwardedHeld
  <2> QED
    BY <2>2, <2>3 DEF GateInv
<1>4. CASE StayForwarded(k, d)
  <2>2. HeldKeys'
    BY <1>0, <1>4, <1>a DEF StayForwarded, HeldKeys, GateExclusive, ledger
  <2>3. ReplayHeld' /\ ReplayAlone' /\ ForwardedHeld'
    BY <1>0, <1>4, <1>a DEF StayForwarded, ReplayHeld, ReplayAlone, Idle, ForwardedHeld, ledger
  <2> QED
    BY <2>2, <2>3 DEF GateInv
<1>5. CASE PassUnownedTab(k, d)
  BY <1>0, <1>5, <1>a
     DEF PassUnownedTab, GateInv, HeldKeys, ReplayHeld, ReplayAlone, ForwardedHeld, Idle,
        ledger, gate
<1>6. CASE ClaimAlt(k, d)
  BY <1>0, <1>6, <1>a
     DEF ClaimAlt, GateInv, HeldKeys, ReplayHeld, ReplayAlone, ForwardedHeld, Idle, ledger,
        gate, Ordinary
<1>7. CASE ForwardCtrlAlt(k, d)
  BY <1>0, <1>7, <1>a, KeyOfType
     DEF ForwardCtrlAlt, GateInv, HeldKeys, ReplayHeld, ReplayAlone, ForwardedHeld, Idle,
        ledger, Ordinary, Owed
<1>8. CASE DeferAlt(k, d)
  BY <1>0, <1>8, <1>a
     DEF DeferAlt, GateInv, HeldKeys, ReplayHeld, ReplayAlone, ForwardedHeld, Idle, ledger, Ordinary
<1>9. CASE DeferShift(k, d)
  <2>1. "Shift" \notin consumed
    BY <1>9, KeyOfType DEF DeferShift, Ordinary, Owed, GateExclusive, KeyOf, Shifts, Alts
  <2> QED
    BY <1>0, <1>9, <1>a, <2>1
     DEF DeferShift, GateInv, HeldKeys, ReplayHeld, ReplayAlone, ForwardedHeld, Idle,
        ledger, Ordinary
<1>10. CASE PassHeldShift(k, d)
  BY <1>0, <1>10, <1>a
     DEF PassHeldShift, GateInv, HeldKeys, ReplayHeld, ReplayAlone, ForwardedHeld, Idle,
        ledger, gate
<1>11. CASE RepeatDeferred(k, d)
  BY <1>0, <1>11, <1>a
     DEF RepeatDeferred, GateInv, HeldKeys, ReplayHeld, ReplayAlone, ForwardedHeld, Idle,
        ledger, gate
<1>12. CASE ReplayChord(k, d)
  <2>1. /\ deferredAlt \in Alts /\ deferredShift \in Shifts \cup {None}
        /\ hook'.events = ReplayOf(deferredAlt, deferredShift, k, d)
    BY <1>12, DeferredReplay DEF ReplayChord, TypeOK, Down
  <2>2. \A x \in {deferredAlt, deferredShift, k} \ {None} :
           x \notin blocked /\ KeyOf(x) \notin consumed
    BY <1>12, <1>a, <2>1, ModifierKeys
       DEF ReplayChord, HeldKeys, GateExclusive, Ordinary, Owed
  <2>3. ReplayHeld'
    <3>1. ~altForwarded' /\ consumed' \subseteq consumed /\ blocked' = blocked
      BY <1>12, <1>a DEF ReplayChord, ledger, Ordinary
    <3>2. /\ d = "down" => k \notin {deferredAlt, deferredShift}
                           /\ {deferredAlt, deferredShift, k} \ {None} \subseteq phys'
          /\ d = "up" => k \in {deferredAlt, deferredShift} /\ k \notin phys'
                         /\ {deferredAlt, deferredShift} \ {None, k} \subseteq phys'
      BY <1>0, <1>12, <1>a DEF ReplayChord, HeldKeys
    <3>3. {deferredAlt, deferredShift, k} \ {None} \subseteq Keys
      BY <1>a DEF HeldKeys, TypeOK
    <3> QED
      BY <2>1, <2>2, <3>1, <3>2, <3>3 DEF ReplayHeld
  <2>4. HeldKeys' /\ ReplayAlone' /\ ForwardedHeld'
    BY <1>0, <1>12, <1>a DEF ReplayChord, HeldKeys, ReplayAlone, ForwardedHeld, Ordinary
  <2> QED
    BY <2>3, <2>4 DEF GateInv
<1>13. CASE ReplayRelease(k, d)
  <2>1. /\ deferredAlt \in Alts /\ deferredShift \in Shifts \cup {None}
        /\ hook'.events = ReplayOf(deferredAlt, deferredShift, k, d)
    BY <1>13, DeferredReplay DEF ReplayRelease, TypeOK, Up
  <2>2. \A x \in {deferredAlt, deferredShift, k} \ {None} :
           x \notin blocked /\ KeyOf(x) \notin consumed
    BY <1>13, <1>a, <2>1, ModifierKeys
       DEF ReplayRelease, HeldKeys, GateExclusive, Ordinary, Owed
  <2>3. ReplayHeld'
    <3>1. ~altForwarded' /\ consumed' \subseteq consumed /\ blocked' = blocked
      BY <1>13, <1>a DEF ReplayRelease, ledger, Ordinary
    <3>2. /\ d = "down" => k \notin {deferredAlt, deferredShift}
                           /\ {deferredAlt, deferredShift, k} \ {None} \subseteq phys'
          /\ d = "up" => k \in {deferredAlt, deferredShift} /\ k \notin phys'
                         /\ {deferredAlt, deferredShift} \ {None, k} \subseteq phys'
      BY <1>0, <1>13, <1>a DEF ReplayRelease, HeldKeys
    <3>3. {deferredAlt, deferredShift, k} \ {None} \subseteq Keys
      BY <1>a DEF HeldKeys, TypeOK
    <3> QED
      BY <2>1, <2>2, <3>1, <3>2, <3>3 DEF ReplayHeld
  <2>4. HeldKeys' /\ ReplayAlone' /\ ForwardedHeld'
    BY <1>0, <1>13, <1>a DEF ReplayRelease, HeldKeys, ReplayAlone, ForwardedHeld, Ordinary
  <2> QED
    BY <2>3, <2>4 DEF GateInv
<1>14. CASE DiscardGesture(k, d)
  <2>1. PICK sent \in SentCounts(HeldShifts) : BalanceShift(k, d, sent)
    BY <1>14 DEF DiscardGesture
  <2>2. \A i \in 1 .. sent : HeldShifts[i] \in mods \cap Shifts
    BY <2>1, HeldShiftsHeld
  <2>3. blocked' \subseteq phys' /\ blocked' \cap Alts = blocked \cap Alts
    BY <1>0, <1>a, <2>1, <2>2, ModifierKeys DEF BalanceShift, HeldKeys, AltSentinel, Shifts
  <2>4. HeldKeys'
    BY <1>0, <1>a, <2>1, <2>3 DEF BalanceShift, HeldKeys
  <2> QED
    BY <1>0, <1>14, <1>a, <2>1, <2>3, <2>4
       DEF DiscardGesture, BalanceShift, GateInv, ReplayHeld, ReplayAlone, ForwardedHeld,
          Idle, Ordinary
<1>15. CASE QuarantineKey(k, d)
  BY <1>0, <1>15, <1>a, KeyOfType
     DEF QuarantineKey, GateInv, HeldKeys, ReplayHeld, ReplayAlone, ForwardedHeld, Idle,
        ledger, Ordinary, GateExclusive
<1>16. CASE PassUnknown(k, d)
  BY <1>0, <1>16, <1>a
     DEF PassUnknown, GateInv, HeldKeys, ReplayHeld, ReplayAlone, ForwardedHeld, Idle,
        ledger, gate, LeftToPolicy, Ordinary
<1>18. CASE TakeKey(k, d)
  BY <1>0, <1>18, <1>a, KeyOfType
     DEF TakeKey, GateInv, HeldKeys, ReplayHeld, ReplayAlone, ForwardedHeld, Idle, gate,
        LeftToPolicy, Ordinary, OwedAfter, GateExclusive
<1>19. CASE PassKey(k, d)
  BY <1>0, <1>19, <1>a
     DEF PassKey, GateInv, HeldKeys, ReplayHeld, ReplayAlone, ForwardedHeld, Idle, ledger,
        gate, LeftToPolicy, Ordinary
<1> QED
  BY <1>1, <1>2, <1>3, <1>4, <1>5, <1>6, <1>7, <1>8, <1>9, <1>10, <1>11, <1>12, <1>13,
     <1>14, <1>15, <1>16, <1>18, <1>19 DEF QuietKey, DispatchedKey

\* Nor does a branch that asks for an admission.
LEMMA GateInvAdmitting ==
  ASSUME TypeOK, GateExclusive, GateInv, NEW k \in Keys, NEW d \in {"down", "up"},
         NEW ok \in BOOLEAN, AdmittingKey(k, d, ok), typematic \in phys \cup {None}
  PROVE  GateInv'
<1>1. Transition(k, d) /\ ~disposed /\ ~disposed' /\ hook = Idle
  BY DEF AdmittingKey, PromoteTab, PromoteTabOverShift, BalanceShift, ReopenTab, Transition
<1>2. HeldKeys /\ ForwardedHeld
  BY <1>1 DEF GateInv
<1>3. /\ phys \subseteq phys' /\ mods' \ {AltSentinel} \subseteq phys'
  <2>1. d = "down"
    BY DEF AdmittingKey, PromoteTab, PromoteTabOverShift, BalanceShift, ReopenTab
  <2> QED
    BY <1>1, <1>2, <2>1, StrikeEffect, ModsEffect DEF Transition, HeldKeys
<1>4. deferredAlt' = None /\ deferredShift' = None /\ ~altForwarded' /\ hook'.op # "replay"
  BY DEF AdmittingKey, PromoteTab, PromoteTabOverShift, BalanceShift, ReopenTab,
         gate, Tracked, GateExclusive, Admission, Idle, Ordinary
<1>5. blocked' \subseteq phys'
  <2>1. \A i \in 1 .. Len(HeldShifts) : HeldShifts[i] \in mods \cap Shifts
    BY HeldShiftsHeld
  <2>2. mods \cap Shifts \subseteq phys
    BY <1>2 DEF HeldKeys, Shifts, AltSentinel
  <2> QED
    BY <1>2, <1>3, <2>1, <2>2
       DEF AdmittingKey, PromoteTab, PromoteTabOverShift, BalanceShift, ReopenTab, gate, HeldKeys
<1> QED
  BY <1>1, <1>3, <1>4, <1>5 DEF GateInv, HeldKeys, ReplayHeld, ReplayAlone, ForwardedHeld

\* What SendInput makes of a replay: "n" events were sent, and the release of
\* a press that was not sent is blocked.
LEMMA ReplayOutcome ==
  ASSUME TypeOK, NEW a \in Alts, NEW s \in Shifts \cup {None}, NEW k \in Vk,
         NEW d \in {"down", "up"}, hook.events = ReplayOf(a, s, k, d),
         d = "up" => k \in {a, s}, d = "down" => k \notin {a, s},
         FinishReplay
  PROVE  /\ blocked' \subseteq blocked \cup ({a, s, k} \ {None})
         /\ d = "up" => k \notin blocked' \ blocked
         /\ altForwarded' => \/ altForwarded
                             \/ /\ d = "down" \/ k # a
                                /\ a \notin blocked' \ blocked
         /\ d = "down" \/ k # a => altForwarded' \/ a \in blocked'
         /\ ~SendInputMayFail => blocked' = blocked
<1> a \in Vk /\ s # a /\ (s # None => s \in Vk) /\ a # None /\ k # None
  BY ModifierKeys, NoneIsNoKey DEF Shifts, Alts, None
<1> USE DEF ReplayOf, Down, Up
<1> DEFINE events == hook.events
           last == events[Len(events)]
<1>1. /\ Len(events) = IF s = None THEN 2 ELSE 3
      /\ last = <<k, d>> /\ events[1] = <<a, "down">>
      /\ \A i \in 1 .. Len(events) : events[i][1] \in {a, s, k} \ {None}
      /\ \A i \in 2 .. Len(events) : events[i][1] = a => k = a /\ i = Len(events)
  OBVIOUS
<1>2. PICK n \in SentCounts(events) :
        /\ altForwarded' = (altForwarded \/ ((events[1][1] # last[1] \/ last[2] = "down") /\ n > 0))
        /\ blocked' = blocked \cup {x \in {events[i][1] : i \in n + 1 .. Len(events)} : last # Up(x)}
  BY DEF FinishReplay
<1>3. n \in Nat /\ n <= Len(events) /\ (~SendInputMayFail => n = Len(events))
  BY <1>1, <1>2, SentCountsType DEF SentCounts
<1>4. blocked' \subseteq blocked \cup ({a, s, k} \ {None})
  BY <1>1, <1>2, <1>3
<1>5. d = "up" => k \notin blocked' \ blocked
  BY <1>1, <1>2
<1>6. ~SendInputMayFail => blocked' = blocked
  BY <1>1, <1>2, <1>3
<1>7. altForwarded' => altForwarded \/ ((d = "down" \/ k # a) /\ n > 0)
  <2>1. last[1] = k /\ last[2] = d /\ events[1][1] = a
    BY <1>1
  <2> HIDE DEF last, events
  <2> QED
    BY <1>2, <2>1, Zenon DEF TypeOK
<1>8. n > 0 => a \notin blocked' \ blocked
  <2> SUFFICES ASSUME n > 0, NEW i \in n + 1 .. Len(events), events[i][1] = a
               PROVE  last = Up(a)
    BY <1>2
  <2>1. i \in 2 .. Len(events)
    BY <1>3
  <2>2. k = a
    BY <1>1, <2>1
  <2> QED
    BY <1>1, <2>2
<1>9. ASSUME d = "down" \/ k # a PROVE altForwarded' \/ a \in blocked'
  <2>1. CASE n = 0
    <3>1. 1 \in n + 1 .. Len(events) /\ events[1][1] = a /\ last # Up(a)
      BY <1>1, <1>9, <2>1
    <3> QED
      BY <1>2, <3>1
  <2>2. CASE n > 0
    <3>1. events[1][1] # last[1] \/ last[2] = "down"
      BY <1>1, <1>9
    <3> HIDE DEF last, events
    <3> QED
      BY <1>2, <2>2, <3>1, Zenon
  <2> QED
    BY <1>3, <2>1, <2>2
<1> QED
  BY <1>4, <1>5, <1>6, <1>7, <1>8, <1>9

\* With one Alt, or a SendInput that takes everything, no chord is forwarded
\* whose Alt has its release blocked.
LEMMA GateInvReplay ==
  ASSUME TypeOK, GateExclusive, GateInv, FinishReplay, OneAlt \/ ~SendInputMayFail
  PROVE  GateInv'
<1>0. ReplayHeld' /\ ReplayAlone'
  BY DEF FinishReplay, ReplayHeld, ReplayAlone, Idle
<1> SUFFICES ASSUME ~disposed' PROVE HeldKeys' /\ ForwardedHeld'
  BY <1>0 DEF GateInv
<1>1. /\ HeldKeys /\ ReplayHeld /\ ReplayAlone /\ hook.op = "replay" /\ hook' = Idle
      /\ UNCHANGED <<phys, mods, consumed, deferredAlt, deferredShift>>
  BY DEF GateInv, FinishReplay, ledger
<1>2. PICK a \in Alts, s \in Shifts \cup {None}, k \in Vk, d \in {"down", "up"} :
         /\ hook.events = ReplayOf(a, s, k, d) /\ {a, s, k} \ {None} \subseteq Keys
         /\ \A x \in {a, s, k} \ {None} : x \notin blocked /\ KeyOf(x) \notin consumed
         /\ d = "down" => k \notin {a, s} /\ {a, s, k} \ {None} \subseteq phys
         /\ d = "up" => k \in {a, s} /\ k \notin phys /\ {a, s} \ {None, k} \subseteq phys
  BY <1>1 DEF ReplayHeld
<1>3. /\ blocked' \subseteq blocked \cup ({a, s, k} \ {None})
      /\ d = "up" => k \notin blocked' \ blocked
      /\ altForwarded' => /\ d = "down" \/ k # a
                          /\ a \notin blocked' \ blocked
      /\ ~SendInputMayFail => blocked' = blocked
  BY <1>1, <1>2, ReplayOutcome DEF ReplayHeld
<1>4. blocked' \subseteq phys'
  BY <1>1, <1>2, <1>3 DEF HeldKeys
<1>5. HeldKeys'
  <2>1. deferredShift = None
    BY <1>1 DEF GateExclusive
  <2> QED
    BY <1>1, <1>4, <2>1 DEF HeldKeys
<1>6. ForwardedHeld'
  <2> SUFFICES ASSUME altForwarded' PROVE phys' \cap Alts # {} /\ "Alt" \notin consumed' /\ ~AltBlocked'
    BY DEF ForwardedHeld
  <2>1. a \in phys /\ a # None
    BY <1>2, <1>3, ModifierKeys, NoneIsNoKey
  <2>2. "Alt" \notin consumed
    BY <1>2, <2>1, ModifierKeys
  <2>3. blocked' \cap Alts = {}
    <3>1. CASE ~SendInputMayFail
      BY <1>1, <1>3, <3>1 DEF ReplayAlone, AltBlocked
    <3>2. CASE OneAlt
      <4>1. blocked' \cap Alts \subseteq {a}
        BY <1>1, <1>4, <2>1, <3>2 DEF OneAlt, TypeOK
      <4> QED
        BY <1>2, <1>3, <2>1, <4>1
    <3> QED
      BY <3>1, <3>2
  <2> QED
    BY <1>1, <2>1, <2>2, <2>3 DEF AltBlocked
<1> QED
  BY <1>5, <1>6

\* The invariant speaks of the gate, the keys held and the replay only.
LEMMA GateInvSame ==
  ASSUME GateInv, UNCHANGED <<phys, mods, consumed, gate, disposed, hook>>
  PROVE  GateInv'
BY DEF GateInv, HeldKeys, ReplayHeld, ReplayAlone, ForwardedHeld, AltBlocked, gate

\* The second lock region of a recovery and the UI thread leave no key behind.
LEMMA GateInvOther ==
  ASSUME TypeOK, GateExclusive, GateInv, FinishRecovery \/ UiThread
  PROVE  GateInv'
<1>1. CASE FinishRecovery
  BY <1>1 DEF FinishRecovery, ledger, gate, Idle,
              GateInv, HeldKeys, ReplayHeld, ReplayAlone, ForwardedHeld, AltBlocked
<1>2. CASE SetSessionVisible(FALSE)
  BY <1>2, GateInvSame DEF SetSessionVisible, UiStep, external
<1>3. CASE ResetInputState
  <2>1. hook.op = "replay" => consumed' = consumed
    BY <1>3 DEF ResetInputState, GateExclusive, Tracked
  <2>2. altForwarded => consumed' = consumed
    BY <1>3 DEF ResetInputState, GateExclusive, Tracked
  <2> QED
    BY <1>3, <2>1, <2>2 DEF ResetInputState, UiIdle, external,
       GateInv, HeldKeys, ReplayHeld, ReplayAlone, ForwardedHeld, AltBlocked
<1>4. CASE CancelAdmission(gestureShift)
  BY <1>4, GateInvSame DEF CancelAdmission, UiStep, external
<1>5. CASE SendOwnerRecovery
  BY <1>5, GateInvSame DEF SendOwnerRecovery, ledger
<1>6. CASE Dispose
  <2>1. disposed' /\ hook' = hook /\ ~altForwarded' /\ blocked' = {} /\ consumed' = {} /\ phys' = phys
    BY <1>6 DEF Dispose, external
  <2> QED
    BY <2>1 DEF GateInv, ReplayHeld, ReplayAlone, AltBlocked
<1> QED
  BY <1>1, <1>2, <1>3, <1>4, <1>5, <1>6 DEF UiThread

\* The key that repeats is one that is held.
Repeating == typematic \in phys \cup {None}

\* It is after every step.
LEMMA RepeatingStep ==
  ASSUME Repeating, [Next]_vars
  PROVE  Repeating'
<1>1. CASE UNCHANGED <<phys, typematic>>
  BY <1>1 DEF Repeating
<1>2. ASSUME NEW k \in Keys, NEW d \in {"down", "up"}, Strike(k, d)
      PROVE  Repeating'
  BY <1>2, StrikeEffect DEF Repeating
<1>3. ASSUME NEW k \in Keys, NEW d \in {"down", "up"},
             \/ QuietKey(k, d) \/ DispatchedKey(k, d)
             \/ \E ok \in BOOLEAN : AdmittingKey(k, d, ok)
      PROVE  Strike(k, d)
  BY <1>3 DEF QuietKey, DispatchedKey, AdmittingKey, SwallowBlocked, SwallowOwed,
      FailClosed, StayForwarded, PassUnownedTab, ClaimAlt, ForwardCtrlAlt, DeferAlt,
      DeferShift, PassHeldShift, RepeatDeferred, ReplayChord, ReplayRelease,
      DiscardGesture, QuarantineKey, PassUnknown, PassDisposed, TakeKey, PassKey,
      PromoteTab, PromoteTabOverShift, BalanceShift, ReopenTab, Transition
<1>4. FinishReplay \/ FinishRecovery \/ UiThread \/ UNCHANGED vars
        => UNCHANGED <<phys, typematic>>
  BY DEF FinishReplay, FinishRecovery, UiThread, SetSessionVisible, ResetInputState,
         CancelAdmission, SendOwnerRecovery, Dispose, UiStep, external, vars
<1> QED
  BY <1>1, <1>2, <1>3, <1>4 DEF Next, HookThread

\* The invariant of the gate holds throughout.
LEMMA GateHolds ==
  ASSUME OneAlt \/ ~SendInputMayFail
  PROVE  Spec => [](GateInv /\ Repeating)
<1>1. Init => GateInv /\ Repeating
  BY DEF Init, GateInv, HeldKeys, ReplayHeld, ReplayAlone, ForwardedHeld, Repeating, Idle
<1>2. TypeOK /\ GateExclusive /\ GateInv /\ Repeating /\ [Next]_vars => GateInv' /\ Repeating'
  <2> SUFFICES ASSUME TypeOK, GateExclusive, GateInv, Repeating, [Next]_vars
               PROVE  GateInv'
    BY RepeatingStep
  <2>1. CASE UNCHANGED vars
    BY <2>1 DEF GateInv, HeldKeys, ReplayHeld, ReplayAlone, ForwardedHeld, AltBlocked,
                vars, external, ledger, gate
  <2>3. CASE HookThread
    BY <2>3, GateInvQuiet, GateInvAdmitting, GateInvReplay, GateInvOther DEF HookThread, Repeating
  <2>4. CASE UiThread
    BY <2>4, GateInvOther
  <2> QED
    BY <2>1, <2>3, <2>4 DEF Next
<1> QED
  BY <1>1, <1>2, Typing, GateExclusivity, PTL DEF Spec

\* GateOpens: for every keyboard with one Alt, or a SendInput that never
\* breaks off, nothing of a gesture lingers in the gate once all keys are up.
THEOREM GateOpens ==
  ASSUME OneAlt \/ ~SendInputMayFail
  PROVE  Spec => []GateClears
<1>1. GateInv /\ TypeOK => GateClears
  BY NoneIsNoKey DEF GateInv, HeldKeys, ForwardedHeld, GateClears, TypeOK
<1> QED
  BY <1>1, Typing, GateHolds, PTL

-----------------------------------------------------------------------------
(* What a callback does with a transition.                                 *)

\* A single transition decides for its own key and for no other.
LEMMA AfterOne ==
  ASSUME NEW held \in SUBSET Vk, NEW k \in Vk
  PROVE  /\ After(held, << <<k, "down">> >>) = held \cup {k}
         /\ After(held, << <<k, "up">> >>) = held \ {k}
         /\ Unpaired(held, << <<k, "down">> >>) = {}
         /\ k \in held => Unpaired(held, << <<k, "up">> >>) = {}
BY DEF After, Unpaired, Down, Up

\* What a transition let through does to the target.
LEMMA PassOnEffect ==
  ASSUME TypeOK, NEW k \in Vk, NEW d \in {"down", "up"}, PassOn(k, d)
  PROVE  /\ d = "down" => /\ target' = target \cup {k} /\ seen' = seen \cup {k}
                          /\ stray' = stray
         /\ d = "up" => /\ target' = target \ {k} /\ seen' = seen \ {k}
                        /\ k \in seen => stray' = stray
<1>1. target \in SUBSET Vk /\ seen \in SUBSET Vk
  BY DEF TypeOK
<1> QED
  BY <1>1, AfterOne DEF PassOn, Deliver

\* A press the gate or a ledger keeps from the target, and whose release is
\* to be kept from it too.
KeptBack(k) ==
  k \in blocked \/ KeyOf(k) \in consumed \/ k \in {deferredAlt, deferredShift}

\* FrigoTab holds the Alt, a session or a refused replay against the target.
Withheld == Tracked \/ active \/ AltBlocked \/ hook.op = "replay"

\* A release is kept from the target exactly if its press is kept back.
LEMMA ReleaseVerdict ==
  ASSUME TypeOK, GateExclusive, ~disposed, NEW k \in Keys,
         QuietKey(k, "up") \/ DispatchedKey(k, "up")
  PROVE  IF KeptBack(k) THEN Swallow(k, "up") ELSE PassOn(k, "up")
<1> k \in Vk /\ k # None
  BY KeysAssumption, NoneIsNoKey
<1> USE DEF KeptBack, GateExclusive, Tracked
<1>1. KeyOf(k) = "Unknown" => KeyOf(k) \notin consumed
  BY DEF TypeOK, SwitcherKeys
<1>2. CASE SwallowBlocked(k, "up") \/ SwallowOwed(k, "up")
  BY <1>2 DEF SwallowBlocked, SwallowOwed, Owed
<1>3. CASE FailClosed(k, "up") \/ StayForwarded(k, "up")
  BY <1>3 DEF FailClosed, StayForwarded, Owed, TypeOK
<1>4. CASE ReplayRelease(k, "up")
  BY <1>4 DEF ReplayRelease
<1>5. CASE PassUnknown(k, "up")
  BY <1>1, <1>5 DEF PassUnknown, LeftToPolicy, Ordinary
<1>6. CASE DispatchedKey(k, "up")
  BY <1>6 DEF DispatchedKey, TakeKey, PassKey, LeftToPolicy, Ordinary, Takes
<1>7. CASE PassDisposed(k, "up")
  BY <1>7 DEF PassDisposed
<1>8. ~ \/ PassUnownedTab(k, "up") \/ ClaimAlt(k, "up") \/ ForwardCtrlAlt(k, "up")
        \/ DeferAlt(k, "up") \/ DeferShift(k, "up") \/ PassHeldShift(k, "up")
        \/ RepeatDeferred(k, "up") \/ ReplayChord(k, "up")
        \/ DiscardGesture(k, "up") \/ QuarantineKey(k, "up")
  BY DEF PassUnownedTab, ClaimAlt, ForwardCtrlAlt, DeferAlt, DeferShift, PassHeldShift,
         RepeatDeferred, ReplayChord, DiscardGesture, BalanceShift, QuarantineKey
<1> QED
  BY <1>2, <1>3, <1>4, <1>5, <1>6, <1>7, <1>8 DEF QuietKey

\* A press that is swallowed is kept back, or waits to be replayed; one that
\* is let through is not kept back, and no session is on.  An Alt is let
\* through only as part of a chord that is forwarded, and under an Alt held back
\* only a Shift that was down before.
LEMMA PressVerdict ==
  ASSUME TypeOK, GateExclusive, ~disposed, NEW k \in Keys,
         QuietKey(k, "down") \/ DispatchedKey(k, "down")
  PROVE  \/ /\ Swallow(k, "down") /\ (KeptBack(k)' \/ ReplayChord(k, "down"))
            /\ Withheld \/ KeptBack(k) \/ DeferAlt(k, "down")
         \/ /\ PassOn(k, "down") /\ ~KeptBack(k) /\ ~active /\ ~AltBlocked
            /\ UNCHANGED <<ledger, deferredAlt, deferredShift, blocked, hook>>
            /\ k \in Alts => altForwarded'
            /\ Tracked => k \in Shifts /\ ShiftDown
         \/ DiscardGesture(k, "down")
<1> k \in Vk /\ k # None
  BY KeysAssumption, NoneIsNoKey
<1> USE DEF KeptBack, Withheld, GateExclusive, Tracked
<1>1. CASE SwallowBlocked(k, "down") \/ SwallowOwed(k, "down")
  BY <1>1 DEF SwallowBlocked, SwallowOwed, Owed, gate
<1>2. CASE FailClosed(k, "down")
  BY <1>2 DEF FailClosed
<1>3. CASE StayForwarded(k, "down")
  <2>1. altForwarded'
    BY <1>3, Zenon DEF StayForwarded
  <2>2. ~active /\ ~Tracked
    BY <1>3 DEF StayForwarded
  <2>3. k \notin blocked /\ KeyOf(k) \notin consumed /\ k \notin {deferredAlt, deferredShift}
    BY <1>3, <2>2 DEF StayForwarded, Owed
  <2> QED
    BY <1>3, <2>1, <2>2, <2>3 DEF StayForwarded
<1>4. CASE PassUnownedTab(k, "down")
  BY <1>4, ModifierKeys DEF PassUnownedTab, Ordinary, Owed, gate, TypeOK
<1>5. CASE ClaimAlt(k, "down")
  BY <1>5, ModifierKeys DEF ClaimAlt
<1>6. CASE ForwardCtrlAlt(k, "down")
  BY <1>6, ModifierKeys DEF ForwardCtrlAlt, Ordinary, Owed, TypeOK
<1>7. CASE DeferAlt(k, "down") \/ DeferShift(k, "down") \/ RepeatDeferred(k, "down")
  BY <1>7 DEF DeferAlt, DeferShift, RepeatDeferred, gate
<1>8. CASE PassHeldShift(k, "down")
  <2>1. k \notin Alts /\ k \notin {deferredAlt, deferredShift}
    BY <1>8, ModifierKeys DEF PassHeldShift, TypeOK
  <2> QED
    BY <1>8, <2>1 DEF PassHeldShift, Ordinary, Owed, gate
<1>9. CASE ReplayChord(k, "down")
  BY <1>9 DEF ReplayChord
<1>10. CASE QuarantineKey(k, "down")
  BY <1>10 DEF QuarantineKey
<1>11. CASE PassUnknown(k, "down")
  <2>1. KeyOf(k) \notin consumed /\ k \notin Alts
    BY <1>11, ModifierKeys DEF PassUnknown, TypeOK, SwitcherKeys
  <2> QED
    BY <1>11, <2>1 DEF PassUnknown, LeftToPolicy, Ordinary, gate, TypeOK
<1>12. CASE TakeKey(k, "down")
  <2>1. active
    BY <1>12 DEF TakeKey, LeftToPolicy, Ordinary, Owed, Takes, Admits
  <2> QED
    BY <1>12, <2>1 DEF TakeKey, OwedAfter
<1>13. CASE PassKey(k, "down")
  BY <1>13 DEF PassKey, LeftToPolicy, Ordinary, Takes, gate, TypeOK
<1>14. CASE PassDisposed(k, "down")
  BY <1>14 DEF PassDisposed
<1>15. ~ReplayRelease(k, "down")
  BY DEF ReplayRelease
<1> QED
  BY <1>1, <1>2, <1>3, <1>4, <1>5, <1>6, <1>7, <1>8, <1>9, <1>10, <1>11, <1>12, <1>13, <1>14, <1>15
     DEF QuietKey, DispatchedKey

-----------------------------------------------------------------------------
(* What a replay hands over, broken off or not.                            *)

\* The first transitions of a sequence.
LEMMA PrefixOf ==
  ASSUME NEW s \in Seq(Event), NEW n \in 0 .. Len(s)
  PROVE  /\ SubSeq(s, 1, n) \in Seq(Event) /\ Len(SubSeq(s, 1, n)) = n
         /\ DOMAIN SubSeq(s, 1, n) = 1 .. n
         /\ \A i \in 1 .. n : SubSeq(s, 1, n)[i] = s[i]
<1>1. Len(s) \in Nat /\ n \in Nat
  BY LenProperties
<1>2. \A i \in 1 .. n : s[i] \in Event
  <2>1. \A i \in 1 .. Len(s) : s[i] \in Event
    BY ElementOfSeq
  <2> QED
    BY <1>1, <2>1
<1>3. /\ SubSeq(s, 1, n) \in Seq(Event) /\ Len(SubSeq(s, 1, n)) = IF 1 <= n THEN n - 1 + 1 ELSE 0
      /\ \A i \in 1 .. n - 1 + 1 : SubSeq(s, 1, n)[i] = s[1 + i - 1]
  BY <1>1, <1>2, SubSeqProperties
<1>4. DOMAIN SubSeq(s, 1, n) = 1 .. Len(SubSeq(s, 1, n))
  BY <1>3, LenProperties
<1> QED
  BY <1>1, <1>3, <1>4

\* Presses come before the release, and a press of the released key does not
\* stay without it; nothing is sent twice.
SentBy(sent, a, s, k, d) ==
  /\ \A i \in DOMAIN sent : sent[i] = <<k, d>> \/ sent[i] = Down(a) \/ sent[i] = Down(s)
  /\ \A i, j \in DOMAIN sent : sent[i] = sent[j] => i = j
  /\ d = "up" => \A i \in DOMAIN sent :
       /\ sent[i] = Up(k) => \E j \in DOMAIN sent : j < i /\ sent[j] = Down(k)
       /\ sent[i] = Down(k) => \E j \in DOMAIN sent : j > i /\ sent[j] = Up(k)

\* A press that was not sent has its release blocked.
SentOrBlocked(sent, a, s, k, d, owed) ==
  \A x \in {a, s, k} \ {None} :
     d = "down" \/ x # k => x \in owed \/ \E i \in DOMAIN sent : sent[i] = Down(x)

\* None of these keys was pressed.
NotSent(sent, keys) == \A x \in keys : \A i \in DOMAIN sent : sent[i] # Down(x)

\* The Alt is pressed first.
AltFirst(sent, a) == DOMAIN sent # {} => \E i \in DOMAIN sent : sent[i] = Down(a)

\* The presses come before the release, a press that was sent has its release
\* sent too, and a press that was not sent has its release blocked.
LEMMA ReplaySent ==
  ASSUME TypeOK, NEW a \in Alts, NEW s \in Shifts \cup {None}, NEW k \in Vk,
         NEW d \in {"down", "up"}, hook.events = ReplayOf(a, s, k, d),
         d = "up" => k \in {a, s}, d = "down" => k \notin {a, s},
         FinishReplay
  PROVE  \E sent \in Seq(Event) :
           /\ Deliver(sent) /\ SentBy(sent, a, s, k, d)
           /\ SentOrBlocked(sent, a, s, k, d, blocked')
           /\ NotSent(sent, blocked' \ blocked) /\ AltFirst(sent, a)
<1> a \in Vk /\ s # a /\ (s # None => s \in Vk) /\ a # None /\ k # None
  BY ModifierKeys, NoneIsNoKey DEF Shifts, Alts, None
<1> DEFINE events == hook.events
           last == events[Len(events)]
           length == IF s = None THEN 2 ELSE 3
<1>1. /\ Len(events) = length /\ DOMAIN events = 1 .. length
      /\ last = <<k, d>> /\ events[1] = Down(a) /\ events[length] = <<k, d>>
      /\ s # None => events[2] = Down(s)
  <2>1. CASE s = None
    BY <2>1 DEF ReplayOf
  <2>2. CASE s # None
    BY <2>2 DEF ReplayOf
  <2> QED
    BY <2>1, <2>2
<1>2. events \in Seq(Event)
  BY DEF TypeOK, Work
<1>3. PICK n \in SentCounts(events) :
        /\ Deliver(SubSeq(events, 1, n)
             \o When(last[2] = "up" /\ n < Len(events) /\ (\E i \in 1 .. n : events[i] = Down(last[1])), <<last>>))
        /\ blocked' = blocked \cup {x \in {events[i][1] : i \in n + 1 .. Len(events)} : last # Up(x)}
  BY DEF FinishReplay
<1>4. n \in 0 .. length
  BY <1>1, <1>3, SentCountsType
<1> DEFINE passes == d = "up" /\ n < length /\ \E i \in 1 .. n : events[i] = Down(k)
           prefix == SubSeq(events, 1, n)
           rest   == When(passes, << <<k, d>> >>)
           sent   == prefix \o rest
<1>5. /\ prefix \in Seq(Event) /\ Len(prefix) = n /\ DOMAIN prefix = 1 .. n
      /\ \A i \in 1 .. n : prefix[i] = events[i]
  <2>1. n \in 0 .. Len(events)
    BY <1>1, <1>4
  <2> HIDE DEF events
  <2> QED
    BY <1>2, <2>1, PrefixOf
<1>6. /\ rest \in Seq(Event) /\ Len(rest) = (IF passes THEN 1 ELSE 0)
      /\ passes => rest[1] = <<k, d>>
  BY DEF When, Event
<1>7. /\ sent \in Seq(Event)
      /\ DOMAIN sent = 1 .. n + (IF passes THEN 1 ELSE 0)
      /\ \A i \in 1 .. n : sent[i] = events[i]
      /\ passes => sent[n + 1] = <<k, d>>
  <2> HIDE DEF prefix, rest, passes
  <2>1. /\ prefix \o rest \in Seq(Event) /\ Len(prefix \o rest) = Len(prefix) + Len(rest)
        /\ \A i \in 1 .. Len(prefix) + Len(rest) :
             (prefix \o rest)[i] = IF i <= Len(prefix) THEN prefix[i] ELSE rest[i - Len(prefix)]
    BY <1>5, <1>6, ConcatProperties
  <2>2. DOMAIN (prefix \o rest) = 1 .. Len(prefix) + Len(rest)
    BY <2>1, LenProperties
  <2>3. passes => n + 1 \in 1 .. Len(prefix) + Len(rest) /\ ~(n + 1 <= Len(prefix)) /\ (n + 1) - Len(prefix) = 1
    BY <1>4, <1>5, <1>6
  <2>4. passes => sent[n + 1] = <<k, d>>
    BY <1>6, <2>1, <2>3
  <2>5. \A i \in 1 .. n : sent[i] = events[i]
    BY <1>4, <1>5, <1>6, <2>1
  <2> QED
    BY <1>4, <1>5, <1>6, <2>1, <2>2, <2>4, <2>5
<1>8. Deliver(sent)
  BY <1>1, <1>3
<1>9. /\ \A i \in 1 .. length : events[i] = IF i = length THEN <<k, d>> ELSE
                                     IF i = 1 THEN Down(a) ELSE Down(s)
      /\ length \in {2, 3}
  BY <1>1
<1> HIDE DEF events, sent, prefix, rest
<1>10. \A i \in DOMAIN sent : sent[i] = <<k, d>> \/ sent[i] = Down(a) \/ sent[i] = Down(s)
  BY <1>4, <1>7, <1>9
<1>11. ASSUME d = "up", NEW i \in DOMAIN sent
       PROVE  /\ sent[i] = Up(k) => \E j \in DOMAIN sent : j < i /\ sent[j] = Down(k)
              /\ sent[i] = Down(k) => \E j \in DOMAIN sent : j > i /\ sent[j] = Up(k)
  <2>1. PICK e \in 1 .. length - 1 : events[e] = Down(k)
    <3>1. CASE k = a
      BY <1>9, <3>1
    <3>2. CASE k = s /\ s # None
      BY <1>9, <3>2
    <3> QED
      BY <1>11, <3>1, <3>2
  <2>2. \A j \in 1 .. length : events[j] = Up(k) <=> j = length
    BY <1>9, <1>11 DEF Up, Down
  <2>3. CASE n = length
    BY <1>7, <2>1, <2>2, <2>3, <1>9
  <2>4. CASE n < length /\ e <= n
    <3>1. passes
      BY <1>4, <1>9, <1>11, <2>1, <2>4
    <3>2. /\ DOMAIN sent = 1 .. n + 1 /\ sent[n + 1] = Up(k) /\ sent[e] = Down(k)
          /\ \A j \in 1 .. n : sent[j] # Up(k)
      BY <1>4, <1>7, <1>9, <1>11, <2>1, <2>2, <2>4, <3>1 DEF Up
    <3>3. /\ e \in DOMAIN sent /\ n + 1 \in DOMAIN sent /\ e < n + 1
          /\ sent[i] = Up(k) => i = n + 1
          /\ sent[i] = Down(k) => i # n + 1
      BY <1>4, <1>9, <2>1, <2>4, <3>2 DEF Up, Down
    <3> QED
      BY <1>4, <3>2, <3>3
  <2>5. CASE n < length /\ e > n
    <3>1. \A j \in 1 .. length : events[j] = Down(k) <=> j = e
      BY <1>9, <1>11, <2>1 DEF Up, Down
    <3> QED
    BY <1>4, <1>7, <1>9, <2>1, <2>2, <2>5, <3>1
  <2> QED
    BY <1>4, <1>9, <2>3, <2>4, <2>5
<1>14. ASSUME NEW i \in DOMAIN sent, NEW j \in DOMAIN sent, sent[i] = sent[j]
       PROVE  i = j
  <2>1. \A m, p \in 1 .. length : events[m] = events[p] => m = p
    BY <1>9 DEF Down
  <2>2. CASE passes
    <3>1. n < length /\ \A m \in 1 .. n : events[m] # <<k, d>>
      BY <1>4, <1>9, <2>1, <2>2
    <3> QED
      BY <1>4, <1>7, <1>9, <1>14, <2>1, <2>2, <3>1
  <2>3. CASE ~passes
    BY <1>4, <1>7, <1>9, <1>14, <2>1, <2>3
  <2> QED
    BY <2>2, <2>3
<1>12. ASSUME NEW x \in {a, s, k} \ {None}, d = "down" \/ x # k
       PROVE  x \in blocked' \/ \E i \in DOMAIN sent : sent[i] = Down(x)
  <2>1. PICK e \in 1 .. length : events[e] = Down(x)
    BY <1>9, <1>12 DEF Down
  <2>2. CASE e <= n
    BY <1>4, <1>7, <2>1, <2>2
  <2>3. CASE e > n
    <3>1. e \in n + 1 .. Len(events) /\ events[e][1] = x /\ last # Up(x)
      BY <1>1, <1>4, <1>12, <2>1, <2>3 DEF Up, Down
    <3> QED
      BY <1>3, <3>1
  <2> QED
    BY <1>4, <1>9, <2>2, <2>3
<1>15. ASSUME NEW x \in blocked' \ blocked, NEW i \in DOMAIN sent, sent[i] = Down(x)
       PROVE  FALSE
  <2>1. PICK e \in n + 1 .. Len(events) : events[e][1] = x /\ last # Up(x)
    BY <1>3, <1>15
  <2>2. e \in 1 .. length /\ events[e] = Down(x)
    BY <1>1, <1>4, <1>9, <2>1 DEF Down, Up
  <2>3. i \in 1 .. n /\ events[i] = Down(x)
    <3>1. passes => sent[n + 1] # Down(x)
      BY <1>7 DEF Down
    <3> QED
      BY <1>4, <1>7, <1>15, <3>1
  <2>4. e > n /\ i # e
    BY <1>1, <1>4, <2>1, <2>3
  <2> QED
    BY <1>4, <1>9, <2>2, <2>3, <2>4 DEF Down
<1>16. DOMAIN sent # {} => \E i \in DOMAIN sent : sent[i] = Down(a)
  BY <1>4, <1>7, <1>9
<1>13. sent \in Seq(Event)
  BY <1>7
<1> WITNESS sent \in Seq(Event)
<1> QED
  BY <1>8, <1>10, <1>11, <1>12, <1>14, <1>15, <1>16 DEF SentBy, SentOrBlocked, NotSent, AltFirst

\* What the target is told by it: the keys pressed are down, the key released
\* is not, and no other key changes.
Told(held, after, sent, a, s, k, d) ==
  /\ after \subseteq held \cup {x \in {a, s, k} \ {None} : d = "down" \/ x # k}
  /\ \A x \in held : d = "down" \/ x # k => x \in after
  /\ \A x \in {a, s, k} \ {None} : \A i \in DOMAIN sent :
       sent[i] = Down(x) /\ (d = "down" \/ x # k) => x \in after

\* Moreover no release comes without its press.
LEMMA SentEffect ==
  ASSUME NEW a \in Alts, NEW s \in Shifts \cup {None}, NEW k \in Vk,
         NEW d \in {"down", "up"}, d = "up" => k \in {a, s}, d = "down" => k \notin {a, s},
         NEW sent \in Seq(Event), SentBy(sent, a, s, k, d), NEW held \in SUBSET Vk
  PROVE  /\ Told(held, After(held, sent), sent, a, s, k, d)
         /\ Unpaired(held, sent) = {}
<1> a \in Vk /\ s # a /\ (s # None => s \in Vk) /\ a # None /\ k # None
  BY ModifierKeys, NoneIsNoKey DEF Shifts, Alts, None
<1>0. DOMAIN sent = 1 .. Len(sent) /\ Len(sent) \in Nat
  BY LenProperties
<1>1. \A i \in DOMAIN sent : /\ sent[i] = <<k, d>> \/ sent[i] = Down(a) \/ sent[i] = Down(s)
                             /\ sent[i][1] \in Vk
  BY DEF SentBy, Event
<1>2. ASSUME NEW x \in Vk, d = "down" \/ x # k
      PROVE  \A i \in DOMAIN sent : sent[i][1] = x => sent[i] = Down(x)
  BY <1>1, <1>2 DEF Down
<1>3. ASSUME NEW x \in Vk, d = "down" \/ x # k, NEW i \in DOMAIN sent, sent[i] = Down(x)
      PROVE  x \in After(held, sent)
  <2>1. \A j \in DOMAIN sent : j > i => sent[j][1] # x
    BY <1>0, <1>2, <1>3 DEF SentBy
  <2> QED
    BY <1>3, <2>1 DEF After
<1>4. ASSUME NEW x \in held, d = "down" \/ x # k PROVE x \in After(held, sent)
  <2>1. CASE \E i \in DOMAIN sent : sent[i][1] = x
    BY <1>2, <1>3, <1>4, <2>1
  <2>2. CASE \A i \in DOMAIN sent : sent[i][1] # x
    BY <2>2 DEF After
  <2> QED
    BY <2>1, <2>2
<1>5. ASSUME NEW x \in After(held, sent), x \notin held
      PROVE  x \in {a, s, k} \ {None} /\ (d = "down" \/ x # k)
  <2>1. PICK i \in DOMAIN sent : sent[i] = Down(x) /\ \A j \in DOMAIN sent : j > i => sent[j][1] # x
    BY <1>5 DEF After
  <2>2. x \in {a, s, k} \ {None}
    BY <1>1, <1>5, <2>1, NoneIsNoKey DEF Down, After
  <2>3. d = "up" /\ x = k => FALSE
    <3> SUFFICES ASSUME d = "up", x = k PROVE FALSE
      OBVIOUS
    <3>1. PICK j \in DOMAIN sent : j > i /\ sent[j] = Up(k)
      BY <2>1 DEF SentBy
    <3> QED
      BY <2>1, <3>1 DEF Up
  <2> QED
    BY <2>2, <2>3
<1>6. Unpaired(held, sent) = {}
  <2> SUFFICES ASSUME NEW x \in Vk \ held, NEW i \in DOMAIN sent, sent[i] = Up(x),
                      \A j \in DOMAIN sent : j < i => sent[j][1] # x
               PROVE  FALSE
    BY DEF Unpaired
  <2>1. x = k /\ d = "up"
    BY <1>1 DEF Up, Down
  <2>2. PICK j \in DOMAIN sent : j < i /\ sent[j] = Down(k)
    BY <2>1 DEF SentBy
  <2> QED
    BY <2>1, <2>2 DEF Down
<1> QED
  BY <1>3, <1>4, <1>5, <1>6 DEF Told

-----------------------------------------------------------------------------
(* A press kept from the target has its release kept too.                  *)

\* A press that waits to be replayed.
Replays(k) == hook.op = "replay" /\ \E i \in DOMAIN hook.events : hook.events[i] = Down(k)

\* A held key the target was not told of is kept back, or waits for the replay.
Accounted == ~disposed => \A k \in phys \ seen : KeptBack(k) \/ Replays(k)

\* No other key shares the key's entry in the release ledger.
Alone(x) == \A k \in Keys \ {x} : KeyOf(x) \in SwitcherKeys => KeyOf(x) # KeyOf(k)

\* With one Alt and one Shift the release ledger tells the keys apart.
LEMMA OneOwner ==
  ASSUME OneAlt, NEW x \in Keys, OneShift \/ x \in Alts
  PROVE  Alone(x)
BY KeysAssumption DEF Alone, OneAlt, OneShift, SwitcherKeys, KeyOf, Alts, Shifts, Vk,
   Modifiers, Ctrls

\* What is held back waits in a replay as it is.
LEMMA DeferredReplays ==
  ASSUME NEW k \in Vk, NEW d, deferredAlt \in Alts, deferredShift \in Shifts \cup {None},
         hook' = [op |-> "replay", events |-> Deferred \o << <<k, d>> >>]
  PROVE  /\ \A x \in {deferredAlt, deferredShift} \ {None} : Replays(x)'
         /\ d = "down" => Replays(k)'
<1>1. hook'.op = "replay" /\ hook'.events = ReplayOf(deferredAlt, deferredShift, k, d)
  BY DeferredReplay
<1>2. CASE deferredShift = None
  <2>1. hook'.events = << Down(deferredAlt), <<k, d>> >>
    BY <1>1, <1>2 DEF ReplayOf
  <2>2. DOMAIN hook'.events = 1 .. 2 /\ hook'.events[1] = Down(deferredAlt) /\ hook'.events[2] = <<k, d>>
    BY ONLY <2>1
  <2>3. \A x : (\E i \in 1 .. 2 : hook'.events[i] = Down(x)) => Replays(x)'
    BY <1>1, <2>2 DEF Replays
  <2> QED
    BY ONLY <1>2, <2>2, <2>3 DEF Down
<1>3. CASE deferredShift # None
  <2>1. hook'.events = << Down(deferredAlt), Down(deferredShift), <<k, d>> >>
    BY <1>1, <1>3 DEF ReplayOf
  <2>2. /\ DOMAIN hook'.events = 1 .. 3 /\ hook'.events[1] = Down(deferredAlt)
        /\ hook'.events[2] = Down(deferredShift) /\ hook'.events[3] = <<k, d>>
    BY ONLY <2>1
  <2>3. \A x : (\E i \in 1 .. 3 : hook'.events[i] = Down(x)) => Replays(x)'
    BY <1>1, <2>2 DEF Replays
  <2> QED
    BY ONLY <1>3, <2>2, <2>3 DEF Down
<1> QED
  BY <1>2, <1>3

\* A key that is kept back stays so through the transitions of other keys.
LEMMA KeptBackStays ==
  ASSUME TypeOK, GateExclusive, ~disposed, NEW k \in Keys, NEW d \in {"down", "up"},
         QuietKey(k, d) \/ DispatchedKey(k, d), NEW x \in Keys, KeptBack(x),
         d = "up" => x # k /\ Alone(x)
  PROVE  KeptBack(x)' \/ Replays(x)'
<1> k \in Vk /\ x \in Vk /\ k # None /\ x # None
  BY KeysAssumption, NoneIsNoKey
<1>0. d = "up" /\ KeyOf(x) \in consumed => KeyOf(x) \in consumed \ {KeyOf(k)}
  BY DEF Alone, TypeOK
<1> USE DEF KeptBack
<1>1. CASE UNCHANGED <<deferredAlt, deferredShift>> /\ blocked \ {k} \subseteq blocked'
             /\ (d = "down" => blocked \subseteq blocked' /\ consumed \subseteq consumed')
             /\ (d = "up" => consumed \ {KeyOf(k)} \subseteq consumed')
  BY <1>0, <1>1
<1>2. CASE SwallowBlocked(k, d) \/ SwallowOwed(k, d) \/ FailClosed(k, d) \/ StayForwarded(k, d)
  BY <1>1, <1>2 DEF SwallowBlocked, SwallowOwed, FailClosed, StayForwarded, gate, ledger
<1>3. CASE PassUnownedTab(k, d) \/ ClaimAlt(k, d) \/ ForwardCtrlAlt(k, d)
  BY <1>1, <1>3 DEF PassUnownedTab, ClaimAlt, ForwardCtrlAlt, gate, ledger
<1>4. CASE DeferAlt(k, d)
  BY <1>4 DEF DeferAlt, GateExclusive, Tracked, ledger
<1>5. CASE DeferShift(k, d)
  BY <1>5 DEF DeferShift, ledger
<1>6. CASE PassHeldShift(k, d) \/ RepeatDeferred(k, d)
  BY <1>1, <1>6 DEF PassHeldShift, RepeatDeferred, gate, ledger
<1>7. CASE ReplayChord(k, d)
  <2>1. \A y \in {deferredAlt, deferredShift} \ {None} : Replays(y)'
    BY <1>7, DeferredReplays DEF ReplayChord, Tracked, TypeOK, Down
  <2> QED
    BY <1>7, <2>1 DEF ReplayChord, ledger
<1>8. CASE ReplayRelease(k, d)
  <2>1. \A y \in {deferredAlt, deferredShift} \ {None} : Replays(y)'
    BY <1>8, DeferredReplays DEF ReplayRelease, Tracked, TypeOK, Up
  <2> QED
    BY <1>0, <1>8, <2>1 DEF ReplayRelease
<1>9. CASE DiscardGesture(k, d)
  <2>1. /\ d = "down" /\ blocked \subseteq blocked' /\ deferredShift' = deferredShift
        /\ consumed \cup {"Alt"} \subseteq consumed'
    BY <1>9 DEF DiscardGesture, BalanceShift
  <2>2. x = deferredAlt => KeyOf(x) = "Alt"
    BY ModifierKeys DEF TypeOK
  <2> QED
    BY <2>1, <2>2
<1>10. CASE QuarantineKey(k, d) \/ PassUnknown(k, d)
  BY <1>1, <1>10 DEF QuarantineKey, PassUnknown, gate, ledger
<1>11. CASE TakeKey(k, d) \/ PassKey(k, d)
  BY <1>1, <1>11 DEF TakeKey, PassKey, gate, ledger, OwedAfter
<1>12. CASE PassDisposed(k, d)
  BY <1>12 DEF PassDisposed
<1> QED
  BY <1>2, <1>3, <1>4, <1>5, <1>6, <1>7, <1>8, <1>9, <1>10, <1>11, <1>12 DEF QuietKey, DispatchedKey

\* An admission takes the Alt and the Shift held back into the ledger.
LEMMA KeptBackAdmitting ==
  ASSUME TypeOK, NEW k \in Keys, NEW d \in {"down", "up"}, NEW ok \in BOOLEAN,
         AdmittingKey(k, d, ok)
  PROVE  /\ KeptBack(k)' /\ d = "down"
         /\ \A x \in Keys : KeptBack(x) => KeptBack(x)'
         /\ phys' = phys \cup {k} /\ UNCHANGED <<seen, disposed>> /\ ~disposed
         /\ stray' \subseteq stray
<1>1. d = "down" /\ Transition(k, d) /\ KeyOf(k) = "Tab"
  BY DEF AdmittingKey, PromoteTab, PromoteTabOverShift, BalanceShift, ReopenTab
<1>2. KeyOf(k) \in consumed' /\ consumed \subseteq consumed' /\ blocked \subseteq blocked'
  BY <1>1 DEF AdmittingKey, PromoteTab, PromoteTabOverShift, BalanceShift, ReopenTab,
     Admission, OwedAfter, gate
<1>3. /\ deferredAlt # None => deferredAlt' = deferredAlt \/ "Alt" \in consumed'
      /\ deferredShift # None => deferredShift' = deferredShift \/ "Shift" \in consumed'
  BY DEF AdmittingKey, PromoteTab, PromoteTabOverShift, BalanceShift, ReopenTab, Admission,
     OwedAfter, gate
<1>4. \A x \in Keys : KeptBack(x) => KeptBack(x)'
  <2> SUFFICES ASSUME NEW x \in Keys, KeptBack(x) PROVE KeptBack(x)'
    OBVIOUS
  <2>1. x \in Vk /\ x # None
    BY KeysAssumption, NoneIsNoKey
  <2>2. /\ x = deferredAlt => KeyOf(x) = "Alt"
        /\ x = deferredShift => KeyOf(x) = "Shift"
    BY <2>1, ModifierKeys DEF TypeOK
  <2> QED
    BY <1>2, <1>3, <2>1, <2>2 DEF KeptBack
<1>5. phys' = phys \cup {k} /\ UNCHANGED disposed /\ ~disposed
  BY <1>1 DEF Transition, Strike, Press
<1>6. /\ UNCHANGED seen
      /\ stray' \subseteq stray
  BY <1>1 DEF AdmittingKey, PromoteTab, PromoteTabOverShift, BalanceShift, ReopenTab,
     Swallow, Inject
<1> QED
  BY <1>1, <1>2, <1>4, <1>5, <1>6 DEF KeptBack

\* A callback runs while nothing waits to be sent, and moves its key alone.
LEMMA CallbackMoves ==
  ASSUME ~disposed, NEW k \in Keys, NEW d \in {"down", "up"},
         QuietKey(k, d) \/ DispatchedKey(k, d)
  PROVE  /\ hook = Idle /\ ~disposed' /\ Transition(k, d)
         /\ d = "down" => phys' = phys \cup {k}
         /\ d = "up" => k \in phys /\ phys' = phys \ {k}
<1>1. Transition(k, d)
  BY DEF QuietKey, DispatchedKey, SwallowBlocked, SwallowOwed, FailClosed,
      StayForwarded, PassUnownedTab, ClaimAlt, ForwardCtrlAlt, DeferAlt, DeferShift,
      PassHeldShift, RepeatDeferred, ReplayChord, ReplayRelease, DiscardGesture,
      QuarantineKey, PassUnknown, TakeKey, PassKey, BalanceShift, PassDisposed
<1> QED
  BY <1>1 DEF Transition, Strike, Press, Release

\* No branch loses track of a press it keeps from the target.
LEMMA AccountedCallback ==
  ASSUME TypeOK, GateExclusive, Accounted, NoStrayRelease, OneAlt, OneShift,
         NEW k \in Keys, NEW d \in {"down", "up"},
         QuietKey(k, d) \/ DispatchedKey(k, d)
  PROVE  Accounted' /\ NoStrayRelease'
<1> k \in Vk
  BY KeysAssumption
<1>1. CASE disposed
  <2>1. disposed'
    BY <1>1 DEF QuietKey, DispatchedKey, SwallowBlocked, SwallowOwed, FailClosed,
      StayForwarded, PassUnownedTab, ClaimAlt, ForwardCtrlAlt, DeferAlt, DeferShift,
      PassHeldShift, RepeatDeferred, ReplayChord, ReplayRelease, DiscardGesture,
      QuarantineKey, PassUnknown, PassDisposed, TakeKey, PassKey, BalanceShift, Transition
  <2> QED
    BY <2>1 DEF Accounted, NoStrayRelease
<1> SUFFICES ASSUME ~disposed PROVE Accounted' /\ NoStrayRelease'
  BY <1>1
<1>2. /\ hook = Idle /\ ~disposed' /\ phys \subseteq Keys
      /\ \A x \in phys \ seen : KeptBack(x)
  BY CallbackMoves DEF Accounted, Replays, Idle, TypeOK
<1>3. \A x \in Keys : KeptBack(x) /\ (d = "up" => x # k) => KeptBack(x)' \/ Replays(x)'
  BY OneOwner, KeptBackStays
<1>4. CASE d = "down"
  <2>1. phys' = phys \cup {k}
    BY <1>4, CallbackMoves
  <2>2. CASE Swallow(k, "down") /\ (KeptBack(k)' \/ ReplayChord(k, "down"))
    <3>1. KeptBack(k)' \/ Replays(k)'
      BY <2>2, DeferredReplays DEF ReplayChord, Tracked, TypeOK, Down
    <3>2. seen' = seen /\ stray' = stray
      BY <2>2 DEF Swallow
    <3> QED
      BY <1>2, <1>3, <1>4, <2>1, <3>1, <3>2 DEF Accounted, NoStrayRelease
  <2>3. CASE PassOn(k, "down")
    <3>1. seen' = seen \cup {k} /\ stray' = stray
      BY <2>3, PassOnEffect
    <3> QED
      BY <1>2, <1>3, <1>4, <2>1, <3>1 DEF Accounted, NoStrayRelease
  <2>4. CASE DiscardGesture(k, "down")
    <3>1. KeptBack(k)'
      BY <2>4 DEF DiscardGesture, BalanceShift, KeptBack
    <3>2. /\ seen' = seen
          /\ stray' \subseteq stray
      BY <2>4 DEF DiscardGesture, BalanceShift, Inject
    <3> QED
      BY <1>2, <1>3, <1>4, <2>1, <3>1, <3>2 DEF Accounted, NoStrayRelease
  <2> QED
    BY <1>4, <2>2, <2>3, <2>4, PressVerdict
<1>5. CASE d = "up"
  <2>1. k \in phys /\ phys' = phys \ {k}
    BY <1>5, CallbackMoves
  <2>2. IF KeptBack(k) THEN Swallow(k, "up") ELSE PassOn(k, "up")
    BY <1>5, ReleaseVerdict
  <2>3. seen' = seen \ {k} /\ stray' = stray
    <3>1. CASE KeptBack(k)
      BY <2>2, <3>1 DEF Swallow
    <3>2. CASE ~KeptBack(k)
      BY <1>2, <2>1, <2>2, <3>2, PassOnEffect
    <3> QED
      BY <3>1, <3>2
  <2> QED
    BY <1>2, <1>3, <1>5, <2>1, <2>3 DEF Accounted, NoStrayRelease
<1> QED
  BY <1>4, <1>5

\* Nor does a replay, however much of it SendInput takes.
LEMMA AccountedReplay ==
  ASSUME TypeOK, ReplayHeld, Accounted, NoStrayRelease, FinishReplay
  PROVE  Accounted' /\ NoStrayRelease'
<1>1. /\ hook.op = "replay" /\ hook' = Idle
      /\ UNCHANGED <<phys, consumed, deferredAlt, deferredShift, disposed>>
      /\ blocked \subseteq blocked'
  BY DEF FinishReplay, ledger
<1> SUFFICES ASSUME ~disposed PROVE Accounted' /\ NoStrayRelease'
  BY <1>1 DEF Accounted, NoStrayRelease
<1>2. PICK a \in Alts, s \in Shifts \cup {None}, k \in Vk, d \in {"down", "up"} :
         /\ hook.events = ReplayOf(a, s, k, d)
         /\ d = "down" => k \notin {a, s}
         /\ d = "up" => k \in {a, s} /\ k \notin phys
  BY <1>1 DEF ReplayHeld
<1>3. PICK sent \in Seq(Event) :
         /\ Deliver(sent) /\ SentBy(sent, a, s, k, d)
         /\ SentOrBlocked(sent, a, s, k, d, blocked')
  BY <1>2, ReplaySent
<1>4. /\ \A x \in seen : d = "down" \/ x # k => x \in seen'
      /\ \A x \in {a, s, k} \ {None} : \A i \in DOMAIN sent :
           sent[i] = Down(x) /\ (d = "down" \/ x # k) => x \in seen'
      /\ stray' = stray
  <2>1. seen \in SUBSET Vk /\ seen' = After(seen, sent) /\ stray' = stray \cup Unpaired(seen, sent)
    BY <1>3 DEF Deliver, TypeOK
  <2>2. (d = "up" => k \in {a, s}) /\ (d = "down" => k \notin {a, s})
    BY <1>2
  <2>3. Told(seen, After(seen, sent), sent, a, s, k, d) /\ Unpaired(seen, sent) = {}
    BY <1>3, <2>1, <2>2, SentEffect
  <2> QED
    BY <2>1, <2>3 DEF Told
<1>5. ASSUME NEW x \in phys \ seen'
      PROVE  KeptBack(x)'
  <2>1. (d = "down" \/ x # k) /\ x \notin seen
    BY <1>2, <1>4, <1>5
  <2>2. CASE KeptBack(x)
    BY <1>1, <2>2 DEF KeptBack
  <2>3. CASE Replays(x)
    <3>1. x \in Vk /\ x # None
      BY <1>5, KeysAssumption, NoneIsNoKey DEF TypeOK
    <3>2. x \in {a, s, k} \ {None}
      <4>1. PICK i \in DOMAIN hook.events : hook.events[i] = Down(x)
        BY <2>3 DEF Replays
      <4>2. CASE s = None
        BY <1>2, <3>1, <4>1, <4>2 DEF ReplayOf, Down
      <4>3. CASE s # None
        BY <1>2, <3>1, <4>1, <4>3 DEF ReplayOf, Down
      <4> QED
        BY <4>2, <4>3
    <3> QED
      BY <1>3, <1>4, <1>5, <2>1, <3>2 DEF KeptBack, SentOrBlocked
  <2> QED
    BY <1>5, <2>1, <2>2, <2>3 DEF Accounted
<1> QED
  BY <1>1, <1>4, <1>5 DEF Accounted, NoStrayRelease

\* A recovery and the UI thread let no physical transition through; what was
\* held back when the hook is reset is owed from then on.
LEMMA AccountedOther ==
  ASSUME TypeOK, Accounted, NoStrayRelease, FinishRecovery \/ UiThread
  PROVE  Accounted' /\ NoStrayRelease'
<1>0. ASSUME UNCHANGED <<phys, seen, disposed>>, disposed \/ hook' = hook \/ hook.op = "recover",
             stray' \subseteq stray,
             \A x \in phys : KeptBack(x) => KeptBack(x)'
      PROVE  Accounted' /\ NoStrayRelease'
  BY <1>0 DEF Accounted, NoStrayRelease, Replays
<1>1. ASSUME NEW events, SendRecovery(events)
      PROVE  stray' \subseteq stray
  BY <1>1 DEF SendRecovery, Inject
<1>2. CASE FinishRecovery
  BY <1>0, <1>1, <1>2 DEF FinishRecovery, ledger, gate, KeptBack
<1>3. CASE SetSessionVisible(FALSE) \/ CancelAdmission(gestureShift)
  BY <1>0, <1>3 DEF SetSessionVisible, CancelAdmission, UiStep, external, gate, KeptBack
<1>4. CASE ResetInputState
  <2>1. \A x \in phys : KeptBack(x) => KeptBack(x)'
    <3> SUFFICES ASSUME NEW x \in phys, KeptBack(x) PROVE KeptBack(x)'
      OBVIOUS
    <3>1. x \in Vk /\ x # None
      BY KeysAssumption, NoneIsNoKey DEF TypeOK
    <3>2. /\ x = deferredAlt => KeyOf(x) = "Alt"
          /\ x = deferredShift => KeyOf(x) = "Shift"
      BY <3>1, ModifierKeys DEF TypeOK
    <3> QED
      BY <1>4, <3>1, <3>2 DEF ResetInputState, KeptBack, Tracked
  <2> QED
    BY <1>0, <1>4, <2>1 DEF ResetInputState, external
<1>5. CASE SendOwnerRecovery
  BY <1>0, <1>1, <1>5 DEF SendOwnerRecovery, ledger, gate, KeptBack
<1>6. CASE Dispose
  BY <1>6 DEF Dispose, Accounted, NoStrayRelease
<1> QED
  BY <1>2, <1>3, <1>4, <1>5, <1>6 DEF UiThread

\* Nor does an admission, or any other step.
LEMMA AccountedStep ==
  ASSUME TypeOK, GateExclusive, GateInv, Accounted, NoStrayRelease, OneAlt, OneShift, [Next]_vars
  PROVE  Accounted' /\ NoStrayRelease'
<1>1. CASE UNCHANGED vars
  BY <1>1 DEF Accounted, NoStrayRelease, KeptBack, Replays, vars, external, ledger, gate
<1>2. CASE FinishReplay
  BY <1>2, AccountedReplay DEF GateInv
<1>3. CASE FinishRecovery \/ UiThread
  BY <1>3, AccountedOther
<1>4. ASSUME NEW k \in Keys, NEW d \in {"down", "up"}, NEW ok \in BOOLEAN, AdmittingKey(k, d, ok)
      PROVE  Accounted' /\ NoStrayRelease'
  <2>1. /\ KeptBack(k)' /\ \A x \in Keys : KeptBack(x) => KeptBack(x)'
        /\ phys' = phys \cup {k} /\ UNCHANGED <<seen, disposed>>
        /\ stray' \subseteq stray
    BY <1>4, KeptBackAdmitting
  <2>2. hook = Idle /\ phys \subseteq Keys
    BY <1>4 DEF AdmittingKey, PromoteTab, PromoteTabOverShift, BalanceShift, ReopenTab,
       Transition, TypeOK
  <2> QED
    BY <2>1, <2>2 DEF Accounted, NoStrayRelease, Replays, Idle
<1> QED
  BY <1>1, <1>2, <1>3, <1>4, AccountedCallback DEF Next, HookThread

\* Every press kept from the target is accounted for throughout.
LEMMA AccountedHolds ==
  ASSUME OneAlt, OneShift
  PROVE  Spec => [](Accounted /\ NoStrayRelease)
<1>1. Init => Accounted /\ NoStrayRelease
  BY DEF Init, Accounted, NoStrayRelease
<1>2. TypeOK /\ GateExclusive /\ GateInv /\ Accounted /\ NoStrayRelease /\ [Next]_vars
        => Accounted' /\ NoStrayRelease'
  BY AccountedStep
<1> QED
  BY <1>1, <1>2, Typing, GateExclusivity, GateHolds, PTL DEF Spec

\* NoStrayReleases: on a keyboard with one Alt and one Shift no physical
\* release gets through for a key the target never saw pressed.
THEOREM NoStrayReleases ==
  ASSUME OneAlt, OneShift
  PROVE  Spec => []NoStrayRelease
BY AccountedHolds, PTL

-----------------------------------------------------------------------------
(* A recovered gesture, whole or broken off, adds no key to the target.    *)

\* Every press of the key is released later on, and only then.
Paired(events, k) ==
  /\ \A i \in DOMAIN events : events[i] = Down(k) =>
       /\ \E j \in DOMAIN events : events[j] = Up(k)
       /\ \A j \in DOMAIN events : events[j] = Up(k) => i < j
  /\ \A j \in DOMAIN events : events[j] = Up(k) =>
       \E i \in DOMAIN events : i < j /\ events[i] = Down(k)

\* The sequence leaves the key alone, or only presses it.
Free(events, k)   == \A i \in DOMAIN events : events[i][1] # k
Opened(events, k) == /\ \E i \in DOMAIN events : events[i] = Down(k)
                     /\ \A i \in DOMAIN events : events[i] # Up(k)

\* Where an element of a concatenation comes from.
LEMMA ConcatElements ==
  ASSUME NEW s \in Seq(Event), NEW t \in Seq(Event)
  PROVE  /\ s \o t \in Seq(Event) /\ DOMAIN (s \o t) = 1 .. Len(s) + Len(t)
         /\ Len(s) \in Nat /\ Len(t) \in Nat
         /\ DOMAIN s = 1 .. Len(s) /\ DOMAIN t = 1 .. Len(t)
         /\ \A i \in DOMAIN s : i \in DOMAIN (s \o t) /\ (s \o t)[i] = s[i]
         /\ \A i \in DOMAIN t : /\ Len(s) + i \in DOMAIN (s \o t)
                                /\ (s \o t)[Len(s) + i] = t[i]
         /\ \A i \in DOMAIN (s \o t) :
              \/ i \in DOMAIN s /\ (s \o t)[i] = s[i]
              \/ /\ i - Len(s) \in DOMAIN t /\ i > Len(s)
                 /\ (s \o t)[i] = t[i - Len(s)]
<1>1. Len(s) \in Nat /\ Len(t) \in Nat /\ DOMAIN s = 1 .. Len(s) /\ DOMAIN t = 1 .. Len(t)
  BY LenProperties
<1>2. /\ s \o t \in Seq(Event) /\ Len(s \o t) = Len(s) + Len(t)
      /\ \A i \in 1 .. Len(s) + Len(t) :
           (s \o t)[i] = IF i <= Len(s) THEN s[i] ELSE t[i - Len(s)]
  BY ConcatProperties
<1>3. DOMAIN (s \o t) = 1 .. Len(s) + Len(t)
  BY <1>2, LenProperties
<1>4. \A i \in DOMAIN t : /\ Len(s) + i \in DOMAIN (s \o t)
                          /\ (s \o t)[Len(s) + i] = t[i]
  <2> SUFFICES ASSUME NEW i \in DOMAIN t
               PROVE  Len(s) + i \in DOMAIN (s \o t) /\ (s \o t)[Len(s) + i] = t[i]
    OBVIOUS
  <2>1. Len(s) + i \in 1 .. Len(s) + Len(t) /\ ~(Len(s) + i <= Len(s)) /\ (Len(s) + i) - Len(s) = i
    BY <1>1
  <2> QED
    BY <1>2, <1>3, <2>1
<1>5. \A i \in DOMAIN s : i \in DOMAIN (s \o t) /\ (s \o t)[i] = s[i]
  BY <1>1, <1>2, <1>3
<1>6. \A i \in DOMAIN (s \o t) :
              \/ i \in DOMAIN s /\ (s \o t)[i] = s[i]
              \/ /\ i - Len(s) \in DOMAIN t /\ i > Len(s)
                 /\ (s \o t)[i] = t[i - Len(s)]
  BY <1>1, <1>2, <1>3
<1> QED
  BY <1>1, <1>2, <1>3, <1>4, <1>5, <1>6

\* An event is a press or a release of its own key only.
LEMMA EventKeys == \A k, l : /\ Down(k) # Up(l) /\ Down(k)[1] = k /\ Up(k)[1] = k
                             /\ Down(k) = Down(l) => k = l
                             /\ Up(k) = Up(l) => k = l
BY DEF Down, Up

\* Opening and pairing survive events of other keys.
LEMMA FreeConcat ==
  ASSUME NEW s \in Seq(Event), NEW t \in Seq(Event), NEW k
  PROVE  /\ Free(s, k) /\ Free(t, k) => Free(s \o t, k)
         /\ Opened(s, k) /\ Free(t, k) => Opened(s \o t, k)
         /\ Free(s, k) => Paired(s, k)
         /\ Paired(s, k) /\ Free(t, k) => Paired(s \o t, k)
<1>0. ASSUME NEW r, Free(r, k)
      PROVE  \A i \in DOMAIN r : r[i] # Down(k) /\ r[i] # Up(k)
  BY <1>0, EventKeys DEF Free
<1>1. Free(s, k) /\ Free(t, k) => Free(s \o t, k)
  BY ConcatElements DEF Free
<1>2. Opened(s, k) /\ Free(t, k) => Opened(s \o t, k)
  BY <1>0, ConcatElements DEF Opened
<1>3. Free(s, k) => Paired(s, k)
  BY <1>0 DEF Paired
<1>4. Paired(s, k) /\ Free(t, k) => Paired(s \o t, k)
  <2> SUFFICES ASSUME Paired(s, k), Free(t, k) PROVE Paired(s \o t, k)
    OBVIOUS
  <2>1. \A i \in DOMAIN (s \o t) : (s \o t)[i] \in {Down(k), Up(k)} =>
           i \in DOMAIN s /\ (s \o t)[i] = s[i]
    BY <1>0, ConcatElements
  <2>2. \A i \in DOMAIN s : i \in DOMAIN (s \o t) /\ (s \o t)[i] = s[i]
    BY ConcatElements
  <2> QED
    BY <2>1, <2>2 DEF Paired
<1> QED
  BY <1>1, <1>2, <1>3, <1>4

\* A press opens its key, a release closes it.
LEMMA OpenAndClose ==
  ASSUME NEW s \in Seq(Event), NEW k \in Vk
  PROVE  /\ Free(s, k) => Opened(s \o <<Down(k)>>, k)
         /\ Opened(s, k) => Paired(s \o <<Up(k)>>, k)
         /\ Free(s, k) => Paired(s \o <<Down(k), Up(k)>>, k)
<1>1. ASSUME NEW t \in Seq(Event), Free(s, k)
      PROVE  /\ Len(s) \in Nat /\ \A i \in DOMAIN s : i <= Len(s)
             /\ \A i \in DOMAIN t : Len(s) + i \in DOMAIN (s \o t) /\ (s \o t)[Len(s) + i] = t[i]
             /\ \A i \in DOMAIN (s \o t) : (s \o t)[i] \in {Down(k), Up(k)} =>
                  i - Len(s) \in DOMAIN t /\ (s \o t)[i] = t[i - Len(s)] /\ i \in Nat
  <2>1. \A i \in DOMAIN s : s[i] # Down(k) /\ s[i] # Up(k)
    BY <1>1, EventKeys DEF Free
  <2> QED
    BY <1>1, <2>1, ConcatElements
<1>2. Free(s, k) => Opened(s \o <<Down(k)>>, k)
  <2> DEFINE t == <<Down(k)>>
  <2>1. t \in Seq(Event) /\ DOMAIN t = {1} /\ t[1] = Down(k)
    BY DEF Event, Down
  <2> HIDE DEF t
  <2> SUFFICES ASSUME Free(s, k) PROVE Opened(s \o t, k)
    BY DEF t
  <2>2. \A i \in DOMAIN t : Len(s) + i \in DOMAIN (s \o t) /\ (s \o t)[Len(s) + i] = t[i]
    BY <1>1, <2>1
  <2>3. \A i \in DOMAIN (s \o t) : (s \o t)[i] \in {Down(k), Up(k)} =>
          i - Len(s) \in DOMAIN t /\ (s \o t)[i] = t[i - Len(s)] /\ i \in Nat
    BY <1>1, <2>1
  <2>4. Len(s) + 1 \in DOMAIN (s \o t) /\ (s \o t)[Len(s) + 1] = Down(k)
    BY <2>1, <2>2
  <2>5. \A i \in DOMAIN (s \o t) : (s \o t)[i] # Up(k)
    BY <2>1, <2>3, EventKeys
  <2> QED
    BY <2>4, <2>5 DEF Opened
<1>3. Opened(s, k) => Paired(s \o <<Up(k)>>, k)
  <2>1. <<Up(k)>> \in Seq(Event) /\ DOMAIN <<Up(k)>> = {1} /\ <<Up(k)>>[1] = Up(k)
    BY DEF Event, Up
  <2>2. \A i \in DOMAIN (s \o <<Up(k)>>) :
         \/ i \in DOMAIN s /\ (s \o <<Up(k)>>)[i] = s[i]
         \/ i = Len(s) + 1 /\ (s \o <<Up(k)>>)[i] = Up(k)
    BY <2>1, ConcatElements
  <2>3. /\ Len(s) + 1 \in DOMAIN (s \o <<Up(k)>>) /\ (s \o <<Up(k)>>)[Len(s) + 1] = Up(k)
        /\ \A i \in DOMAIN s : i \in DOMAIN (s \o <<Up(k)>>) /\ (s \o <<Up(k)>>)[i] = s[i]
        /\ DOMAIN s = 1 .. Len(s) /\ Len(s) \in Nat
    BY <2>1, ConcatElements
  <2> QED
    BY <2>2, <2>3, EventKeys DEF Opened, Paired
<1>4. Free(s, k) => Paired(s \o <<Down(k), Up(k)>>, k)
  <2> DEFINE t == <<Down(k), Up(k)>>
  <2>1. t \in Seq(Event) /\ DOMAIN t = 1 .. 2 /\ t[1] = Down(k) /\ t[2] = Up(k)
    BY DEF Event, Down, Up
  <2> HIDE DEF t
  <2> SUFFICES ASSUME Free(s, k) PROVE Paired(s \o t, k)
    BY DEF t
  <2>2. /\ Len(s) \in Nat
        /\ \A i \in DOMAIN t : Len(s) + i \in DOMAIN (s \o t) /\ (s \o t)[Len(s) + i] = t[i]
    BY <1>1, <2>1
  <2>3. \A i \in DOMAIN (s \o t) : (s \o t)[i] \in {Down(k), Up(k)} =>
          i - Len(s) \in DOMAIN t /\ (s \o t)[i] = t[i - Len(s)] /\ i \in Nat
    BY <1>1, <2>1
  <2>4. /\ Len(s) + 1 \in DOMAIN (s \o t) /\ (s \o t)[Len(s) + 1] = Down(k)
        /\ Len(s) + 2 \in DOMAIN (s \o t) /\ (s \o t)[Len(s) + 2] = Up(k)
    BY <2>1, <2>2
  <2>5. \A i \in DOMAIN (s \o t) :
          /\ (s \o t)[i] = Down(k) => i = Len(s) + 1
          /\ (s \o t)[i] = Up(k) => i = Len(s) + 2
    BY <2>1, <2>2, <2>3, EventKeys
  <2> QED
    <3> DEFINE u == s \o t
               n == Len(s) + 1
               m == Len(s) + 2
    <3>1. n \in DOMAIN u /\ u[n] = Down(k) /\ m \in DOMAIN u /\ u[m] = Up(k)
      BY <2>4
    <3>2. \A i \in DOMAIN u : (u[i] = Down(k) => i = n) /\ (u[i] = Up(k) => i = m)
      BY <2>5, Zenon
    <3>4. n < m
      BY <2>2
    <3> HIDE DEF u, n, m
    <3>3. Paired(u, k)
      BY <3>1, <3>2, <3>4 DEF Paired
    <3> QED
      BY <3>3 DEF u
<1> QED
  BY <1>2, <1>3, <1>4

\* The keys of a recovered gesture.
PlanKeys == {"LAlt", "LShift", "Tab"}

\* A part that is there on a condition, or not, leaves other keys alone.
LEMMA WhenFree ==
  ASSUME NEW c, NEW k, NEW e \in Event, ~c \/ e[1] # k
  PROVE  When(c, <<e>>) \in Seq(Event) /\ Free(When(c, <<e>>), k)
<1>1. CASE c
  <2>1. When(c, <<e>>) = <<e>>
    BY <1>1 DEF When
  <2>2. <<e>> \in Seq(Event) /\ DOMAIN <<e>> = {1} /\ <<e>>[1] = e
    OBVIOUS
  <2> QED
    BY <1>1, <2>1, <2>2 DEF Free
<1>2. CASE ~c
  <2>1. When(c, <<e>>) = <<>>
    BY <1>2 DEF When
  <2>2. <<>> \in Seq(Event) /\ DOMAIN <<>> = {}
    OBVIOUS
  <2> QED
    BY <2>1, <2>2 DEF Free
<1> QED
  BY <1>1, <1>2

\* A recovered gesture releases each key it presses, except that a Shift
\* lifted for its time is pressed again at the end.
LEMMA PlanPaired ==
  ASSUME NEW altReached \in BOOLEAN, NEW reverse \in BOOLEAN, NEW shiftReached \in BOOLEAN, NEW k \in Vk
  PROVE  LET plan == RecoveryPlan(altReached, reverse, shiftReached)
         IN /\ plan \in Seq(Event)
            /\ k \notin PlanKeys => Free(plan, k)
            /\ k # "LShift" \/ reverse \/ ~shiftReached => Paired(plan, k)
<1> DEFINE alt   == ~altReached
           shift == reverse /\ ~shiftReached
           lift  == ~reverse /\ shiftReached
           p1 == When(alt, <<Down("LAlt")>>)
           p2 == p1 \o When(shift, <<Down("LShift")>>)
           p3 == p2 \o When(lift, <<Up("LShift")>>)
           p4 == p3 \o <<Down("Tab"), Up("Tab")>>
           p5 == p4 \o When(shift, <<Up("LShift")>>)
           p6 == p5 \o When(lift, <<Down("LShift")>>)
           p7 == p6 \o When(alt, <<Up("LAlt")>>)
           tab == <<Down("Tab"), Up("Tab")>>
<1>1. p7 = RecoveryPlan(altReached, reverse, shiftReached)
  BY DEF RecoveryPlan
<1>2. \A x \in PlanKeys : Down(x) \in Event /\ Up(x) \in Event /\ x \in Vk
  BY DEF Down, Up, Event, Vk, Modifiers, Alts, Shifts, PlanKeys
<1>3. tab \in Seq(Event)
  BY <1>2 DEF PlanKeys
<1>4. \A c : \A x \in PlanKeys :
        When(c, <<Down(x)>>) \in Seq(Event) /\ When(c, <<Up(x)>>) \in Seq(Event)
  BY <1>2 DEF When
<1>5. \A c : \A x \in PlanKeys : ~c \/ x # k =>
        Free(When(c, <<Down(x)>>), k) /\ Free(When(c, <<Up(x)>>), k)
  BY <1>2, WhenFree, EventKeys
<1>6. k # "Tab" => Free(tab, k)
  BY EventKeys DEF Free
<1>7. /\ p1 \in Seq(Event) /\ p2 \in Seq(Event) /\ p3 \in Seq(Event) /\ p4 \in Seq(Event)
      /\ p5 \in Seq(Event) /\ p6 \in Seq(Event) /\ p7 \in Seq(Event)
  <2> HIDE DEF tab
  <2> \A x, y \in Seq(Event) : x \o y \in Seq(Event)
    BY ConcatProperties
  <2> p1 \in Seq(Event) /\ p2 \in Seq(Event) /\ p3 \in Seq(Event)
    BY <1>4 DEF PlanKeys
  <2> HIDE DEF p1, p2, p3
  <2> p4 \in Seq(Event)
    BY <1>3 DEF tab
  <2> HIDE DEF p4
  <2> p5 \in Seq(Event) /\ p6 \in Seq(Event) /\ p7 \in Seq(Event)
    BY <1>4 DEF PlanKeys
  <2> QED
    OBVIOUS
<1> "LAlt" \in PlanKeys /\ "LShift" \in PlanKeys /\ "Tab" \in PlanKeys
  BY DEF PlanKeys
<1>9. /\ p2 = p1 \o When(shift, <<Down("LShift")>>)
      /\ p3 = p2 \o When(lift, <<Up("LShift")>>)
      /\ p4 = p3 \o tab
      /\ p5 = p4 \o When(shift, <<Up("LShift")>>)
      /\ p6 = p5 \o When(lift, <<Down("LShift")>>)
      /\ p7 = p6 \o When(alt, <<Up("LAlt")>>)
  BY Zenon
<1>14. p1 = When(alt, <<Down("LAlt")>>)
  OBVIOUS
<1> HIDE DEF tab, p1, p2, p3, p4, p5, p6, p7
<1>10. ASSUME Free(p7, k) PROVE Paired(p7, k)
  BY <1>7, <1>10, FreeConcat
<1> SUFFICES /\ k \notin PlanKeys => Free(p7, k)
             /\ k # "LShift" \/ reverse \/ ~shiftReached => Paired(p7, k)
  BY <1>1, <1>7
<1>8. CASE k \notin PlanKeys
  <2>1. Free(p1, k)
    BY <1>5, <1>8, <1>14
  <2>2. Free(p2, k)
    BY <1>4, <1>5, <1>7, <1>8, <1>9, <2>1, FreeConcat
  <2>3. Free(p3, k)
    BY <1>4, <1>5, <1>7, <1>8, <1>9, <2>2, FreeConcat
  <2>4. Free(p4, k)
    BY <1>3, <1>6, <1>7, <1>8, <1>9, <2>3, FreeConcat
  <2>5. Free(p5, k)
    BY <1>4, <1>5, <1>7, <1>8, <1>9, <2>4, FreeConcat
  <2>6. Free(p6, k)
    BY <1>4, <1>5, <1>7, <1>8, <1>9, <2>5, FreeConcat
  <2>7. Free(p7, k)
    BY <1>4, <1>5, <1>7, <1>8, <1>9, <2>6, FreeConcat
  <2> QED
    BY <1>8, <1>10, <2>7
<1>11. CASE k = "Tab"
  <2>1. Free(p1, k)
    BY <1>5, <1>11, <1>14
  <2>2. Free(p2, k)
    BY <1>4, <1>5, <1>7, <1>9, <1>11, <2>1, FreeConcat
  <2>3. Free(p3, k)
    BY <1>4, <1>5, <1>7, <1>9, <1>11, <2>2, FreeConcat
  <2>4. Paired(p4, k)
    BY <1>7, <1>9, <1>11, <2>3, OpenAndClose DEF tab
  <2>5. Paired(p5, k)
    BY <1>4, <1>5, <1>7, <1>9, <1>11, <2>4, FreeConcat
  <2>6. Paired(p6, k)
    BY <1>4, <1>5, <1>7, <1>9, <1>11, <2>5, FreeConcat
  <2>7. Paired(p7, k)
    BY <1>4, <1>5, <1>7, <1>9, <1>11, <2>6, FreeConcat
  <2> QED
    BY <1>11, <2>7
<1>12. CASE k = "LAlt"
  <2>1. CASE alt
    <3>0. p1 = <<Down(k)>> /\ p7 = p6 \o <<Up(k)>>
      BY <1>9, <1>12, <1>14, <2>1 DEF When
    <3>1. Opened(p1, k)
      BY <3>0, EventKeys DEF Opened
    <3>2. Opened(p2, k)
      BY <1>4, <1>5, <1>7, <1>9, <1>12, <3>1, FreeConcat
    <3>3. Opened(p3, k)
      BY <1>4, <1>5, <1>7, <1>9, <1>12, <3>2, FreeConcat
    <3>4. Opened(p4, k)
      BY <1>3, <1>6, <1>7, <1>9, <1>12, <3>3, FreeConcat
    <3>5. Opened(p5, k)
      BY <1>4, <1>5, <1>7, <1>9, <1>12, <3>4, FreeConcat
    <3>6. Opened(p6, k)
      BY <1>4, <1>5, <1>7, <1>9, <1>12, <3>5, FreeConcat
    <3>7. Paired(p7, k)
      BY <1>7, <3>0, <3>6, OpenAndClose
    <3> QED
      BY <1>12, <3>7
  <2>2. CASE ~alt
    <3>1. Free(p1, k)
      BY <1>5, <1>12, <1>14, <2>2
    <3>2. Free(p2, k)
      BY <1>4, <1>5, <1>7, <1>9, <1>12, <3>1, FreeConcat
    <3>3. Free(p3, k)
      BY <1>4, <1>5, <1>7, <1>9, <1>12, <3>2, FreeConcat
    <3>4. Free(p4, k)
      BY <1>3, <1>6, <1>7, <1>9, <1>12, <3>3, FreeConcat
    <3>5. Free(p5, k)
      BY <1>4, <1>5, <1>7, <1>9, <1>12, <3>4, FreeConcat
    <3>6. Free(p6, k)
      BY <1>4, <1>5, <1>7, <1>9, <1>12, <3>5, FreeConcat
    <3>7. Free(p7, k)
      BY <1>4, <1>5, <1>7, <1>9, <1>12, <2>2, <3>6, FreeConcat
    <3> QED
      BY <1>10, <1>12, <3>7
  <2> QED
    BY <2>1, <2>2
<1>13. CASE k = "LShift"
  <2> SUFFICES ASSUME ~lift PROVE Paired(p7, k)
    BY <1>13
  <2>0. Free(p1, k)
    BY <1>5, <1>13, <1>14
  <2>1. CASE shift
    <3>0. p2 = p1 \o <<Down(k)>> /\ p5 = p4 \o <<Up(k)>>
      BY <1>9, <1>13, <2>1 DEF When
    <3>1. Opened(p2, k)
      BY <1>7, <2>0, <3>0, OpenAndClose
    <3>2. Opened(p3, k)
      BY <1>4, <1>5, <1>7, <1>9, <1>13, <3>1, FreeConcat
    <3>3. Opened(p4, k)
      BY <1>3, <1>6, <1>7, <1>9, <1>13, <3>2, FreeConcat
    <3>4. Paired(p5, k)
      BY <1>7, <3>0, <3>3, OpenAndClose
    <3>5. Paired(p6, k)
      BY <1>4, <1>5, <1>7, <1>9, <1>13, <3>4, FreeConcat
    <3>6. Paired(p7, k)
      BY <1>4, <1>5, <1>7, <1>9, <1>13, <3>5, FreeConcat
    <3> QED
      BY <3>6
  <2>2. CASE ~shift
    <3>1. Free(p2, k)
      BY <1>4, <1>5, <1>7, <1>9, <1>13, <2>0, <2>2, FreeConcat
    <3>2. Free(p3, k)
      BY <1>4, <1>5, <1>7, <1>9, <1>13, <3>1, FreeConcat
    <3>3. Free(p4, k)
      BY <1>3, <1>6, <1>7, <1>9, <1>13, <3>2, FreeConcat
    <3>4. Free(p5, k)
      BY <1>4, <1>5, <1>7, <1>9, <1>13, <2>2, <3>3, FreeConcat
    <3>5. Free(p6, k)
      BY <1>4, <1>5, <1>7, <1>9, <1>13, <3>4, FreeConcat
    <3>6. Free(p7, k)
      BY <1>4, <1>5, <1>7, <1>9, <1>13, <3>5, FreeConcat
    <3> QED
      BY <1>10, <3>6
  <2> QED
    BY <2>1, <2>2
<1> QED
  BY <1>8, <1>11, <1>12, <1>13 DEF PlanKeys

\* The sequence holds the event.
Has(s, e) == \E i \in DOMAIN s : s[i] = e

\* What a concatenation holds.
LEMMA HasConcat ==
  ASSUME NEW s \in Seq(Event), NEW t \in Seq(Event), NEW e
  PROVE  Has(s \o t, e) <=> Has(s, e) \/ Has(t, e)
<1>1. \A i \in DOMAIN s : i \in DOMAIN (s \o t) /\ (s \o t)[i] = s[i]
  BY ConcatElements
<1>2. \A i \in DOMAIN t : Len(s) + i \in DOMAIN (s \o t) /\ (s \o t)[Len(s) + i] = t[i]
  BY ConcatElements
<1>3. \A i \in DOMAIN (s \o t) :
        \/ i \in DOMAIN s /\ (s \o t)[i] = s[i]
        \/ i - Len(s) \in DOMAIN t /\ (s \o t)[i] = t[i - Len(s)]
  BY ConcatElements
<1> QED
  BY <1>1, <1>2, <1>3 DEF Has

\* What a part that is there on a condition holds.
LEMMA HasWhen ==
  ASSUME NEW c, NEW e \in Event
  PROVE  /\ When(c, <<e>>) \in Seq(Event)
         /\ \A f : Has(When(c, <<e>>), f) <=> c /\ f = e
<1>1. CASE c
  <2>1. When(c, <<e>>) = <<e>>
    BY <1>1 DEF When
  <2>2. <<e>> \in Seq(Event) /\ DOMAIN <<e>> = {1} /\ <<e>>[1] = e
    OBVIOUS
  <2> QED
    BY <1>1, <2>1, <2>2 DEF Has
<1>2. CASE ~c
  <2>1. When(c, <<e>>) = <<>>
    BY <1>2 DEF When
  <2>2. <<>> \in Seq(Event) /\ DOMAIN <<>> = {}
    OBVIOUS
  <2> QED
    BY <1>2, <2>1, <2>2 DEF Has
<1> QED
  BY <1>1, <1>2

\* The clean-up releases a key of the gesture that was left down, and presses
\* only one that was left up.
LEMMA CleanupHas ==
  ASSUME NEW prefix \in Seq(Event)
  PROVE  /\ Cleanup(prefix) \in Seq(Event)
         /\ \A x : Has(Cleanup(prefix), Down(x)) => Has(prefix, Up(x)) /\ ~Has(prefix, Down(x))
         /\ \A x \in PlanKeys :
              Has(prefix, Down(x)) /\ ~Has(prefix, Up(x)) => Has(Cleanup(prefix), Up(x))
<1> DEFINE unbalanced(d, k) == /\ \E i \in DOMAIN prefix : prefix[i] = <<k, d>>
                               /\ ~ \E i \in DOMAIN prefix : prefix[i] \in
                                      {Down(k), Up(k)} \ {<<k, d>>}
           undo(k) == When(unbalanced("down", k), <<Up(k)>>)
                        \o When(unbalanced("up", k), <<Down(k)>>)
<1>1. Cleanup(prefix) = undo("Tab") \o undo("LShift") \o undo("LAlt")
  BY DEF Cleanup
<1>2. \A x : /\ unbalanced("down", x) <=> Has(prefix, Down(x)) /\ ~Has(prefix, Up(x))
             /\ unbalanced("up", x) <=> Has(prefix, Up(x)) /\ ~Has(prefix, Down(x))
  BY DEF Has, Down, Up
<1> HIDE DEF unbalanced
<1>3. \A x \in PlanKeys : Down(x) \in Event /\ Up(x) \in Event
  BY DEF Down, Up, Event, Vk, Modifiers, Alts, Shifts, PlanKeys
<1>4. \A x \in PlanKeys :
        /\ undo(x) \in Seq(Event)
        /\ \A e : Has(undo(x), e) <=> \/ unbalanced("down", x) /\ e = Up(x)
                                      \/ unbalanced("up", x) /\ e = Down(x)
  <2> TAKE x \in PlanKeys
  <2>1. /\ When(unbalanced("down", x), <<Up(x)>>) \in Seq(Event)
        /\ \A e : Has(When(unbalanced("down", x), <<Up(x)>>), e) <=> unbalanced("down", x) /\ e = Up(x)
    BY <1>3, HasWhen
  <2>2. /\ When(unbalanced("up", x), <<Down(x)>>) \in Seq(Event)
        /\ \A e : Has(When(unbalanced("up", x), <<Down(x)>>), e) <=> unbalanced("up", x) /\ e = Down(x)
    BY <1>3, HasWhen
  <2>3. undo(x) \in Seq(Event)
    BY <2>1, <2>2, ConcatProperties
  <2>4. \A e : Has(undo(x), e) <=> \/ Has(When(unbalanced("down", x), <<Up(x)>>), e)
                                   \/ Has(When(unbalanced("up", x), <<Down(x)>>), e)
    BY <2>1, <2>2, HasConcat
  <2> QED
    BY <2>1, <2>2, <2>3, <2>4
<1> HIDE DEF undo
<1>5. undo("Tab") \o undo("LShift") \in Seq(Event) /\ Cleanup(prefix) \in Seq(Event)
  BY <1>1, <1>4, ConcatProperties DEF PlanKeys
<1>6. \A e : Has(Cleanup(prefix), e) <=>
               Has(undo("Tab"), e) \/ Has(undo("LShift"), e) \/ Has(undo("LAlt"), e)
  <2>1. undo("Tab") \in Seq(Event) /\ undo("LShift") \in Seq(Event) /\ undo("LAlt") \in Seq(Event)
    BY <1>4 DEF PlanKeys
  <2>2. \A e : Has(undo("Tab") \o undo("LShift"), e) <=> Has(undo("Tab"), e) \/ Has(undo("LShift"), e)
    BY <2>1, HasConcat
  <2>3. \A e : Has(Cleanup(prefix), e) <=>
               Has(undo("Tab") \o undo("LShift"), e) \/ Has(undo("LAlt"), e)
    <3> DEFINE u == undo("Tab") \o undo("LShift")
    <3>1. u \in Seq(Event) /\ Cleanup(prefix) = u \o undo("LAlt")
      BY <1>1, <1>5
    <3> HIDE DEF u
    <3>2. \A e : Has(u \o undo("LAlt"), e) <=> Has(u, e) \/ Has(undo("LAlt"), e)
      BY <2>1, <3>1, HasConcat
    <3> QED
      BY <3>1, <3>2 DEF u
  <2> QED
    BY <2>2, <2>3
<1>7. \A e : Has(Cleanup(prefix), e) <=> \E x \in PlanKeys : Has(undo(x), e)
  BY <1>6 DEF PlanKeys
<1>8. \A e : Has(Cleanup(prefix), e) <=> \E x \in PlanKeys :
                \/ unbalanced("down", x) /\ e = Up(x)
                \/ unbalanced("up", x) /\ e = Down(x)
  BY <1>4, <1>7
<1> QED
  BY <1>2, <1>5, <1>8, EventKeys

\* A recovery whose clean-up is not refused leaves no key down that was not:
\* every press it makes is taken back by the gesture or by the clean-up.
LEMMA RecoveryAddsNothing ==
  ASSUME NEW events \in Seq(Event), SendRecovery(events), ~abandoned',
         NEW k \in target', Paired(events, k), k \in PlanKeys \/ Free(events, k)
  PROVE  k \in target
<1> DEFINE prefixOf(l)  == SubSeq(events, 1, l)
           cleanupOf(l) == IF l = Len(events) THEN <<>> ELSE Cleanup(prefixOf(l))
<1>1. PICK n \in SentCounts(events) :
        \E m \in SentCounts(cleanupOf(n)) :
           /\ Inject(prefixOf(n) \o SubSeq(cleanupOf(n), 1, m))
           /\ abandoned' = (abandoned \/ m < Len(cleanupOf(n)))
  BY Zenon DEF SendRecovery
<1> DEFINE prefix  == prefixOf(n)
           cleanup == cleanupOf(n)
<1>2. PICK m \in SentCounts(cleanup) :
        /\ Inject(prefix \o SubSeq(cleanup, 1, m))
        /\ abandoned' = (abandoned \/ m < Len(cleanup))
  BY <1>1
<1>3. n \in 0 .. Len(events) /\ Len(events) \in Nat /\ DOMAIN events = 1 .. Len(events)
  BY SentCountsType, LenProperties
<1>4. /\ prefix \in Seq(Event) /\ DOMAIN prefix = 1 .. n
      /\ \A i \in 1 .. n : prefix[i] = events[i]
  BY <1>3, PrefixOf
<1>0. cleanup = IF n = Len(events) THEN <<>> ELSE Cleanup(prefix)
  OBVIOUS
<1> HIDE DEF prefix, cleanup, prefixOf, cleanupOf
<1>5. cleanup \in Seq(Event) /\ Len(cleanup) \in Nat
  <2>1. Cleanup(prefix) \in Seq(Event) /\ <<>> \in Seq(Event)
    BY <1>4, CleanupHas
  <2>2. cleanup \in Seq(Event)
    BY <1>0, <2>1
  <2> QED
    BY <2>2, LenProperties
<1>6. m = Len(cleanup)
  <2>1. m \in Nat /\ m <= Len(cleanup)
    BY <1>5, SentCountsType
  <2>2. ~(m < Len(cleanup))
    <3>1. abandoned' = (abandoned \/ m < Len(cleanup))
      BY <1>2
    <3> QED
      BY <3>1, Zenon
  <2> QED
    BY <1>5, <2>1, <2>2
<1>7. SubSeq(cleanup, 1, m) = cleanup
  BY <1>5, <1>6, SubSeqFull
<1> DEFINE sent == prefix \o cleanup
<1>8. target' = After(target, sent)
  BY <1>2, <1>7 DEF Inject
<1>9. /\ sent \in Seq(Event)
      /\ \A i \in 1 .. n : i \in DOMAIN sent /\ sent[i] = events[i]
      /\ \A i \in DOMAIN cleanup : n + i \in DOMAIN sent /\ sent[n + i] = cleanup[i]
      /\ \A i \in DOMAIN sent : \/ i \in 1 .. n /\ sent[i] = events[i]
                                \/ i - n \in DOMAIN cleanup /\ i > n /\ sent[i] = cleanup[i - n]
      /\ DOMAIN cleanup = 1 .. Len(cleanup)
  <2>1. Len(prefix) = n
    BY <1>3, <1>4, LenProperties
  <2>2. sent \in Seq(Event) /\ DOMAIN cleanup = 1 .. Len(cleanup)
    BY <1>4, <1>5, ConcatElements
  <2>3. \A i \in DOMAIN prefix : i \in DOMAIN sent /\ sent[i] = prefix[i]
    BY <1>4, <1>5, ConcatElements
  <2>4. \A i \in DOMAIN cleanup : Len(prefix) + i \in DOMAIN sent /\ sent[Len(prefix) + i] = cleanup[i]
    BY <1>4, <1>5, ConcatElements
  <2>5. \A i \in DOMAIN sent : \/ i \in DOMAIN prefix /\ sent[i] = prefix[i]
                              \/ /\ i - Len(prefix) \in DOMAIN cleanup /\ i > Len(prefix)
                                 /\ sent[i] = cleanup[i - Len(prefix)]
    BY <1>4, <1>5, ConcatElements
  <2> QED
    BY <1>4, <2>1, <2>2, <2>3, <2>4, <2>5
<1> HIDE DEF sent
<1> SUFFICES ASSUME NEW i \in DOMAIN sent, sent[i] = Down(k),
                    \A j \in DOMAIN sent : j > i => sent[j][1] # k
             PROVE  FALSE
  BY <1>8 DEF After
<1>10. ASSUME NEW j \in DOMAIN sent, sent[j] = Up(k), j > i
       PROVE  FALSE
  BY <1>10, EventKeys
<1>11. CASE i \in 1 .. n
  <2>1. events[i] = Down(k) /\ i \in DOMAIN events
    BY <1>3, <1>9, <1>11
  <2>2. PICK j \in DOMAIN events : events[j] = Up(k)
    BY <2>1 DEF Paired
  <2>3. i < j
    BY <2>1, <2>2 DEF Paired
  <2>4. j > n
    BY <1>3, <1>9, <1>10, <1>11, <2>2, <2>3
  <2>5. cleanup = Cleanup(prefix)
    <3>1. n # Len(events)
      BY <1>3, <2>2, <2>4
    <3> QED
      BY <1>0, <3>1, Zenon
  <2>6. ~Has(prefix, Up(k))
    <3> SUFFICES ASSUME NEW l \in 1 .. n, events[l] = Up(k) PROVE FALSE
      BY <1>4 DEF Has
    <3>1. i < l
      BY <1>3, <2>1 DEF Paired
    <3> QED
      BY <1>9, <1>10, <3>1
  <2>7. Has(prefix, Down(k)) /\ k \in PlanKeys
    BY <1>4, <1>11, <2>1, EventKeys DEF Has, Free
  <2>8. PICK l \in DOMAIN cleanup : cleanup[l] = Up(k)
    BY <1>4, <2>5, <2>6, <2>7, CleanupHas DEF Has
  <2> QED
    BY <1>3, <1>9, <1>10, <1>11, <2>8
<1>12. CASE i \notin 1 .. n
  <2>1. cleanup[i - n] = Down(k) /\ i - n \in DOMAIN cleanup
    BY <1>9, <1>12
  <2>2. cleanup = Cleanup(prefix)
    BY <1>0, <2>1
  <2>3. Has(prefix, Up(k)) /\ ~Has(prefix, Down(k))
    BY <1>4, <2>1, <2>2, CleanupHas DEF Has
  <2>4. PICK j \in 1 .. n : events[j] = Up(k)
    BY <1>4, <2>3 DEF Has
  <2>5. PICK l \in DOMAIN events : l < j /\ events[l] = Down(k)
    BY <1>3, <2>4 DEF Paired
  <2>6. l \in 1 .. n /\ prefix[l] = Down(k)
    BY <1>3, <1>4, <2>4, <2>5
  <2> QED
    BY <1>4, <2>3, <2>6 DEF Has
<1> QED
  BY <1>11, <1>12

-----------------------------------------------------------------------------
(* A session owns the Alt.                                                 *)

SeenHeld == seen \subseteq phys

\* An Alt that repeats is kept back, or the chord it belongs to is forwarded
\* or about to be.
AltAccounted ==
  ~disposed /\ typematic \in Alts =>
    KeptBack(typematic) \/ altForwarded \/ hook.op = "replay"

\* Something of FrigoTab's owns the Alt.
AltOwned == Tracked \/ "Alt" \in consumed \/ AltBlocked \/ active \/ hook.op = "replay"

\* The target holds an Alt only if the user's press was given to it, and none
\* while FrigoTab owns it.
AltKept ==
  ~abandoned =>
    /\ target \cap Alts \subseteq seen
    /\ ~disposed /\ AltOwned => target \cap Alts = {}

\* A recovery that waits to be sent takes back every press of the key.
PlanSound(events, k) == Paired(events, k) /\ (k \in PlanKeys \/ Free(events, k))
PlansSound(k) == PlanSound(ui, k) /\ (hook.op = "recover" => PlanSound(hook.events, k))

AltInv == SeenHeld /\ AltAccounted /\ AltKept /\ \A k \in Alts : PlansSound(k)

\* Only a deferred Alt is newly owned.
LEMMA AltTaken ==
  ASSUME TypeOK, NEW k \in Keys, NEW d \in {"down", "up"}, ~disposed,
         QuietKey(k, d) \/ DispatchedKey(k, d), AltOwned'
  PROVE  AltOwned \/ DeferAlt(k, d)
<1> USE DEF AltOwned, Tracked, AltBlocked
<1>0. hook = Idle
  BY CallbackMoves
<1>1. CASE SwallowBlocked(k, d) \/ SwallowOwed(k, d) \/ FailClosed(k, d)
  BY <1>0, <1>1 DEF SwallowBlocked, SwallowOwed, FailClosed, gate, ledger, Idle
<1>2. CASE StayForwarded(k, d) \/ PassUnownedTab(k, d) \/ ForwardCtrlAlt(k, d)
  BY <1>0, <1>2 DEF StayForwarded, PassUnownedTab, ForwardCtrlAlt, gate, ledger, Idle
<1>3. CASE ClaimAlt(k, d) \/ QuarantineKey(k, d)
  BY <1>3 DEF ClaimAlt, QuarantineKey
<1>4. CASE DeferShift(k, d) \/ ReplayChord(k, d) \/ ReplayRelease(k, d) \/ DiscardGesture(k, d)
  BY <1>4 DEF DeferShift, ReplayChord, ReplayRelease, DiscardGesture, BalanceShift
<1>5. CASE PassHeldShift(k, d) \/ RepeatDeferred(k, d) \/ PassUnknown(k, d) \/ PassKey(k, d)
  BY <1>0, <1>5 DEF PassHeldShift, RepeatDeferred, PassUnknown, PassKey, gate, ledger, Idle
<1>6. CASE TakeKey(k, d)
  <2>1. active \/ consumed' \subseteq consumed
    BY <1>6 DEF TakeKey, LeftToPolicy, OwedAfter, Admits
  <2> QED
    BY <1>0, <1>6, <2>1 DEF TakeKey, gate, Idle
<1>7. CASE PassDisposed(k, d)
  BY <1>7 DEF PassDisposed
<1> QED
  BY <1>1, <1>2, <1>3, <1>4, <1>5, <1>6, <1>7 DEF QuietKey, DispatchedKey

\* A forwarded chord stays forwarded until an Alt is released.
LEMMA ForwardedStays ==
  ASSUME NEW k \in Keys \ Alts, NEW d \in {"down", "up"}, altForwarded,
         QuietKey(k, d) \/ DispatchedKey(k, d)
  PROVE  altForwarded'
<1>1. CASE StayForwarded(k, d)
  BY <1>1, Zenon DEF StayForwarded
<1>2. CASE ForwardCtrlAlt(k, d)
  BY <1>2 DEF ForwardCtrlAlt
<1>3. CASE ~StayForwarded(k, d) /\ ~ForwardCtrlAlt(k, d)
  <2>1. UNCHANGED altForwarded
    BY <1>3 DEF QuietKey, DispatchedKey, SwallowBlocked, SwallowOwed, FailClosed,
      PassUnownedTab, ClaimAlt, DeferAlt, DeferShift,
      PassHeldShift, RepeatDeferred, ReplayChord, ReplayRelease, DiscardGesture,
      QuarantineKey, PassUnknown, PassDisposed, TakeKey, PassKey, BalanceShift, gate
  <2> QED
    BY <2>1
<1> QED
  BY <1>1, <1>2, <1>3

\* No callback gives the target an Alt that FrigoTab owns, nor does it take one
\* the target holds.
LEMMA AltCallback ==
  ASSUME TypeOK, GateExclusive, GateInv, GateExclusive', GateInv', Repeating, AltInv,
         OneAlt, ~disposed, NEW k \in Keys, NEW d \in {"down", "up"},
         QuietKey(k, d) \/ DispatchedKey(k, d)
  PROVE  SeenHeld' /\ AltAccounted' /\ AltKept'
<1> k \in Vk /\ k # None /\ None \notin Alts
  BY KeysAssumption, NoneIsNoKey, ModifierKeys
<1>0. SeenHeld /\ AltAccounted /\ AltKept
  BY DEF AltInv
<1>1. /\ hook = Idle /\ ~disposed' /\ Transition(k, d) /\ abandoned' = abandoned
      /\ d = "down" => phys' = phys \cup {k}
      /\ d = "up" => k \in phys /\ phys' = phys \ {k}
  BY CallbackMoves DEF Transition
<1>2. /\ d = "down" => typematic' = k /\ (k \in phys => typematic = k)
      /\ d = "up" => typematic' \in {typematic, None} /\ typematic' # k
  BY <1>1, StrikeEffect DEF Transition, Repeating
<1>3. CASE d = "down"
  <2>1. CASE Swallow(k, "down") /\ (KeptBack(k)' \/ ReplayChord(k, "down"))
    <3>1. target' = target /\ seen' = seen
      BY <2>1 DEF Swallow
    <3>2. SeenHeld'
      BY <1>0, <1>1, <1>3, <3>1 DEF SeenHeld
    <3>3. KeptBack(typematic)' \/ hook'.op = "replay"
      <4>1. CASE KeptBack(k)'
        BY <1>2, <1>3, <4>1 DEF KeptBack
      <4>2. CASE ReplayChord(k, "down")
        BY <4>2 DEF ReplayChord
      <4> QED
        BY <2>1, <4>1, <4>2
    <3>4. ~abandoned /\ AltOwned' => target \cap Alts = {}
      <4> SUFFICES ASSUME ~abandoned, AltOwned' PROVE target \cap Alts = {}
        OBVIOUS
      <4>1. CASE AltOwned
        BY <1>0, <4>1 DEF AltKept
      <4>2. CASE DeferAlt(k, d)
        <5>1. k \in Alts /\ ~KeptBack(k) /\ ~altForwarded
          BY <4>2 DEF DeferAlt, Ordinary, Owed, KeptBack, Tracked, GateExclusive
        <5>2. k \notin phys
          BY <1>0, <1>1, <1>2, <1>3, <5>1 DEF AltAccounted, Idle
        <5>3. target \cap Alts \subseteq phys
          BY <1>0 DEF AltKept, SeenHeld
        <5> QED
          BY <5>1, <5>2, <5>3 DEF OneAlt, TypeOK
      <4> QED
        BY <4>1, <4>2, AltTaken
    <3> QED
      BY <1>0, <1>1, <3>1, <3>2, <3>3, <3>4 DEF AltAccounted, AltKept
  <2>2. CASE /\ PassOn(k, "down") /\ ~active
             /\ UNCHANGED <<ledger, deferredAlt, deferredShift, blocked, hook>>
             /\ k \in Alts => altForwarded'
    <3>1. target' = target \cup {k} /\ seen' = seen \cup {k}
      BY <2>2, PassOnEffect
    <3>2. k \in Alts => ~AltOwned'
      BY <1>1, <2>2 DEF AltOwned, GateExclusive, GateInv, ForwardedHeld, Idle
    <3>3. AltOwned' => AltOwned
      BY <2>2 DEF AltOwned, Tracked, AltBlocked, ledger
    <3>4. SeenHeld'
      BY <1>0, <1>1, <1>3, <3>1 DEF SeenHeld
    <3>5. AltAccounted'
      BY <1>2, <1>3, <2>2 DEF AltAccounted
    <3>6. AltKept'
      BY <1>0, <1>1, <3>1, <3>2, <3>3 DEF AltKept
    <3> QED
      BY <3>4, <3>5, <3>6
  <2>3. CASE DiscardGesture(k, "down")
    <3>1. PICK sent \in SentCounts(HeldShifts) : BalanceShift(k, d, sent)
      BY <1>3, <2>3 DEF DiscardGesture
    <3>2. seen' = seen /\ target' \subseteq target
      <4>1. /\ seen' = seen
            /\ target' = After(target, [i \in 1 .. sent |-> Up(HeldShifts[i])])
        BY <3>1 DEF BalanceShift, Inject
      <4> QED
        BY <4>1, EventKeys DEF After
    <3>3. AltOwned /\ k \notin Alts
      BY <3>1, ModifierKeys DEF BalanceShift, AltOwned
    <3> QED
      BY <1>0, <1>1, <1>2, <1>3, <3>2, <3>3 DEF SeenHeld, AltAccounted, AltKept
  <2> QED
    BY <1>3, <2>1, <2>2, <2>3, PressVerdict
<1>4. CASE d = "up"
  <2>1. IF KeptBack(k) THEN Swallow(k, "up") ELSE PassOn(k, "up")
    BY <1>4, ReleaseVerdict
  <2>2. seen' = seen \ {k} /\ target' = IF KeptBack(k) THEN target ELSE target \ {k}
    BY <2>1, PassOnEffect DEF Swallow
  <2>3. KeptBack(k) /\ k \in Alts => AltOwned
    BY ModifierKeys DEF KeptBack, AltOwned, Tracked, AltBlocked, TypeOK
  <2>4. AltOwned' => AltOwned
    BY <1>4, AltTaken DEF DeferAlt
  <2>5. SeenHeld'
    BY <1>0, <1>1, <1>4, <2>2 DEF SeenHeld
  <2>6. AltKept'
    BY <1>0, <1>1, <2>2, <2>3, <2>4 DEF AltKept
  <2>7. AltAccounted'
    <3> SUFFICES ASSUME typematic' \in Alts
                 PROVE  (KeptBack(typematic) \/ altForwarded \/ hook.op = "replay")'
      BY DEF AltAccounted
    <3>1. typematic' = typematic /\ typematic \in phys /\ typematic # k
      BY <1>2, <1>4 DEF Repeating
    <3>2. typematic \in Keys /\ k \notin Alts
      BY <3>1 DEF TypeOK, OneAlt
    <3>3. CASE KeptBack(typematic)
      <4>1. Alone(typematic)
        BY <3>1, <3>2, OneOwner
      <4>2. \A x \in Keys : KeptBack(x) /\ x # k /\ Alone(x) => KeptBack(x)' \/ Replays(x)'
        BY KeptBackStays
      <4>3. KeptBack(typematic)' \/ hook'.op = "replay"
        BY <3>1, <3>2, <3>3, <4>1, <4>2 DEF KeptBack, Replays
      <4> QED
        BY <4>3
    <3>4. CASE altForwarded
      BY <3>2, <3>4, ForwardedStays
    <3> QED
      BY <1>0, <1>1, <3>1, <3>3, <3>4 DEF AltAccounted, Idle
  <2> QED
    BY <2>5, <2>6, <2>7
<1> QED
  BY <1>3, <1>4

\* What the target and the user's side share, they share after any transitions.
LEMMA AfterMonotone ==
  ASSUME NEW some, NEW all, NEW keys, some \cap keys \subseteq all, NEW events
  PROVE  After(some, events) \cap keys \subseteq After(all, events)
BY DEF After

\* A replay gives the Alt to the target, or fails closed without having done so.
LEMMA AltReplay ==
  ASSUME TypeOK, GateExclusive, GateInv, Repeating, AltInv, OneAlt, FinishReplay
  PROVE  AltInv'
<1>0. SeenHeld /\ AltAccounted /\ AltKept /\ \A k \in Alts : PlansSound(k)
  BY DEF AltInv
<1>1. /\ hook.op = "replay" /\ hook' = Idle
      /\ UNCHANGED <<phys, typematic, abandoned, consumed, active, deferredAlt, disposed, ui>>
      /\ ReplayHeld /\ ReplayAlone
  BY DEF FinishReplay, ledger, GateInv
<1>2. PICK a \in Alts, s \in Shifts \cup {None}, k \in Vk, d \in {"down", "up"} :
         /\ hook.events = ReplayOf(a, s, k, d) /\ {a, s, k} \ {None} \subseteq Keys
         /\ \A x \in {a, s, k} \ {None} : x \notin blocked /\ KeyOf(x) \notin consumed
         /\ d = "down" => k \notin {a, s} /\ {a, s, k} \ {None} \subseteq phys
         /\ d = "up" => k \in {a, s} /\ k \notin phys /\ {a, s} \ {None, k} \subseteq phys
  BY <1>1 DEF ReplayHeld
<1>3. PICK sent \in Seq(Event) :
         /\ Deliver(sent) /\ SentBy(sent, a, s, k, d)
         /\ SentOrBlocked(sent, a, s, k, d, blocked')
         /\ NotSent(sent, blocked' \ blocked)
  <2>1. /\ hook.events = ReplayOf(a, s, k, d)
        /\ (d = "up" => k \in {a, s}) /\ (d = "down" => k \notin {a, s})
    BY <1>2
  <2> HIDE <1>2
  <2> QED
    BY <2>1, ReplaySent
<1>4. /\ d = "down" \/ k # a => altForwarded' \/ a \in blocked'
      /\ blocked' \subseteq blocked \cup ({a, s, k} \ {None})
  BY <1>2, ReplayOutcome
<1>5. /\ target' = After(target, sent) /\ seen' = After(seen, sent)
      /\ Told(target, target', sent, a, s, k, d) /\ Told(seen, seen', sent, a, s, k, d)
  <2>1. target \in SUBSET Vk /\ seen \in SUBSET Vk
    BY DEF TypeOK
  <2>2. target' = After(target, sent) /\ seen' = After(seen, sent)
    BY <1>3 DEF Deliver
  <2>3. (d = "up" => k \in {a, s}) /\ (d = "down" => k \notin {a, s})
    BY <1>2
  <2> QED
    BY <1>3, <2>1, <2>2, <2>3, SentEffect
<1>6. SeenHeld'
  BY <1>0, <1>1, <1>2, <1>5 DEF SeenHeld, Told
<1>7. a # None /\ a \notin Shifts /\ (a \in phys => phys \cap Alts = {a} /\ KeyOf(a) = "Alt")
  BY ModifierKeys, NoneIsNoKey DEF OneAlt, TypeOK
<1>8. AltAccounted'
  <2> SUFFICES ASSUME ~disposed, typematic \in Alts
               PROVE  (KeptBack(typematic) \/ altForwarded)'
    BY <1>1 DEF AltAccounted
  <2>1. typematic \in phys
    BY NoneIsNoKey, ModifierKeys DEF Repeating
  <2>2. d = "down" \/ k # a
    BY <1>2, <1>7, <2>1 DEF OneAlt, TypeOK
  <2>3. typematic = a
    BY <1>2, <1>7, <2>1, <2>2
  <2> QED
    BY <1>1, <1>4, <2>2, <2>3 DEF KeptBack
<1>9. AltKept'
  <2> SUFFICES ASSUME ~abandoned
               PROVE  /\ target' \cap Alts \subseteq seen'
                      /\ ~disposed /\ AltOwned' => target' \cap Alts = {}
    BY <1>1 DEF AltKept
  <2>1. target' \cap Alts \subseteq seen'
    BY <1>0, <1>5, AfterMonotone DEF AltKept
  <2>2. ASSUME ~disposed, AltOwned', NEW x \in target' \cap Alts
        PROVE  FALSE
    <3>1. target \cap Alts = {}
      BY <1>0, <1>1, <2>2 DEF AltKept, AltOwned
    <3>2. x \in {a, s, k} \ {None} /\ (d = "down" \/ x # k)
      BY <1>5, <2>2, <3>1 DEF Told
    <3>3. x = a /\ a \in phys
      BY <1>2, <1>7, <2>2, <3>2, ModifierKeys
    <3>4. ~Tracked' /\ ~active' /\ "Alt" \notin consumed'
      BY <1>1, <1>2, <1>7, <3>3 DEF GateExclusive, Tracked
    <3>5. AltBlocked'
      BY <1>1, <2>2, <3>4 DEF AltOwned, Idle
    <3>6. a \in blocked' /\ a \notin blocked
      BY <1>1, <1>2, <1>4, <1>7, <3>2, <3>3, <3>5, ModifierKeys DEF AltBlocked, ReplayAlone
    <3>7. \A i \in DOMAIN sent : sent[i] # Down(x)
      BY <1>3, <3>3, <3>6 DEF NotSent
    <3> QED
      BY <1>5, <2>2, <3>1, <3>7 DEF After
  <2> QED
    BY <2>1, <2>2
<1> QED
  BY <1>0, <1>1, <1>6, <1>8, <1>9 DEF AltInv, PlansSound, Idle

\* A plan presses no key for good, unless it lifts a Shift and presses it again.
LEMMA PlanIsSound ==
  ASSUME NEW altReached \in BOOLEAN, NEW reverse \in BOOLEAN, NEW shiftReached \in BOOLEAN,
         NEW k \in Vk, k # "LShift" \/ reverse \/ ~shiftReached
  PROVE  PlanSound(RecoveryPlan(altReached, reverse, shiftReached), k)
BY PlanPaired DEF PlanSound

\* An admission leaves the target without Alt.
LEMMA AltAdmitting ==
  ASSUME TypeOK, AltInv, Repeating, NEW k \in Keys, NEW d \in {"down", "up"}, NEW ok \in BOOLEAN,
         AdmittingKey(k, d, ok)
  PROVE  AltInv'
<1> k \in Vk
  BY KeysAssumption
<1>0. SeenHeld /\ AltAccounted /\ AltKept /\ \A x \in Alts : PlansSound(x)
  BY DEF AltInv
<1>1. d = "down" /\ Transition(k, d) /\ KeyOf(k) = "Tab" /\ ~disposed
  BY DEF AdmittingKey, PromoteTab, PromoteTabOverShift, BalanceShift, ReopenTab, Transition
<1>2. /\ phys' = phys \cup {k} /\ typematic' = k /\ k \notin Alts
      /\ UNCHANGED <<seen, abandoned, disposed, ui>>
  BY <1>1, ModifierKeys, KeptBackAdmitting DEF Transition, Strike, Press
<1>3. AltOwned
  BY DEF AdmittingKey, PromoteTab, PromoteTabOverShift, BalanceShift, ReopenTab, AltOwned
<1>4. target' \subseteq target
  <2>1. CASE PromoteTab(k, d, ok) \/ ReopenTab(k, d, ok)
    BY <2>1 DEF PromoteTab, ReopenTab, Swallow
  <2>2. CASE PromoteTabOverShift(k, d, ok)
    <3>1. target' = After(target, [i \in 1 .. Len(HeldShifts) |-> Up(HeldShifts[i])])
      BY <2>2 DEF PromoteTabOverShift, BalanceShift, Inject
    <3> QED
      BY <3>1, EventKeys DEF After
  <2> QED
    BY <2>1, <2>2 DEF AdmittingKey
<1>5. ASSUME NEW x \in Alts, hook'.op = "recover" PROVE PlanSound(hook'.events, x)
  <2>1. PICK owed : Admission(k, d, owed, ok)
    BY DEF AdmittingKey, PromoteTab, PromoteTabOverShift, ReopenTab
  <2> DEFINE altReached == "Alt" \notin consumed' /\ AltDown'
             reverse == ShiftSnapshot(k, d)
             shiftReached == "Shift" \notin consumed' /\ ShiftDown'
  <2>2. hook'.events = RecoveryPlan(altReached, reverse, shiftReached)
    BY <1>5, <2>1 DEF Admission, Idle
  <2>3. altReached \in BOOLEAN /\ reverse \in BOOLEAN /\ shiftReached \in BOOLEAN
    BY DEF ShiftSnapshot, AltDown, ShiftDown
  <2>4. x \in Vk /\ x # "LShift"
    BY ModifierKeys DEF Alts
  <2> HIDE DEF altReached, reverse, shiftReached
  <2> QED
    BY <2>2, <2>3, <2>4, PlanIsSound
<1> QED
  BY <1>0, <1>1, <1>2, <1>3, <1>4, <1>5 DEF AltInv, SeenHeld, AltAccounted, AltKept, PlansSound

\* A recovery takes back its Alt, and the UI thread gives the target none.
LEMMA AltOther ==
  ASSUME TypeOK, GateExclusive, AltInv, FinishRecovery \/ UiThread
  PROVE  AltInv'
<1>0. SeenHeld /\ AltAccounted /\ AltKept /\ \A x \in Alts : PlansSound(x)
  BY DEF AltInv
<1>1. \A x \in Alts : x \in Vk /\ x # "LShift"
  BY ModifierKeys DEF Alts
<1>2. ASSUME NEW events \in Seq(Event), SendRecovery(events), ~abandoned',
             \A x \in Alts : PlanSound(events, x)
      PROVE  target' \cap Alts \subseteq target /\ ~abandoned
  <2>1. ~abandoned
    <3>1. PICK b : abandoned' = (abandoned \/ b)
      BY <1>2, Zenon DEF SendRecovery
    <3> QED
      BY <1>2, <3>1, Zenon
  <2> QED
    BY <1>2, <2>1, RecoveryAddsNothing DEF PlanSound
<1>3. PlanSound(<<>>, "LAlt") /\ \A x \in Alts : PlanSound(<<>>, x)
  BY DEF PlanSound, Paired, Free
<1>4. CASE FinishRecovery
  <2>1. hook.events \in Seq(Event)
    BY DEF TypeOK, Work
  <2>2. ~abandoned' => target' \cap Alts \subseteq target /\ ~abandoned
    BY <1>0, <1>2, <1>4, <2>1 DEF FinishRecovery, PlansSound
  <2>3. AltOwned' => AltOwned
    BY <1>4 DEF FinishRecovery, ledger, gate, AltOwned, Tracked, AltBlocked, Idle
  <2>4. /\ UNCHANGED <<phys, typematic, seen, consumed, gate, disposed, ui>> /\ hook' = Idle
        /\ hook.op = "recover"
    BY <1>4 DEF FinishRecovery, ledger
  <2> QED
    BY <1>0, <2>2, <2>3, <2>4
       DEF AltInv, SeenHeld, AltAccounted, AltKept, PlansSound, KeptBack, gate, Idle
<1>5. CASE SendOwnerRecovery
  <2>1. ui \in Seq(Event)
    BY DEF TypeOK
  <2>2. ~abandoned' => target' \cap Alts \subseteq target /\ ~abandoned
    BY <1>0, <1>2, <1>5, <2>1 DEF SendOwnerRecovery, PlansSound
  <2>3. /\ UNCHANGED <<phys, typematic, seen, ledger, gate, disposed, hook>> /\ ui' = <<>>
    BY <1>5 DEF SendOwnerRecovery
  <2> QED
    BY <1>0, <1>3, <2>2, <2>3
       DEF AltInv, SeenHeld, AltAccounted, AltKept, AltOwned, Tracked, AltBlocked, PlansSound,
           KeptBack, gate, ledger
<1>6. CASE SetSessionVisible(FALSE)
  BY <1>0, <1>6 DEF SetSessionVisible, UiStep, external, gate, AltInv, SeenHeld,
     AltAccounted, AltKept, AltOwned, Tracked, AltBlocked, PlansSound, KeptBack
<1>7. CASE CancelAdmission(gestureShift)
  <2> DEFINE altReached == "Alt" \notin consumed /\ AltDown
             shiftReached == "Shift" \notin consumed /\ ShiftDown
  <2>1. ui' = RecoveryPlan(altReached, gestureShift, shiftReached)
    BY <1>7 DEF CancelAdmission
  <2>2. altReached \in BOOLEAN /\ gestureShift \in BOOLEAN /\ shiftReached \in BOOLEAN
    BY DEF AltDown, ShiftDown, TypeOK
  <2> HIDE DEF altReached, shiftReached
  <2>3. \A x \in Alts : PlanSound(ui', x)
    BY <1>1, <2>1, <2>2, PlanIsSound
  <2> QED
    BY <1>0, <1>7, <2>3 DEF CancelAdmission, UiStep, external, gate, AltInv, SeenHeld,
       AltAccounted, AltKept, AltOwned, Tracked, AltBlocked, PlansSound, KeptBack
<1>8. CASE ResetInputState
  <2>1. AltOwned' => AltOwned
    BY <1>8 DEF ResetInputState, AltOwned, Tracked, AltBlocked
  <2>2. typematic \in Alts /\ KeptBack(typematic) => KeptBack(typematic)'
    <3> SUFFICES ASSUME typematic \in Alts, KeptBack(typematic)
                 PROVE  typematic \in blocked' \/ KeyOf(typematic) \in consumed'
      BY <1>8 DEF ResetInputState, external, KeptBack
    <3>1. typematic # None /\ KeyOf(typematic) = "Alt" /\ typematic \notin Shifts
      BY ModifierKeys, NoneIsNoKey
    <3> QED
      BY <1>8, <3>1 DEF ResetInputState, KeptBack, Tracked, TypeOK
  <2> QED
    BY <1>0, <1>8, <2>1, <2>2 DEF ResetInputState, UiIdle, external, AltInv, SeenHeld,
       AltAccounted, AltKept, PlansSound
<1>9. CASE Dispose
  BY <1>0, <1>9 DEF Dispose, external, AltInv, SeenHeld, AltAccounted, AltKept, PlansSound
<1> QED
  BY <1>4, <1>5, <1>6, <1>7, <1>8, <1>9 DEF UiThread

\* A disposed hook lets everything through.
LEMMA AltDisposed ==
  ASSUME TypeOK, Repeating, AltInv, NEW k \in Keys, NEW d \in {"down", "up"}, PassDisposed(k, d)
  PROVE  AltInv'
<1>0. SeenHeld /\ AltKept /\ \A x \in Alts : PlansSound(x)
  BY DEF AltInv
<1>1. /\ disposed' /\ UNCHANGED <<abandoned, hook, ui>> /\ PassOn(k, d) /\ Strike(k, d) /\ k \in Vk
  BY KeysAssumption DEF PassDisposed
<1>2. CASE d = "down"
  <2>1. phys' = phys \cup {k} /\ seen' = seen \cup {k} /\ target' = target \cup {k}
    BY <1>1, <1>2, PassOnEffect DEF Strike, Press
  <2> QED
    BY <1>0, <1>1, <2>1 DEF AltInv, SeenHeld, AltAccounted, AltKept, PlansSound
<1>3. CASE d = "up"
  <2>1. phys' = phys \ {k} /\ seen' = seen \ {k} /\ target' = target \ {k}
    BY <1>1, <1>3, PassOnEffect DEF Strike, Release
  <2> QED
    BY <1>0, <1>1, <2>1 DEF AltInv, SeenHeld, AltAccounted, AltKept, PlansSound
<1> QED
  BY <1>2, <1>3

\* The invariant of the Alt holds throughout.
LEMMA AltHolds ==
  ASSUME OneAlt, RepeatingAtStart \cap Alts = {}
  PROVE  Spec => []AltInv
<1>1. Init => AltInv
  BY NoneIsNoKey, ModifierKeys
     DEF Init, AltInv, SeenHeld, AltAccounted, AltKept, AltOwned, Tracked, AltBlocked,
         PlansSound, PlanSound, Paired, Free, Idle
<1>2. /\ TypeOK /\ GateExclusive /\ GateInv /\ Repeating /\ AltInv
      /\ GateExclusive' /\ GateInv' /\ [Next]_vars
      => AltInv'
  <2> SUFFICES ASSUME TypeOK, GateExclusive, GateInv, Repeating, AltInv,
                      GateExclusive', GateInv', [Next]_vars
               PROVE  AltInv'
    OBVIOUS
  <2>1. CASE UNCHANGED vars
    BY <2>1 DEF AltInv, SeenHeld, AltAccounted, AltKept, AltOwned, Tracked, AltBlocked, KeptBack,
                PlansSound, vars, external, ledger, gate
  <2>2. ASSUME NEW k \in Keys, NEW d \in {"down", "up"}, QuietKey(k, d) \/ DispatchedKey(k, d)
        PROVE  AltInv'
    <3>1. CASE disposed
      <4>1. PassDisposed(k, d)
        BY <2>2, <3>1 DEF QuietKey, DispatchedKey, SwallowBlocked, SwallowOwed, FailClosed,
      StayForwarded, PassUnownedTab, ClaimAlt, ForwardCtrlAlt, DeferAlt, DeferShift,
      PassHeldShift, RepeatDeferred, ReplayChord, ReplayRelease, DiscardGesture,
      QuarantineKey, PassUnknown, TakeKey, PassKey, BalanceShift, Transition
      <4> QED
        BY <4>1, AltDisposed
    <3>2. CASE ~disposed
      <4>1. SeenHeld' /\ AltAccounted' /\ AltKept'
        BY <2>2, <3>2, AltCallback
      <4>2. hook = Idle /\ ui' = ui
        BY <2>2, <3>2, CallbackMoves DEF Transition
      <4>3. hook' = hook \/ hook'.op = "replay"
        BY <2>2 DEF QuietKey, DispatchedKey, SwallowBlocked, SwallowOwed, FailClosed,
          StayForwarded, PassUnownedTab, ClaimAlt, ForwardCtrlAlt, DeferAlt, DeferShift,
          PassHeldShift, RepeatDeferred, ReplayChord, ReplayRelease, DiscardGesture,
          QuarantineKey, PassUnknown, TakeKey, PassKey, PassDisposed
      <4> QED
        BY <4>1, <4>2, <4>3 DEF AltInv, PlansSound, Idle
    <3> QED
      BY <3>1, <3>2
  <2> QED
    BY <2>1, <2>2, AltAdmitting, AltReplay, AltOther DEF Next, HookThread
<1> QED
  BY <1>1, <1>2, Typing, GateExclusivity, GateHolds, PTL DEF Spec

\* SessionOwnsTheAlt: on a keyboard with one Alt, which does not repeat when
\* the hook is installed, the target holds no Alt while a session is admitted.
THEOREM SessionOwnsTheAlt ==
  ASSUME OneAlt, RepeatingAtStart \cap Alts = {}
  PROVE  Spec => []SessionOwnsAlt
<1>1. AltInv /\ GateExclusive => SessionOwnsAlt
  BY DEF AltInv, AltKept, AltOwned, SessionOwnsAlt, GateExclusive
<1> QED
  BY <1>1, AltHolds, GateExclusivity, PTL

-----------------------------------------------------------------------------
(* No key is left stuck.                                                   *)

\* The target believes no key down that the user's side did not give it.
Believed == ~abandoned => target \subseteq seen

\* It holds no key that is kept back, nor one that waits to be replayed.
NotHeld ==
  /\ \A x \in Keys : KeptBack(x) => x \notin target
  /\ hook.op = "replay" => \A i \in DOMAIN hook.events : hook.events[i][1] \notin target

\* A key that repeats into a gesture was not given to the target before.
RepeatsUnseen ==
  /\ Withheld => typematic \notin seen
  /\ "Alt" \in consumed /\ AltDown /\ typematic = "Tab" => "Tab" \notin seen

\* A session knows the Shift that is down: it owns it or began with it.
ShiftTaken ==
  active /\ (ShiftDown \/ typematic \in Shifts) => "Shift" \in consumed \/ gestureShift

KeyInv == /\ Believed /\ ShiftTaken /\ \A k \in Vk : PlansSound(k)
          /\ ~disposed /\ ~abandoned => NotHeld /\ RepeatsUnseen

\* With one Alt and one Shift a key has its name for itself.
LEMMA OwnName ==
  ASSUME OneAlt, OneShift, NEW x \in Keys, NEW k \in Keys, KeyOf(x) = KeyOf(k), KeyOf(x) # "Unknown"
  PROVE  x = k
<1>1. KeyOf(x) \in SwitcherKeys
  BY KeysAssumption, KeyOfType
<1> QED
  BY <1>1, OneOwner DEF Alone

\* A callback keeps back no key but its own, unless it discards a gesture.
LEMMA KeptBackNew ==
  ASSUME TypeOK, OneAlt, OneShift, NEW k \in Keys, NEW d \in {"down", "up"},
         QuietKey(k, d) \/ DispatchedKey(k, d), ~DiscardGesture(k, d), ~disposed,
         NEW x \in Keys, KeptBack(x)'
  PROVE  KeptBack(x) \/ (x = k /\ d = "down")
<1> k \in Vk /\ x \in Vk /\ k # None /\ x # None
  BY KeysAssumption, NoneIsNoKey
<1>0. KeyOf(x) = KeyOf(k) /\ KeyOf(x) \in SwitcherKeys => x = k
  BY OneOwner DEF Alone
<1>1. CASE /\ deferredAlt' \in {deferredAlt, None} /\ deferredShift' \in {deferredShift, None}
           /\ blocked' \subseteq blocked /\ consumed' \subseteq consumed
  BY <1>1 DEF KeptBack
<1>2. CASE SwallowBlocked(k, d) \/ SwallowOwed(k, d) \/ StayForwarded(k, d)
  BY <1>1, <1>2 DEF SwallowBlocked, SwallowOwed, StayForwarded, gate, ledger
<1>3. CASE PassUnownedTab(k, d) \/ ForwardCtrlAlt(k, d) \/ PassHeldShift(k, d) \/ RepeatDeferred(k, d)
  BY <1>1, <1>3 DEF PassUnownedTab, ForwardCtrlAlt, PassHeldShift, RepeatDeferred, gate, ledger
<1>4. CASE ReplayChord(k, d) \/ ReplayRelease(k, d)
  BY <1>1, <1>4 DEF ReplayChord, ReplayRelease, ledger
<1>5. CASE PassUnknown(k, d) \/ PassKey(k, d)
  BY <1>1, <1>5 DEF PassUnknown, PassKey, gate, ledger
<1>6. CASE FailClosed(k, d) \/ QuarantineKey(k, d)
  BY <1>6 DEF FailClosed, QuarantineKey, ledger, KeptBack
<1>7. CASE DeferAlt(k, d) \/ DeferShift(k, d)
  BY <1>7 DEF DeferAlt, DeferShift, ledger, KeptBack
<1>8. CASE ClaimAlt(k, d)
  <2>1. consumed' = consumed \cup {KeyOf(k)} /\ KeyOf(k) \in SwitcherKeys /\ d = "down"
    BY <1>8, ModifierKeys DEF ClaimAlt, SwitcherKeys
  <2> QED
    BY <1>0, <1>8, <2>1 DEF ClaimAlt, gate, KeptBack
<1>9. CASE TakeKey(k, d)
  <2>1. /\ consumed' \subseteq consumed \/ (consumed' = consumed \cup {KeyOf(k)} /\ d = "down")
        /\ KeyOf(k) \in SwitcherKeys
    BY <1>9, KeyOfType DEF TakeKey, OwedAfter
  <2> QED
    BY <1>0, <1>9, <2>1 DEF TakeKey, gate, KeptBack
<1>10. CASE PassDisposed(k, d)
  BY <1>10 DEF PassDisposed
<1> QED
  BY <1>2, <1>3, <1>4, <1>5, <1>6, <1>7, <1>8, <1>9, <1>10 DEF QuietKey, DispatchedKey

\* A callback neither begins nor ends a session, and forgets only its own key.
LEMMA LedgerKept ==
  ASSUME NEW k \in Keys, NEW d \in {"down", "up"}, QuietKey(k, d) \/ DispatchedKey(k, d)
  PROVE  /\ active' = active /\ gestureShift' = gestureShift
         /\ consumed \ {KeyOf(k)} \subseteq consumed'
         /\ d = "down" => consumed \subseteq consumed'
<1>1. CASE SwallowBlocked(k, d) \/ SwallowOwed(k, d) \/ FailClosed(k, d) \/ StayForwarded(k, d)
  BY <1>1 DEF SwallowBlocked, SwallowOwed, FailClosed, StayForwarded, ledger
<1>2. CASE PassUnownedTab(k, d) \/ ClaimAlt(k, d) \/ ForwardCtrlAlt(k, d) \/ DeferAlt(k, d)
  BY <1>2 DEF PassUnownedTab, ClaimAlt, ForwardCtrlAlt, DeferAlt, ledger
<1>3. CASE DeferShift(k, d) \/ PassHeldShift(k, d) \/ RepeatDeferred(k, d) \/ ReplayChord(k, d)
  BY <1>3 DEF DeferShift, PassHeldShift, RepeatDeferred, ReplayChord, ledger
<1>4. CASE ReplayRelease(k, d) \/ DiscardGesture(k, d) \/ QuarantineKey(k, d) \/ PassUnknown(k, d)
  BY <1>4 DEF ReplayRelease, DiscardGesture, BalanceShift, QuarantineKey, PassUnknown, ledger
<1>5. CASE PassDisposed(k, d) \/ TakeKey(k, d) \/ PassKey(k, d)
  BY <1>5 DEF PassDisposed, TakeKey, OwedAfter, PassKey, ledger
<1> QED
  BY <1>1, <1>2, <1>3, <1>4, <1>5 DEF QuietKey, DispatchedKey

\* A Shift pressed in a session enters the ledger.
LEMMA ShiftPressed ==
  ASSUME GateExclusive, active, NEW k \in Keys \cap Shifts, k \notin blocked,
         QuietKey(k, "down") \/ DispatchedKey(k, "down")
  PROVE  "Shift" \in consumed'
<1> k \in Vk /\ k # None /\ KeyOf(k) = "Shift" /\ k \notin Alts /\ KeyOf(k) # "Unknown"
  BY KeysAssumption, NoneIsNoKey, ModifierKeys
<1> ~Tracked /\ ~altForwarded /\ ~AltBlocked /\ deferredAlt = None /\ deferredShift = None
  BY DEF GateExclusive, Tracked
<1> ~disposed
  BY DEF GateExclusive
<1>1. ~ \/ SwallowBlocked(k, "down") \/ SwallowOwed(k, "down") \/ FailClosed(k, "down")
        \/ StayForwarded(k, "down") \/ PassUnownedTab(k, "down") \/ ClaimAlt(k, "down")
        \/ ForwardCtrlAlt(k, "down") \/ DeferAlt(k, "down") \/ DeferShift(k, "down")
        \/ PassHeldShift(k, "down") \/ RepeatDeferred(k, "down") \/ ReplayChord(k, "down")
        \/ ReplayRelease(k, "down") \/ DiscardGesture(k, "down")
        \/ QuarantineKey(k, "down") \/ PassUnknown(k, "down") \/ PassDisposed(k, "down")
  BY DEF SwallowBlocked, SwallowOwed, FailClosed, StayForwarded, PassUnownedTab, ClaimAlt,
         ForwardCtrlAlt, DeferAlt, DeferShift, PassHeldShift, RepeatDeferred, ReplayChord,
         ReplayRelease, DiscardGesture, BalanceShift, QuarantineKey, PassUnknown, PassDisposed, Owed
<1>2. ~PassKey(k, "down")
  BY DEF PassKey, Takes
<1>3. TakeKey(k, "down")
  BY <1>1, <1>2 DEF QuietKey, DispatchedKey
<1> QED
  BY <1>3 DEF TakeKey, OwedAfter

\* What a transition does to the Shifts of the modifier state.
LEMMA ShiftMods ==
  ASSUME NEW k \in Keys, NEW d \in {"down", "up"}, Transition(k, d)
  PROVE  /\ k \notin Shifts => mods' \cap Shifts = mods \cap Shifts
         /\ d = "up" => k \notin mods' \cap Shifts /\ mods' \cap Shifts \subseteq mods
<1>1. AltSentinel \notin Shifts /\ mods' = ModsAfter(k, d)
  BY DEF AltSentinel, Shifts, Transition
<1>2. k \in Alts => k \notin Shifts
  BY ModifierKeys
<1> QED
  BY <1>1, <1>2 DEF ModsAfter

\* Every callback leaves a session its Shift.
LEMMA ShiftCallback ==
  ASSUME TypeOK, GateExclusive, GateInv, Repeating, OneShift, ShiftTaken, ~disposed,
         NEW k \in Keys, NEW d \in {"down", "up"}, QuietKey(k, d) \/ DispatchedKey(k, d)
  PROVE  ShiftTaken'
<1> SUFFICES ASSUME active', ShiftDown' \/ typematic' \in Shifts
             PROVE  "Shift" \in consumed' \/ gestureShift'
  BY DEF ShiftTaken
<1> k \in Vk
  BY KeysAssumption
<1>1. /\ active /\ gestureShift' = gestureShift
      /\ consumed \ {KeyOf(k)} \subseteq consumed'
      /\ d = "down" => consumed \subseteq consumed'
  BY LedgerKept
<1>2. Transition(k, d) /\ mods \ {AltSentinel} \subseteq phys /\ blocked \subseteq phys /\ None \notin Shifts
  BY CallbackMoves, NoneIsNoKey, ModifierKeys DEF GateInv, HeldKeys
<1>3. /\ d = "down" => phys' = phys \cup {k} /\ typematic' = k /\ (k \in phys => typematic = k)
      /\ d = "up" => /\ k \in phys /\ phys' = phys \ {k}
                     /\ typematic' # k \/ k = None
                     /\ typematic' \in {typematic, None}
  BY <1>2, StrikeEffect DEF Transition, Repeating
<1>4. AltSentinel \notin Shifts
  BY DEF AltSentinel, Shifts
<1>5. CASE k \in Shifts /\ d = "down"
  BY <1>1, <1>2, <1>3, <1>5, ShiftPressed DEF ShiftTaken
<1>6. CASE k \in Shifts /\ d = "up"
  <2>1. \A x \in phys \cap Shifts : x = k
    BY <1>6 DEF OneShift, TypeOK
  <2>2. ~ShiftDown'
    BY <1>2, <1>4, <1>6, <2>1, ShiftMods DEF ShiftDown
  <2>3. typematic' \in phys /\ typematic' # k
    BY <1>2, <1>3, <1>6, <2>2, NoneIsNoKey DEF Repeating
  <2> QED
    BY <2>1, <2>2, <2>3
<1>7. CASE k \notin Shifts
  <2>1. ShiftDown' => ShiftDown
    BY <1>2, <1>7, ShiftMods DEF ShiftDown
  <2>2. typematic' \in Shifts => typematic \in Shifts
    BY <1>2, <1>3, <1>7
  <2>3. KeyOf(k) # "Shift"
    BY <1>7, ModifierKeys
  <2> QED
    BY <1>1, <2>1, <2>2, <2>3 DEF ShiftTaken
<1> QED
  BY <1>5, <1>6, <1>7

\* What is withheld from the target newly is a deferred Alt.
LEMMA WithheldNew ==
  ASSUME TypeOK, NEW k \in Keys, NEW d \in {"down", "up"}, ~disposed,
         QuietKey(k, d) \/ DispatchedKey(k, d), Withheld'
  PROVE  Withheld \/ DeferAlt(k, d)
<1> USE DEF Withheld, Tracked, AltBlocked
<1>0. hook = Idle /\ active' = active
  BY CallbackMoves, LedgerKept
<1>1. CASE SwallowBlocked(k, d) \/ SwallowOwed(k, d) \/ FailClosed(k, d)
  BY <1>0, <1>1 DEF SwallowBlocked, SwallowOwed, FailClosed, gate, Idle
<1>2. CASE StayForwarded(k, d) \/ PassUnownedTab(k, d) \/ ForwardCtrlAlt(k, d) \/ ClaimAlt(k, d)
  BY <1>0, <1>2 DEF StayForwarded, PassUnownedTab, ForwardCtrlAlt, ClaimAlt, gate, Idle
<1>3. CASE QuarantineKey(k, d)
  BY <1>3 DEF QuarantineKey
<1>4. CASE DeferShift(k, d) \/ ReplayChord(k, d) \/ ReplayRelease(k, d) \/ DiscardGesture(k, d)
  BY <1>4 DEF DeferShift, ReplayChord, ReplayRelease, DiscardGesture, BalanceShift
<1>5. CASE PassHeldShift(k, d) \/ RepeatDeferred(k, d) \/ PassUnknown(k, d) \/ PassKey(k, d) \/ TakeKey(k, d)
  BY <1>0, <1>5 DEF PassHeldShift, RepeatDeferred, PassUnknown, PassKey, TakeKey, gate, Idle
<1>6. CASE PassDisposed(k, d)
  BY <1>6 DEF PassDisposed
<1> QED
  BY <1>1, <1>2, <1>3, <1>4, <1>5, <1>6 DEF QuietKey, DispatchedKey

\* A repeated Tab under an Alt in the ledger is never left to the target.
LEMMA TabTaken ==
  ASSUME GateExclusive, GateInv, ~disposed, NEW k \in Keys, KeyOf(k) = "Tab",
         QuietKey(k, "down") \/ DispatchedKey(k, "down"), "Alt" \in consumed, AltDown
  PROVE  active \/ AltBlocked \/ KeptBack(k)
<1> SUFFICES ASSUME ~active, ~AltBlocked, ~KeptBack(k) PROVE FALSE
  OBVIOUS
<1>1. /\ ~Tracked /\ ~altForwarded /\ k \notin blocked /\ KeyOf(k) \notin consumed
      /\ AltSnapshot(k, "down") /\ k \notin Alts /\ k \notin Shifts
  <2>1. k \notin Alts /\ k \notin Shifts
    BY KeysAssumption, ModifierKeys
  <2> QED
    BY <2>1 DEF GateExclusive, GateInv, ForwardedHeld, KeptBack, AltSnapshot
<1>2. ~ \/ SwallowBlocked(k, "down") \/ SwallowOwed(k, "down") \/ FailClosed(k, "down")
        \/ StayForwarded(k, "down") \/ PassUnownedTab(k, "down") \/ ClaimAlt(k, "down")
        \/ ForwardCtrlAlt(k, "down") \/ DeferAlt(k, "down") \/ DeferShift(k, "down")
        \/ PassHeldShift(k, "down") \/ RepeatDeferred(k, "down") \/ ReplayChord(k, "down")
        \/ ReplayRelease(k, "down") \/ DiscardGesture(k, "down")
        \/ QuarantineKey(k, "down") \/ PassUnknown(k, "down") \/ PassDisposed(k, "down")
        \/ TakeKey(k, "down") \/ PassKey(k, "down")
  BY <1>1 DEF SwallowBlocked, SwallowOwed, FailClosed, StayForwarded, PassUnownedTab, ClaimAlt,
         ForwardCtrlAlt, DeferAlt, DeferShift, PassHeldShift, RepeatDeferred, ReplayChord,
         ReplayRelease, DiscardGesture, BalanceShift, QuarantineKey, PassUnknown, PassDisposed,
         TakeKey, PassKey, Owed, LeftToPolicy, KeptBack
<1> QED
  BY <1>2 DEF QuietKey, DispatchedKey

\* Only a callback for an Alt puts it into the ledger, or a discarded gesture.
LEMMA AltEntered ==
  ASSUME NEW k \in Keys, NEW d \in {"down", "up"}, ~DiscardGesture(k, d),
         QuietKey(k, d) \/ DispatchedKey(k, d), "Alt" \in consumed'
  PROVE  "Alt" \in consumed \/ (k \in Alts /\ d = "down")
<1> KeyOf(k) = "Alt" <=> k \in Alts
  BY KeysAssumption, ModifierKeys
<1>1. CASE SwallowBlocked(k, d) \/ SwallowOwed(k, d) \/ FailClosed(k, d) \/ StayForwarded(k, d)
  BY <1>1 DEF SwallowBlocked, SwallowOwed, FailClosed, StayForwarded, ledger
<1>2. CASE PassUnownedTab(k, d) \/ ClaimAlt(k, d) \/ ForwardCtrlAlt(k, d) \/ DeferAlt(k, d)
  BY <1>2 DEF PassUnownedTab, ClaimAlt, ForwardCtrlAlt, DeferAlt, ledger
<1>3. CASE DeferShift(k, d) \/ PassHeldShift(k, d) \/ RepeatDeferred(k, d) \/ ReplayChord(k, d)
  BY <1>3 DEF DeferShift, PassHeldShift, RepeatDeferred, ReplayChord, ledger
<1>4. CASE ReplayRelease(k, d) \/ QuarantineKey(k, d) \/ PassUnknown(k, d)
  BY <1>4 DEF ReplayRelease, QuarantineKey, PassUnknown, ledger
<1>5. CASE PassDisposed(k, d) \/ TakeKey(k, d) \/ PassKey(k, d)
  BY <1>5 DEF PassDisposed, TakeKey, OwedAfter, PassKey, ledger
<1> QED
  BY <1>1, <1>2, <1>3, <1>4, <1>5 DEF QuietKey, DispatchedKey

\* No Alt enters the modifier state but by its press, or if the target holds one.
LEMMA AltMods ==
  ASSUME NEW k \in Keys, NEW d \in {"down", "up"}, Transition(k, d),
         k \notin Alts \/ d = "up", ~NativeAltDown, AltDown'
  PROVE  AltDown
<1>1. AltSentinel \notin Modifiers /\ mods' = ModsAfter(k, d)
  BY DEF AltSentinel, Modifiers, Alts, Shifts, Ctrls, Transition
<1>2. CASE d = "down"
  <2>1. mods' = mods \cup ({k} \cap Modifiers)
    BY <1>1, <1>2 DEF ModsAfter
  <2> QED
    BY <1>1, <1>2, <2>1 DEF AltDown
<1>3. CASE d = "up"
  <2>1. mods' \subseteq mods
    BY <1>1, <1>3 DEF ModsAfter
  <2> QED
    BY <2>1 DEF AltDown
<1> QED
  BY <1>2, <1>3

\* What is replayed are the keys held back and the key that decided their fate.
LEMMA ReplayKeys ==
  ASSUME TypeOK, NEW k \in Keys, NEW d \in {"down", "up"},
         ReplayChord(k, d) \/ ReplayRelease(k, d),
         NEW i \in DOMAIN hook'.events
  PROVE  hook'.events[i][1] \in {deferredAlt, deferredShift, k} \ {None}
<1>0. deferredAlt \in Alts /\ deferredAlt # None /\ k # None
  BY NoneIsNoKey DEF ReplayChord, ReplayRelease, Tracked, TypeOK
<1>1. hook'.events = Deferred \o << <<k, d>> >>
  <2>1. CASE ReplayChord(k, d)
    BY <2>1, Zenon DEF ReplayChord, Down
  <2>2. CASE ReplayRelease(k, d)
    BY <2>2, Zenon DEF ReplayRelease, Up
  <2> QED
    BY <2>1, <2>2
<1>2. hook'.events = ReplayOf(deferredAlt, deferredShift, k, d)
  BY <1>0, <1>1, DeferredReplay
<1>3. CASE deferredShift = None
  <2>1. hook'.events = << Down(deferredAlt), <<k, d>> >>
    BY <1>2, <1>3 DEF ReplayOf
  <2> QED
    BY ONLY <1>0, <2>1, i \in DOMAIN hook'.events DEF Down
<1>4. CASE deferredShift # None
  <2>1. hook'.events = << Down(deferredAlt), Down(deferredShift), <<k, d>> >>
    BY <1>2, <1>4 DEF ReplayOf
  <2> QED
    BY ONLY <1>0, <1>4, <2>1, i \in DOMAIN hook'.events DEF Down
<1> QED
  BY <1>3, <1>4

\* Shifts released in the target for a gesture are down there no more.
LEMMA Balanced ==
  ASSUME NEW k, NEW d, NEW sent, BalanceShift(k, d, sent)
  PROVE  target' \subseteq target /\ \A x \in blocked' \ blocked : x \notin target'
<1> DEFINE ups == [i \in 1 .. sent |-> Up(HeldShifts[i])]
<1>1. /\ target' = After(target, ups)
      /\ blocked' = blocked \cup {HeldShifts[i] : i \in 1 .. sent}
  BY DEF BalanceShift, Inject
<1>2. /\ DOMAIN ups = 1 .. sent
      /\ \A i \in 1 .. sent : ups[i] = Up(HeldShifts[i])
  OBVIOUS
<1> HIDE DEF ups
<1>3. \A i \in 1 .. sent : ups[i][1] = HeldShifts[i] /\ \A x : ups[i] # Down(x)
  BY <1>2, EventKeys
<1> QED
  BY <1>1, <1>2, <1>3 DEF After

\* Nothing lets a key get stuck while the gate is closed, callback by callback.
LEMMA KeyCallback ==
  ASSUME TypeOK, GateExclusive, GateInv, Repeating, AltInv, Accounted, KeyInv,
         OneAlt, OneShift, ~disposed, ~abandoned,
         NEW k \in Keys, NEW d \in {"down", "up"}, QuietKey(k, d) \/ DispatchedKey(k, d)
  PROVE  Believed' /\ NotHeld' /\ RepeatsUnseen'
<1> k \in Vk /\ k # None
  BY KeysAssumption, NoneIsNoKey
<1>1. /\ hook = Idle /\ Transition(k, d) /\ phys \subseteq Keys
      /\ abandoned' = abandoned
      /\ d = "down" => phys' = phys \cup {k}
      /\ d = "up" => k \in phys /\ phys' = phys \ {k}
  BY CallbackMoves DEF Transition, TypeOK
<1>2. /\ d = "down" => typematic' = k /\ (k \in phys => typematic = k)
      /\ d = "up" => typematic' \in {typematic, None} /\ typematic' # k
  BY <1>1, StrikeEffect DEF Transition, Repeating
<1>3. /\ target \subseteq seen /\ seen \subseteq phys /\ NotHeld /\ RepeatsUnseen
      /\ \A x \in phys \ seen : KeptBack(x)
  BY <1>1 DEF KeyInv, Believed, AltInv, SeenHeld, Accounted, Replays, Idle
<1>4. AltOwned => target \cap Alts = {}
  BY DEF AltInv, AltKept
<1>5. "Alt" \in consumed => ~NativeAltDown /\ ~Tracked
  BY <1>4 DEF NativeAltDown, AltOwned, GateExclusive
<1>6. Withheld => typematic \notin seen
  BY <1>3 DEF RepeatsUnseen
<1>7. d = "down" /\ Withheld => k \notin seen
  BY <1>2, <1>3, <1>6
<1>8. DeferAlt(k, d) => k \notin seen
  <2> SUFFICES ASSUME DeferAlt(k, d), k \in phys PROVE FALSE
    BY <1>3
  <2>1. typematic = k /\ k \in Alts /\ ~altForwarded /\ ~KeptBack(k)
    BY <1>2 DEF DeferAlt, Ordinary, Owed, KeptBack, Tracked, GateExclusive
  <2> QED
    BY <1>1, <2>1 DEF AltInv, AltAccounted, Idle
<1>9. Withheld' => Withheld \/ DeferAlt(k, d)
  BY WithheldNew
<1>10. hook'.op = "replay" => /\ ReplayChord(k, d) \/ ReplayRelease(k, d)
                              /\ Withheld
  <2>1. hook'.op = "replay" => ReplayChord(k, d) \/ ReplayRelease(k, d)
    BY <1>1 DEF QuietKey, DispatchedKey, SwallowBlocked, SwallowOwed, FailClosed,
      StayForwarded, PassUnownedTab, ClaimAlt, ForwardCtrlAlt, DeferAlt, DeferShift,
      PassHeldShift, RepeatDeferred, DiscardGesture, QuarantineKey, PassUnknown,
      PassDisposed, TakeKey, PassKey, gate, Idle
  <2> QED
    BY <2>1 DEF ReplayChord, ReplayRelease, Withheld
<1>11. hook'.op = "replay" =>
         \A i \in DOMAIN hook'.events : hook'.events[i][1] \in {deferredAlt, deferredShift, k} \ {None}
  BY <1>10, ReplayKeys
<1>12. \A x \in {deferredAlt, deferredShift} \ {None} : x \notin target
  <2>1. \A x \in {deferredAlt, deferredShift} \ {None} : x \in Keys /\ KeptBack(x)
    BY <1>1 DEF GateInv, HeldKeys, KeptBack
  <2> QED
    BY <1>3, <2>1 DEF NotHeld
<1>13. CASE d = "down" /\ DiscardGesture(k, "down")
  <2>1. PICK sent : BalanceShift(k, d, sent)
    BY <1>13 DEF DiscardGesture
  <2>2. /\ target' \subseteq target /\ seen' = seen
        /\ \A x \in blocked' \ blocked : x \notin target'
    BY <2>1, Balanced DEF BalanceShift
  <2>3. /\ Tracked /\ KeyOf(k) = "Tab" /\ consumed' = consumed \cup {"Alt", "Tab"}
        /\ deferredAlt' = None /\ deferredShift' = deferredShift /\ hook' = hook
    BY <1>13, <2>1 DEF DiscardGesture, BalanceShift
  <2>4. k \notin seen /\ target \cap Alts = {}
    BY <1>4, <1>7, <1>13, <2>3 DEF Withheld, AltOwned
  <2>5. ASSUME NEW x \in Keys, KeptBack(x)' PROVE x \notin target'
    <3>0. x \in Vk /\ x # None
      BY KeysAssumption, NoneIsNoKey
    <3>1. KeyOf(x) = "Alt" => x \in Alts
      BY <3>0, ModifierKeys
    <3>2. KeyOf(x) = "Tab" => x = k
      BY <2>3, <3>0, ModifierKeys
    <3>3. KeptBack(x) => x \notin target
      BY <1>3 DEF NotHeld
    <3>4. \/ x \in blocked' \ blocked \/ x \in blocked \/ KeyOf(x) \in consumed
          \/ KeyOf(x) \in {"Alt", "Tab"} \/ x = deferredShift
      BY <2>3, <2>5, <3>0 DEF KeptBack
    <3> QED
      BY <1>3, <2>2, <2>4, <3>1, <3>2, <3>3, <3>4 DEF KeptBack
  <2> QED
    BY <1>1, <1>2, <1>3, <1>13, <2>2, <2>3, <2>4, <2>5 DEF Believed, NotHeld, RepeatsUnseen, Idle
<1>14. ASSUME d = "down" /\ ~DiscardGesture(k, "down"), "Alt" \in consumed', AltDown', KeyOf(k) = "Tab"
       PROVE  "Alt" \in consumed /\ AltDown
  <2>1. k \notin Alts
    BY <1>14, ModifierKeys
  <2>2. "Alt" \in consumed
    BY <1>14, <2>1, AltEntered
  <2> QED
    BY <1>1, <1>5, <1>14, <2>1, <2>2, AltMods
<1>15. CASE d = "down" /\ ~DiscardGesture(k, "down")
  <2>1. \A x \in Keys : KeptBack(x)' => KeptBack(x) \/ x = k
    BY <1>15, KeptBackNew
  <2>2. CASE Swallow(k, "down") /\ (Withheld \/ KeptBack(k) \/ DeferAlt(k, "down"))
    <3>1. target' = target /\ seen' = seen
      BY <2>2 DEF Swallow
    <3>2. k \notin target
      BY <1>3, <1>7, <1>8, <1>15, <2>2 DEF NotHeld
    <3>3. NotHeld'
      BY <1>3, <1>11, <1>12, <2>1, <3>1, <3>2 DEF NotHeld
    <3>4. Withheld' => k \notin seen
      BY <1>7, <1>8, <1>9, <1>15
    <3>5. ASSUME "Alt" \in consumed', AltDown', k = "Tab" PROVE "Tab" \notin seen
      <4>1. "Alt" \in consumed /\ AltDown
        BY <1>14, <1>15, <3>5, ModifierKeys
      <4> QED
        BY <1>2, <1>3, <1>15, <3>5, <4>1 DEF RepeatsUnseen
    <3>6. RepeatsUnseen'
      BY <1>2, <1>15, <3>1, <3>4, <3>5 DEF RepeatsUnseen, Withheld
    <3> QED
      BY <1>1, <1>3, <3>1, <3>3, <3>6 DEF Believed
  <2>3. CASE /\ PassOn(k, "down") /\ ~KeptBack(k) /\ ~active /\ ~AltBlocked
             /\ UNCHANGED <<ledger, deferredAlt, deferredShift, blocked, hook>>
             /\ Tracked => k \in Shifts /\ ShiftDown
    <3>1. target' = target \cup {k} /\ seen' = seen \cup {k}
      BY <2>3, PassOnEffect
    <3>2. ~Tracked
      <4> SUFFICES ASSUME Tracked PROVE FALSE
        OBVIOUS
      <4>1. PICK x \in mods \cap Shifts : TRUE
        BY <2>3 DEF ShiftDown
      <4>2. x # AltSentinel
        BY <4>1 DEF Shifts, AltSentinel
      <4>3. x \in phys
        BY <4>1, <4>2 DEF GateInv, HeldKeys
      <4>4. x = k
        BY <1>1, <2>3, <4>1, <4>3 DEF OneShift
      <4>5. k \notin seen
        BY <1>7, <1>15 DEF Withheld
      <4> QED
        BY <1>3, <2>3, <4>3, <4>4, <4>5
    <3>3. ~Withheld'
      BY <1>1, <2>3, <3>2 DEF Withheld, Tracked, AltBlocked, Idle, ledger
    <3>4. NotHeld'
      <4>1. \A x \in Keys : KeptBack(x)' => KeptBack(x)
        BY <2>3 DEF KeptBack, ledger
      <4> QED
        BY <1>1, <1>3, <2>3, <3>1, <4>1 DEF NotHeld, Idle
    <3>5. ~("Alt" \in consumed' /\ AltDown' /\ k = "Tab")
      <4>1. KeyOf(k) = "Tab" => ~("Alt" \in consumed' /\ AltDown')
        BY <1>14, <1>15, <2>3, TabTaken
      <4> QED
        BY <4>1, ModifierKeys
    <3> QED
      BY <1>1, <1>2, <1>3, <1>15, <3>1, <3>3, <3>4, <3>5 DEF Believed, RepeatsUnseen, Withheld
  <2> QED
    BY <1>15, <2>2, <2>3, PressVerdict
<1>16. CASE d = "up"
  <2>1. IF KeptBack(k) THEN Swallow(k, "up") ELSE PassOn(k, "up")
    BY <1>16, ReleaseVerdict
  <2>2. KeptBack(k) => k \notin target
    BY <1>3 DEF NotHeld
  <2>3. seen' = seen \ {k} /\ target' = target \ {k}
    BY <2>1, <2>2, PassOnEffect DEF Swallow
  <2>4. ~DiscardGesture(k, d) /\ ~DeferAlt(k, d)
    BY <1>16 DEF DiscardGesture, BalanceShift, DeferAlt
  <2>5. \A x \in Keys : KeptBack(x)' => KeptBack(x)
    BY <1>16, <2>4, KeptBackNew
  <2>6. NotHeld'
    BY <1>3, <1>11, <1>12, <2>3, <2>5 DEF NotHeld
  <2>7. Withheld' => typematic' \notin seen'
    BY <1>1, <1>2, <1>3, <1>6, <1>9, <1>16, <2>3, <2>4, NoneIsNoKey
  <2>8. ASSUME "Alt" \in consumed', AltDown', typematic' = "Tab" PROVE "Tab" \notin seen'
    <3>1. "Alt" \in consumed
      BY <1>16, <2>4, <2>8, AltEntered
    <3>2. AltDown
      BY <1>1, <1>5, <1>16, <2>8, <3>1, AltMods
    <3>3. typematic = "Tab"
      BY <1>2, <1>16, <2>8 DEF None
    <3> QED
      BY <1>3, <2>3, <3>1, <3>2, <3>3 DEF RepeatsUnseen
  <2>9. RepeatsUnseen'
    BY <2>7, <2>8 DEF RepeatsUnseen, Withheld
  <2> QED
    BY <1>1, <1>3, <2>3, <2>6, <2>9 DEF Believed
<1> QED
  BY <1>13, <1>15, <1>16

\* Every Shift of the modifier state is balanced.
LEMMA HeldShiftsAll ==
  ASSUME NEW x \in mods \cap Shifts
  PROVE  \E i \in 1 .. Len(HeldShifts) : HeldShifts[i] = x
<1>1. x \in {"LShift", "RShift"}
  BY DEF Shifts
<1>2. CASE "LShift" \in mods /\ "RShift" \in mods
  <2>1. HeldShifts = <<"LShift", "RShift">>
    BY <1>2, PairConcat DEF HeldShifts, When
  <2> QED
    BY <1>1, <2>1
<1>3. CASE ~("LShift" \in mods /\ "RShift" \in mods)
  <2>1. HeldShifts = <<x>>
    <3>1. CASE x = "LShift"
      <4>1. HeldShifts = <<"LShift">> \o <<>>
        BY <1>3, <3>1 DEF HeldShifts, When
      <4> QED
        BY <3>1, <4>1, PairConcat
    <3>2. CASE x = "RShift"
      <4>1. HeldShifts = <<>> \o <<"RShift">>
        BY <1>3, <3>2 DEF HeldShifts, When
      <4> QED
        BY <3>2, <4>1, PairConcat
    <3> QED
      BY <1>1, <3>1, <3>2
  <2> QED
    BY <2>1
<1> QED
  BY <1>2, <1>3

\* The keys of a sequence of transitions.
Names(events) == {events[i][1] : i \in DOMAIN events}

\* Every key of a replay is in it.
LEMMA ReplayNames ==
  ASSUME NEW a, NEW s, NEW k, NEW d
  PROVE  {a, s, k} \ {None} \subseteq Names(ReplayOf(a, s, k, d))
<1>1. CASE s = None
  <2>1. ReplayOf(a, s, k, d) = << Down(a), <<k, d>> >>
    BY <1>1 DEF ReplayOf
  <2> QED
    BY ONLY <1>1, <2>1 DEF Down, Names
<1>2. CASE s # None
  <2>1. ReplayOf(a, s, k, d) = << Down(a), Down(s), <<k, d>> >>
    BY <1>2 DEF ReplayOf
  <2> QED
    BY ONLY <2>1 DEF Down, Names
<1> QED
  BY <1>1, <1>2

\* An admission takes no key the target holds, and its plan no Shift it lifted.
LEMMA KeyAdmitting ==
  ASSUME TypeOK, GateExclusive, GateInv, Repeating, AltInv, KeyInv, OneAlt, OneShift,
         NEW k \in Keys, NEW d \in {"down", "up"}, NEW ok \in BOOLEAN, AdmittingKey(k, d, ok)
  PROVE  KeyInv'
<1>1. d = "down" /\ Transition(k, d) /\ KeyOf(k) = "Tab" /\ ~disposed /\ AltSnapshot(k, d)
  BY DEF AdmittingKey, PromoteTab, PromoteTabOverShift, BalanceShift, ReopenTab, Transition
<1>2. k = "Tab" /\ k \in Vk /\ k # None /\ k \notin Alts /\ k \notin Shifts
  BY <1>1, KeysAssumption, NoneIsNoKey, ModifierKeys
<1>3. /\ phys' = phys \cup {k} /\ typematic' = k /\ (k \in phys => typematic = k)
      /\ UNCHANGED <<seen, abandoned, disposed, ui>>
  BY <1>1, KeptBackAdmitting DEF Transition, Strike, Press
<1>4. /\ Believed /\ ShiftTaken /\ SeenHeld /\ phys \subseteq Keys
      /\ ~abandoned => target \subseteq seen /\ NotHeld /\ RepeatsUnseen
      /\ \A x \in Vk : PlansSound(x)
  BY <1>1 DEF KeyInv, Believed, AltInv, TypeOK
<1>5. ~abandoned => target \cap Alts = {}
  <2>1. AltOwned
    BY DEF AdmittingKey, PromoteTab, PromoteTabOverShift, BalanceShift, ReopenTab, AltOwned
  <2> QED
    BY <1>1, <2>1 DEF AltInv, AltKept
<1>6. ~abandoned => k \notin seen
  <2> SUFFICES ASSUME ~abandoned, k \in phys PROVE k \notin seen
    BY <1>4 DEF SeenHeld
  <2>1. CASE Tracked
    BY <1>3, <1>4, <2>1 DEF RepeatsUnseen, Withheld
  <2>2. CASE ReopenTab(k, d, ok)
    <3>1. "Alt" \in consumed /\ AltDown
      BY <1>1, <1>2, <1>5, <2>2 DEF ReopenTab, AltSnapshot, NativeAltDown
    <3> QED
      BY <1>2, <1>3, <1>4, <3>1 DEF RepeatsUnseen
  <2> QED
    BY <2>1, <2>2 DEF AdmittingKey, PromoteTab, PromoteTabOverShift, BalanceShift
<1>7. PICK owed :
        /\ Admission(k, d, owed, ok)
        /\ \/ /\ PromoteTab(k, d, ok)
              /\ owed = consumed \cup {"Alt"} \cup IF deferredShift = None THEN {} ELSE {"Shift"}
           \/ PromoteTabOverShift(k, d, ok) /\ owed = consumed \cup {"Alt", "Shift"}
           \/ ReopenTab(k, d, ok) /\ owed = consumed
  BY DEF AdmittingKey, PromoteTab, PromoteTabOverShift, ReopenTab
<1>8. consumed' = owed \cup {"Tab"} /\ hook'.op # "replay"
  BY <1>1, <1>7 DEF Admission, OwedAfter, Idle
<1>9. /\ target' \subseteq target /\ \A x \in blocked' \ blocked : x \notin target'
      /\ deferredAlt' \in {deferredAlt, None} /\ deferredShift' \in {deferredShift, None}
      /\ PromoteTab(k, d, ok) \/ ReopenTab(k, d, ok) => blocked' = blocked
  <2>1. CASE PromoteTab(k, d, ok) \/ ReopenTab(k, d, ok)
    BY <2>1 DEF PromoteTab, ReopenTab, Swallow, gate
  <2>2. CASE PromoteTabOverShift(k, d, ok)
    <3>1. BalanceShift(k, d, Len(HeldShifts))
      BY <2>2 DEF PromoteTabOverShift
    <3>2. target' \subseteq target /\ \A x \in blocked' \ blocked : x \notin target'
      BY <3>1, Balanced
    <3>3. deferredAlt' = None /\ deferredShift' = deferredShift /\ Tracked
      BY <3>1 DEF BalanceShift
    <3>4. ~ReopenTab(k, d, ok)
      BY <3>3 DEF ReopenTab
    <3>5. PromoteTab(k, d, ok) => blocked' = blocked
      BY DEF PromoteTab
    <3> QED
      BY <3>2, <3>3, <3>4, <3>5
  <2> QED
    BY <2>1, <2>2 DEF AdmittingKey
<1>10. ~abandoned => NotHeld'
  <2> SUFFICES ASSUME ~abandoned, NEW x \in Keys, KeptBack(x)', x \in target' PROVE FALSE
    BY <1>8 DEF NotHeld
  <2>1. x \in Vk /\ x # None
    BY KeysAssumption, NoneIsNoKey
  <2>2. x \in phys /\ ~KeptBack(x) /\ x \notin Alts /\ x # k /\ x \in target
    BY <1>4, <1>5, <1>6, <1>9 DEF NotHeld, SeenHeld
  <2>3. KeyOf(x) \in consumed' /\ KeyOf(x) \notin consumed
    BY <1>9, <2>1, <2>2 DEF KeptBack
  <2>4. KeyOf(x) # "Alt" /\ KeyOf(x) # "Tab"
    BY <1>2, <2>1, <2>2, ModifierKeys
  <2>5. KeyOf(x) = "Shift" /\ x \in Shifts
    BY <1>7, <1>8, <2>1, <2>3, <2>4, ModifierKeys
  <2>6. CASE PromoteTab(k, d, ok) /\ deferredShift # None
    <3>1. deferredShift \in phys \cap Shifts
      BY <1>1, <2>6 DEF GateInv, HeldKeys, TypeOK
    <3>2. x = deferredShift
      BY <1>4, <2>2, <2>5, <3>1 DEF OneShift
    <3> QED
      BY <2>2, <3>2 DEF KeptBack
  <2>7. CASE PromoteTabOverShift(k, d, ok)
    <3>1. BalanceShift(k, d, Len(HeldShifts)) /\ ShiftDown
      BY <1>2, <2>7 DEF PromoteTabOverShift, BalanceShift, ShiftSnapshot
    <3>2. PICK y \in mods \cap Shifts : TRUE
      BY <3>1 DEF ShiftDown
    <3>3. y \in phys
      BY <1>1, <3>2 DEF GateInv, HeldKeys, AltSentinel, Shifts
    <3>4. x = y
      BY <1>4, <2>2, <2>5, <3>2, <3>3 DEF OneShift
    <3>5. x \in blocked'
      BY <3>1, <3>2, <3>4, HeldShiftsAll DEF BalanceShift
    <3> QED
      BY <1>9, <2>2, <3>5 DEF KeptBack
  <2> QED
    BY <1>7, <1>8, <2>3, <2>4, <2>5, <2>6, <2>7
<1>11. ~abandoned => Believed' /\ RepeatsUnseen'
  BY <1>3, <1>4, <1>6, <1>9 DEF Believed, RepeatsUnseen
<1>12. ShiftDown' => ShiftSnapshot(k, d)
  BY <1>1, <1>2, ShiftMods DEF ShiftDown, ShiftSnapshot
<1>13. ShiftTaken'
  <2>1. gestureShift' = (ok /\ ShiftSnapshot(k, d)) /\ active' = ok
    BY <1>7, Zenon DEF Admission
  <2> QED
    BY <1>2, <1>3, <1>12, <2>1, Zenon DEF ShiftTaken
<1>14. ASSUME NEW x \in Vk, hook'.op = "recover" PROVE PlanSound(hook'.events, x)
  <2> DEFINE altReached == "Alt" \notin consumed' /\ AltDown'
             reverse == ShiftSnapshot(k, d)
             shiftReached == "Shift" \notin consumed' /\ ShiftDown'
  <2>1. hook'.events = RecoveryPlan(altReached, reverse, shiftReached)
    BY <1>7, <1>14 DEF Admission, Idle
  <2>2. altReached \in BOOLEAN /\ reverse \in BOOLEAN /\ shiftReached \in BOOLEAN
    BY DEF ShiftSnapshot, AltDown, ShiftDown
  <2>3. reverse \/ ~shiftReached
    BY <1>12
  <2> HIDE DEF altReached, reverse, shiftReached
  <2> QED
    BY <2>1, <2>2, <2>3, PlanIsSound
<1> QED
  BY <1>3, <1>4, <1>10, <1>11, <1>13, <1>14 DEF KeyInv, Believed, PlansSound

\* A replay hands over keys that are not kept back, or keeps back what it did
\* not hand over.
LEMMA KeyReplay ==
  ASSUME TypeOK, GateExclusive, GateInv, AltInv, KeyInv, OneAlt, FinishReplay
  PROVE  KeyInv'
<1>1. /\ hook.op = "replay" /\ hook' = Idle /\ ReplayHeld /\ ReplayAlone
      /\ UNCHANGED <<phys, typematic, abandoned, mods, consumed, active, gestureShift,
                     deferredAlt, deferredShift, disposed, ui>>
  BY DEF FinishReplay, ledger, GateInv
<1>2. PICK a \in Alts, s \in Shifts \cup {None}, k \in Vk, d \in {"down", "up"} :
         /\ hook.events = ReplayOf(a, s, k, d) /\ {a, s, k} \ {None} \subseteq Keys
         /\ \A x \in {a, s, k} \ {None} : x \notin blocked /\ KeyOf(x) \notin consumed
         /\ d = "down" => k \notin {a, s} /\ {a, s, k} \ {None} \subseteq phys
         /\ d = "up" => k \in {a, s} /\ k \notin phys /\ {a, s} \ {None, k} \subseteq phys
  BY <1>1 DEF ReplayHeld
<1>3. PICK sent \in Seq(Event) :
         /\ Deliver(sent) /\ SentBy(sent, a, s, k, d)
         /\ SentOrBlocked(sent, a, s, k, d, blocked')
         /\ NotSent(sent, blocked' \ blocked) /\ AltFirst(sent, a)
  <2>1. /\ hook.events = ReplayOf(a, s, k, d)
        /\ (d = "up" => k \in {a, s}) /\ (d = "down" => k \notin {a, s})
    BY <1>2
  <2> HIDE <1>2
  <2> QED
    BY <2>1, ReplaySent
<1>4. blocked' \subseteq blocked \cup ({a, s, k} \ {None})
  BY <1>2, ReplayOutcome
<1>5. target' = After(target, sent) /\ seen' = After(seen, sent)
  BY <1>3 DEF Deliver
<1>6. Told(target, target', sent, a, s, k, d)
  <2>1. target \in SUBSET Vk
    BY DEF TypeOK
  <2>2. (d = "up" => k \in {a, s}) /\ (d = "down" => k \notin {a, s})
    BY <1>2
  <2> QED
    BY <1>3, <1>5, <2>1, <2>2, SentEffect
<1>7. ~abandoned => Believed'
  BY <1>5 DEF KeyInv, Believed, After
<1>8. ASSUME ~disposed, ~abandoned PROVE NotHeld' /\ RepeatsUnseen'
  <2>1. NotHeld /\ RepeatsUnseen
    BY <1>8 DEF KeyInv
  <2>2. \A x \in {a, s, k} \ {None} : x \notin target
    <3>1. {a, s, k} \ {None} \subseteq Names(hook.events)
      BY <1>2, ReplayNames
    <3> QED
      BY <1>1, <2>1, <3>1 DEF NotHeld, Names
  <2>3. ~Tracked /\ ~active /\ deferredAlt = None /\ deferredShift = None
    BY <1>1 DEF GateExclusive, Tracked
  <2>4. ASSUME NEW x \in Keys, KeptBack(x)' PROVE x \notin target'
    <3>1. x # None
      BY NoneIsNoKey
    <3>2. CASE x \in blocked' \ blocked
      <4>1. x \notin target /\ \A i \in DOMAIN sent : sent[i] # Down(x)
        BY <1>3, <1>4, <2>2, <3>2 DEF NotSent
      <4> QED
        BY <1>5, <4>1 DEF After
    <3>3. CASE x \notin blocked' \ blocked
      <4>1. x \in blocked \/ KeyOf(x) \in consumed
        BY <1>1, <2>3, <2>4, <3>1, <3>3 DEF KeptBack
      <4>2. x \notin target /\ x \notin {a, s, k}
        BY <1>2, <2>1, <3>1, <4>1 DEF NotHeld, KeptBack
      <4> QED
        BY <1>6, <4>2 DEF Told
    <3> QED
      BY <3>2, <3>3
  <2>5. ASSUME Withheld' PROVE typematic' \notin seen'
    <3>1. PICK x \in Alts : x \in blocked' /\ x \notin blocked
      BY <1>1, <2>3, <2>5 DEF Withheld, Tracked, Idle, AltBlocked, ReplayAlone
    <3>2. x = a
      BY <1>2, <1>4, <3>1, ModifierKeys, NoneIsNoKey DEF OneAlt
    <3>3. DOMAIN sent = {}
      BY <1>3, <3>1, <3>2 DEF NotSent, AltFirst
    <3>4. seen' \subseteq seen
      BY <1>5, <3>3 DEF After
    <3> QED
      BY <1>1, <2>1, <3>4 DEF RepeatsUnseen, Withheld
  <2>6. "Alt" \notin consumed
    BY <1>2, ModifierKeys, NoneIsNoKey
  <2> QED
    BY <1>1, <2>4, <2>5, <2>6 DEF NotHeld, RepeatsUnseen, Idle
<1>9. ShiftTaken'
  BY <1>1 DEF KeyInv, ShiftTaken, ShiftDown
<1> QED
  BY <1>1, <1>7, <1>8, <1>9 DEF KeyInv, Believed, PlansSound, Idle

\* A recovery takes back what it pressed, and the UI thread presses nothing else.
LEMMA KeyOther ==
  ASSUME TypeOK, GateExclusive, GateInv, AltInv, KeyInv, OneShift, FinishRecovery \/ UiThread
  PROVE  KeyInv'
<1>0. /\ Believed /\ ShiftTaken /\ \A x \in Vk : PlansSound(x)
      /\ ~disposed /\ ~abandoned => NotHeld /\ RepeatsUnseen
  BY DEF KeyInv
<1>1. ASSUME NEW events \in Seq(Event), SendRecovery(events), ~abandoned',
             \A x \in Vk : PlanSound(events, x)
      PROVE  target' \subseteq target /\ ~abandoned
  <2>1. ~abandoned
    <3>1. PICK b : abandoned' = (abandoned \/ b)
      BY <1>1, Zenon DEF SendRecovery
    <3> QED
      BY <1>1, <3>1, Zenon
  <2>2. target' \subseteq Vk
    BY <1>1 DEF SendRecovery, Inject, After
  <2>3. ASSUME NEW x \in target' PROVE x \in target
    <3>1. Paired(events, x) /\ (x \in PlanKeys \/ Free(events, x))
      BY <1>1, <2>2 DEF PlanSound
    <3> QED
      BY <1>1, <3>1, RecoveryAddsNothing
  <2> QED
    BY <2>1, <2>3
<1>2. \A x \in Vk : PlanSound(<<>>, x)
  BY DEF PlanSound, Paired, Free
<1>3. CASE FinishRecovery
  <2>1. hook.events \in Seq(Event) /\ SendRecovery(hook.events) /\ hook.op = "recover" /\ hook' = Idle
    BY <1>3 DEF TypeOK, Work, FinishRecovery
  <2>2. ~abandoned' => target' \subseteq target /\ ~abandoned
    BY <1>0, <1>1, <2>1 DEF PlansSound
  <2>3. UNCHANGED <<phys, typematic, seen, mods, consumed, active, gestureShift, deferredAlt,
                    deferredShift, blocked, disposed, ui>>
    BY <1>3 DEF FinishRecovery, ledger, gate
  <2>4. Withheld' => Withheld
    BY <2>1, <2>3 DEF Withheld, Tracked, AltBlocked, Idle
  <2>5. ~disposed /\ ~abandoned' => NotHeld' /\ RepeatsUnseen'
    BY <1>0, <2>1, <2>2, <2>3, <2>4 DEF NotHeld, RepeatsUnseen, KeptBack, AltDown, Idle
  <2>6. Believed' /\ ShiftTaken'
    BY <1>0, <2>2, <2>3 DEF Believed, ShiftTaken, ShiftDown
  <2> QED
    BY <1>0, <2>1, <2>3, <2>5, <2>6 DEF KeyInv, PlansSound, Idle
<1>4. CASE SendOwnerRecovery
  <2>1. ui \in Seq(Event) /\ SendRecovery(ui) /\ ui' = <<>>
    BY <1>4 DEF TypeOK, SendOwnerRecovery
  <2>2. ~abandoned' => target' \subseteq target /\ ~abandoned
    BY <1>0, <1>1, <2>1 DEF PlansSound
  <2>3. UNCHANGED <<phys, typematic, seen, mods, consumed, active, gestureShift, deferredAlt,
                    deferredShift, blocked, disposed, hook>>
    BY <1>4 DEF SendOwnerRecovery, ledger, gate
  <2>4. Withheld' => Withheld
    BY <2>3 DEF Withheld, Tracked, AltBlocked
  <2>5. ~disposed /\ ~abandoned' => NotHeld' /\ RepeatsUnseen'
    BY <1>0, <2>1, <2>2, <2>3, <2>4 DEF NotHeld, RepeatsUnseen, KeptBack, AltDown
  <2>6. Believed' /\ ShiftTaken'
    BY <1>0, <2>2, <2>3 DEF Believed, ShiftTaken, ShiftDown
  <2> QED
    BY <1>0, <1>2, <2>1, <2>3, <2>5, <2>6 DEF KeyInv, PlansSound
<1>5. CASE SetSessionVisible(FALSE) \/ (active /\ CancelAdmission(gestureShift))
  <2>1. /\ UNCHANGED <<phys, typematic, target, seen, abandoned, mods, consumed, deferredAlt,
                       deferredShift, blocked, disposed, hook>>
        /\ active' = FALSE
    BY <1>5 DEF SetSessionVisible, CancelAdmission, UiStep, external, gate
  <2>2. Believed' /\ ShiftTaken'
    BY <1>0, <2>1 DEF Believed, ShiftTaken
  <2>3. Withheld' => Withheld
    BY <2>1 DEF Withheld, Tracked, AltBlocked
  <2>4. ~disposed' /\ ~abandoned' => NotHeld' /\ RepeatsUnseen'
    BY <1>0, <2>1, <2>3 DEF NotHeld, RepeatsUnseen, KeptBack, AltDown
  <2>5. \A x \in Vk : PlanSound(ui', x)
    <3>1. CASE SetSessionVisible(FALSE)
      BY <1>0, <3>1 DEF SetSessionVisible, PlansSound
    <3>2. CASE CancelAdmission(gestureShift) /\ active
      <4> DEFINE altReached == "Alt" \notin consumed /\ AltDown
                 shiftReached == "Shift" \notin consumed /\ ShiftDown
      <4>1. ui' = RecoveryPlan(altReached, gestureShift, shiftReached)
        BY <3>2 DEF CancelAdmission
      <4>2. /\ altReached \in BOOLEAN /\ gestureShift \in BOOLEAN /\ shiftReached \in BOOLEAN
            /\ gestureShift \/ ~shiftReached
        BY <1>0, <3>2 DEF AltDown, ShiftDown, TypeOK, ShiftTaken
      <4> HIDE DEF altReached, shiftReached
      <4> QED
        BY <4>1, <4>2, PlanIsSound
    <3> QED
      BY <1>5, <3>1, <3>2
  <2> QED
    BY <1>0, <2>1, <2>2, <2>4, <2>5 DEF KeyInv, PlansSound
<1>6. CASE ResetInputState
  <2>1. /\ UNCHANGED <<phys, typematic, target, seen, abandoned, blocked, disposed, hook, ui>>
        /\ active' = FALSE /\ mods' = {} /\ deferredAlt' = None /\ deferredShift' = None
        /\ consumed' = consumed \cup (IF Tracked THEN {"Alt"} ELSE {})
                         \cup (IF deferredShift # None THEN {"Shift"} ELSE {})
        /\ ~disposed
    BY <1>6 DEF ResetInputState, UiIdle, external
  <2>2. Believed' /\ ShiftTaken'
    BY <1>0, <2>1 DEF Believed, ShiftTaken
  <2>3. Withheld' => Withheld
    BY <2>1 DEF Withheld, Tracked, AltBlocked
  <2>4. ASSUME ~abandoned, NEW x \in Keys, KeptBack(x)', x \in target PROVE FALSE
    <3>1. x \in Vk /\ x # None /\ x \in phys /\ ~KeptBack(x)
      BY <1>0, <2>1, <2>4, KeysAssumption, NoneIsNoKey DEF NotHeld, Believed, AltInv, SeenHeld
    <3>2. CASE Tracked /\ KeyOf(x) = "Alt"
      BY <2>1, <2>4, <3>1, <3>2, ModifierKeys DEF AltInv, AltKept, AltOwned
    <3>3. CASE deferredShift # None /\ KeyOf(x) = "Shift"
      <4>1. deferredShift \in Keys \cap Shifts /\ x \in Shifts
        BY <2>1, <3>1, <3>3, ModifierKeys DEF GateInv, HeldKeys, TypeOK
      <4> QED
        BY <3>1, <4>1 DEF OneShift, KeptBack
    <3> QED
      BY <2>1, <2>4, <3>1, <3>2, <3>3 DEF KeptBack
  <2>5. ~disposed' /\ ~abandoned' => NotHeld' /\ RepeatsUnseen'
    BY <1>0, <2>1, <2>3, <2>4 DEF NotHeld, RepeatsUnseen, AltDown
  <2> QED
    BY <1>0, <2>1, <2>2, <2>5 DEF KeyInv, PlansSound
<1>7. CASE Dispose
  BY <1>0, <1>7 DEF Dispose, external, KeyInv, Believed, ShiftTaken, PlansSound
<1> QED
  BY <1>3, <1>4, <1>5, <1>6, <1>7 DEF UiThread

\* Once the hook is removed everything is let through.
LEMMA KeyDisposed ==
  ASSUME TypeOK, GateExclusive, KeyInv, NEW k \in Keys, NEW d \in {"down", "up"}, PassDisposed(k, d)
  PROVE  KeyInv'
<1>1. /\ disposed /\ disposed' /\ UNCHANGED <<abandoned, active, hook, ui>> /\ PassOn(k, d) /\ k \in Vk
  BY KeysAssumption DEF PassDisposed, ledger
<1>2. \/ target' = target \cup {k} /\ seen' = seen \cup {k}
      \/ target' = target \ {k} /\ seen' = seen \ {k}
  BY <1>1, PassOnEffect
<1> QED
  BY <1>1, <1>2 DEF KeyInv, Believed, ShiftTaken, PlansSound, GateExclusive

\* The invariant of the keys holds throughout.
LEMMA KeyHolds ==
  ASSUME OneAlt, OneShift, RepeatingAtStart \cap Alts = {}
  PROVE  Spec => []KeyInv
<1>1. Init => KeyInv
  BY NoneIsNoKey, ModifierKeys
     DEF Init, KeyInv, Believed, ShiftTaken, NotHeld, RepeatsUnseen, Withheld, Tracked, AltBlocked,
         KeptBack, PlansSound, PlanSound, Paired, Free, Idle
<1>2. /\ TypeOK /\ GateExclusive /\ GateInv /\ Repeating /\ AltInv /\ Accounted /\ KeyInv
      /\ [Next]_vars
      => KeyInv'
  <2> SUFFICES ASSUME TypeOK, GateExclusive, GateInv, Repeating, AltInv, Accounted, KeyInv,
                      [Next]_vars
               PROVE  KeyInv'
    OBVIOUS
  <2>1. CASE UNCHANGED vars
    BY <2>1 DEF KeyInv, Believed, ShiftTaken, ShiftDown, NotHeld, RepeatsUnseen, Withheld, Tracked,
                AltBlocked, AltDown, KeptBack, PlansSound, vars, external, ledger, gate
  <2>2. ASSUME NEW k \in Keys, NEW d \in {"down", "up"}, QuietKey(k, d) \/ DispatchedKey(k, d)
        PROVE  KeyInv'
    <3>1. CASE disposed
      <4>1. PassDisposed(k, d)
        BY <2>2, <3>1 DEF QuietKey, DispatchedKey, SwallowBlocked, SwallowOwed, FailClosed,
      StayForwarded, PassUnownedTab, ClaimAlt, ForwardCtrlAlt, DeferAlt, DeferShift,
      PassHeldShift, RepeatDeferred, ReplayChord, ReplayRelease, DiscardGesture,
      QuarantineKey, PassUnknown, TakeKey, PassKey, BalanceShift, Transition
      <4> QED
        BY <4>1, KeyDisposed
    <3>2. CASE ~disposed
      <4>1. ShiftTaken'
        BY <2>2, <3>2, ShiftCallback DEF KeyInv
      <4>2. hook = Idle /\ ui' = ui /\ abandoned' = abandoned
        BY <2>2, <3>2, CallbackMoves DEF Transition
      <4>3. ~abandoned => Believed' /\ NotHeld' /\ RepeatsUnseen'
        BY <2>2, <3>2, KeyCallback
      <4>4. hook' = hook \/ hook'.op = "replay"
        BY <2>2 DEF QuietKey, DispatchedKey, SwallowBlocked, SwallowOwed, FailClosed,
          StayForwarded, PassUnownedTab, ClaimAlt, ForwardCtrlAlt, DeferAlt, DeferShift,
          PassHeldShift, RepeatDeferred, ReplayChord, ReplayRelease, DiscardGesture,
          QuarantineKey, PassUnknown, TakeKey, PassKey, PassDisposed
      <4> QED
        BY <4>1, <4>2, <4>3, <4>4 DEF KeyInv, Believed, PlansSound, Idle
    <3> QED
      BY <3>1, <3>2
  <2> QED
    BY <2>1, <2>2, KeyAdmitting, KeyReplay, KeyOther DEF Next, HookThread
<1> QED
  BY <1>1, <1>2, Typing, GateExclusivity, GateHolds, AltHolds, AccountedHolds, PTL DEF Spec

\* NoKeyIsStuck: on a keyboard with one Alt, which does not repeat when the
\* hook is installed, and one Shift, the target believes no key down once all
\* are up and nothing waits to be sent.
THEOREM NoKeyIsStuck ==
  ASSUME OneAlt, OneShift, RepeatingAtStart \cap Alts = {}
  PROVE  Spec => []NoStuckKey
<1>1. AltInv /\ KeyInv => NoStuckKey
  BY DEF AltInv, SeenHeld, KeyInv, Believed, NoStuckKey
<1> QED
  BY <1>1, AltHolds, KeyHolds, PTL
=============================================================================
