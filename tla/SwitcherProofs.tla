----------------------------- MODULE SwitcherProofs -----------------------------
(***************************************************************************)
(* The controller and the native session agree, whatever the number of     *)
(* previews and the keys: PortAgrees, with the types, is inductive.  Every *)
(* handler is a few primitive steps on the session, and each of those      *)
(* keeps the agreement and is a step of SessionPort.                       *)
(***************************************************************************)
EXTENDS Switcher, TLAPS

USE DEF NoIndex, Indexes

SessionOK ==
  /\ state \in {"Idle", "Visible"}
  /\ candidateCount \in 0 .. MaxCandidates
  /\ selectedIndex \in Indexes \cup {NoIndex}
  /\ graph \in [count : 0 .. MaxCandidates, selected : Indexes \cup {NoIndex}]
  /\ PortAgrees

LedgerOK ==
  /\ consumedKeys \subseteq Keys
  /\ behavior \in {"Sticky", "Tap"}
  /\ handling \in {"Consume", "PassThrough"}

IInv == SessionOK /\ LedgerOK

\* What a step does to the session, as SessionPort has it.
PortStep == Port!Next \/ UNCHANGED session

\* The invariant is the type invariant and the agreement.
LEMMA Split == IInv <=> TypeOK /\ PortAgrees
BY DEF IInv, SessionOK, LedgerOK, TypeOK

-----------------------------------------------------------------------------
(* The primitive steps on the session.                                     *)

\* A closed session agrees with anything.
LEMMA ClosePreserves == ASSUME Close PROVE SessionOK' /\ PortStep
<1>1. SessionOK'
  BY SwitcherAssumption DEF Close, SessionOK, PortAgrees, NoGraph, IsValid
<1>2. Port!Close
  BY DEF Close, NoGraph, Port!Close, Port!Shows, Port!NoIndex
<1> QED BY <1>1, <1>2 DEF PortStep, Port!Next

\* Selecting one of the previews, or none.
LEMMA ChoosePreserves ==
  ASSUME SessionOK, state = "Visible",
         NEW index \in Int, index = NoIndex \/ IsValid(index), Choose(index)
  PROVE  SessionOK' /\ PortStep
<1>1. SessionOK'
  BY SwitcherAssumption DEF Choose, SessionOK, PortAgrees, IsValid
<1>2. candidateCount > 0 /\ graph' = [count |-> candidateCount, selected |-> index]
  BY SwitcherAssumption DEF Choose, SessionOK, PortAgrees
<1>3. Port!Select
  BY <1>2, SwitcherAssumption
     DEF Choose, SessionOK, IsValid, Port!Select, Port!Shows, Port!NoIndex
<1> QED BY <1>1, <1>3 DEF PortStep, Port!Next

\* Nothing happens to the session.
LEMMA StutterPreserves == ASSUME SessionOK, UNCHANGED session
                          PROVE SessionOK' /\ PortStep
BY DEF SessionOK, PortAgrees, IsValid, session, PortStep

\* A new graph that keeps the selection where it can, or gives it up.
LEMMA ReplacePreserves ==
  ASSUME SessionOK, state = "Visible", UNCHANGED state,
         NEW count \in 1 .. MaxCandidates,
         NEW selected \in {NoIndex, IF selectedIndex < count THEN selectedIndex
                                                             ELSE count - 1},
         candidateCount' = count, selectedIndex' = selected,
         graph' = [count |-> count, selected |-> selected]
  PROVE  SessionOK' /\ PortStep
<1>1. selected \in {NoIndex} \cup 0 .. count - 1
  BY SwitcherAssumption DEF SessionOK
<1>2. SessionOK'
  BY <1>1, SwitcherAssumption DEF SessionOK, PortAgrees, IsValid
<1>3. Port!Replace
  BY DEF Port!Replace, Port!Shows, Port!NoIndex
<1> QED BY <1>2, <1>3 DEF PortStep, Port!Next

\* An index without a preview is left alone, a failure closes the session.
LEMMA TrySelectPreserves ==
  ASSUME SessionOK, state = "Visible", NEW index \in Int, TrySelect(index)
  PROVE  SessionOK' /\ PortStep
BY ClosePreserves, ChoosePreserves, StutterPreserves DEF TrySelect, FailAndClose

\* Activation closes the session or leaves the chosen preview selected.
LEMMA CommitPreserves ==
  ASSUME SessionOK, state = "Visible",
         NEW index \in Int, IsValid(index), SelectAndCommit(index)
  PROVE  SessionOK' /\ PortStep
BY ClosePreserves, ChoosePreserves DEF SelectAndCommit

\* The neighbour of a selection is a number, whichever way it wraps.
LEMMA NeighbourType ==
  ASSUME SessionOK, NEW backward
  PROVE  Neighbour(selectedIndex, backward) \in Int
BY SwitcherAssumption DEF SessionOK, Neighbour

-----------------------------------------------------------------------------
(* The handlers of a key.                                                  *)

\* The answer to a key and the ledger of consumed presses keep their types.
LEMMA AnswerPreserves ==
  ASSUME LedgerOK, NEW input \in KeyInput,
         NEW answer \in {"Consume", "PassThrough"}, Answer(input, answer)
  PROVE  LedgerOK'
BY DEF LedgerOK, Answer, KeyInput

\* Every way to handle a key preserves the invariant.
LEMMA KeyPreserves ==
  ASSUME IInv, NEW input \in KeyInput, HandleKeyboard(input)
  PROVE  IInv' /\ PortStep
<1> USE DEF IInv
<1>1. CASE IgnoreInjected(input)
  BY <1>1, StutterPreserves DEF IgnoreInjected, LedgerOK
<1>2. CASE ConsumeRelease(input)
  BY <1>2, StutterPreserves DEF ConsumeRelease, LedgerOK
<1>3. CASE Open(input)
  <2>1. PICK count \in 1 .. MaxCandidates :
          /\ state' = "Visible" /\ candidateCount' = count /\ selectedIndex' = 0
          /\ graph' = [count |-> count, selected |-> 0]
    BY <1>3 DEF Open
  <2>2. SessionOK'
    BY <2>1, SwitcherAssumption DEF SessionOK, PortAgrees, IsValid
  <2>3. Port!Open
    BY <1>3, <2>1 DEF Open, Reaches, Port!Open, Port!Shows
  <2> QED BY <1>3, <2>2, <2>3, AnswerPreserves DEF Open, PortStep, Port!Next
<1>4. CASE OpenNothing(input)
  BY <1>4, ClosePreserves, AnswerPreserves DEF OpenNothing
<1>5. CASE PassIdle(input)
  BY <1>5, StutterPreserves, AnswerPreserves DEF PassIdle
<1>6. CASE MoveSelection(input)
  BY <1>6, NeighbourType, TrySelectPreserves, AnswerPreserves
     DEF MoveSelection, Reaches
<1>7. CASE Cancel(input)
  BY <1>7, ClosePreserves, AnswerPreserves DEF Cancel
<1>8. CASE PickDigit(input)
  BY <1>8, CommitPreserves, StutterPreserves, AnswerPreserves
     DEF PickDigit, Reaches
<1>9. CASE ReleaseAlt(input)
  BY <1>9, ClosePreserves, StutterPreserves, AnswerPreserves
     DEF ReleaseAlt, TryCommit
<1>10. CASE PassVisible(input)
  BY <1>10, StutterPreserves, AnswerPreserves DEF PassVisible
<1> QED BY <1>1, <1>2, <1>3, <1>4, <1>5, <1>6, <1>7, <1>8, <1>9, <1>10
        DEF HandleKeyboard

-----------------------------------------------------------------------------
(* The pointer, the timers and the desktop.                                *)

\* Handlers that leave the ledger alone.
LEMMA QuietPreserves == ASSUME LedgerOK, Quiet PROVE LedgerOK'
BY DEF LedgerOK, Quiet

\* Pointer and timer handlers preserve the invariant.
LEMMA GraphPreserves ==
  ASSUME IInv, PointerOrTimer
  PROVE  IInv' /\ PortStep
<1> USE DEF IInv
<1>1. CASE \E hit \in Indexes \cup {NoIndex} :
             (hit = NoIndex \/ IsValid(hit)) /\ MouseMove(hit)
  BY <1>1, SwitcherAssumption, ClosePreserves, ChoosePreserves, QuietPreserves
     DEF MouseMove, FailAndClose
<1>2. CASE \E index \in Indexes : IsValid(index) /\ ClickPreview(index)
  BY <1>2, SwitcherAssumption, CommitPreserves, QuietPreserves DEF ClickPreview
<1>3. CASE MouseLeave
  BY <1>3, ClosePreserves, QuietPreserves DEF MouseLeave, FailAndClose
<1>4. CASE ClickBeside
  BY <1>4, ClosePreserves, ChoosePreserves, QuietPreserves
     DEF ClickBeside, ClearSelection, FailAndClose
<1>5. CASE RefreshEmpty
  BY <1>5, ClosePreserves, QuietPreserves DEF RefreshEmpty, CloseSession
<1>6. ASSUME NEW count \in 1 .. MaxCandidates, Relayout(count) PROVE IInv' /\ PortStep
  BY <1>6, ReplacePreserves, QuietPreserves DEF Relayout
<1>7. ASSUME NEW count \in 1 .. MaxCandidates, Refresh(count) PROVE IInv' /\ PortStep
  BY <1>7, ReplacePreserves, QuietPreserves DEF Refresh
<1> QED BY <1>1, <1>2, <1>3, <1>4, <1>5, <1>6, <1>7 DEF PointerOrTimer

\* So does an interruption, which clears the ledger.
LEMMA InterruptPreserves == ASSUME IInv, Interrupt PROVE IInv' /\ PortStep
BY ClosePreserves DEF IInv, Interrupt, LedgerOK

\* The controller starts idle, without previews.
LEMMA InitEstablishes == Init => IInv /\ Port!Init
BY SwitcherAssumption DEF Init, IInv, SessionOK, LedgerOK, PortAgrees, IsValid,
                          NoGraph, Port!Init, Port!NoIndex

\* Every step preserves the invariant.
LEMMA NextPreserves == IInv /\ [Next]_switcherVars => IInv' /\ PortStep
<1> SUFFICES ASSUME IInv, [Next]_switcherVars PROVE IInv' /\ PortStep
  OBVIOUS
<1>1. CASE \E input \in KeyInput : HandleKeyboard(input)
  BY <1>1, KeyPreserves
<1>2. CASE PointerOrTimer
  BY <1>2, GraphPreserves
<1>3. CASE CloseSession
  BY <1>3, ClosePreserves, QuietPreserves DEF IInv, CloseSession
<1>4. CASE Interrupt
  BY <1>4, InterruptPreserves
<1>5. CASE RelayoutFails
  BY <1>5, InterruptPreserves DEF RelayoutFails
<1>6. CASE \E mode \in {"Sticky", "Tap"} : SetBehavior(mode)
  BY <1>6, StutterPreserves DEF IInv, SetBehavior, LedgerOK
<1>7. CASE UNCHANGED switcherVars
  BY <1>7, StutterPreserves DEF IInv, LedgerOK, switcherVars, session
<1> QED BY <1>1, <1>2, <1>3, <1>4, <1>5, <1>6, <1>7 DEF Next

\* The types of the controller and of the session it drives.
THEOREM Typing == Spec => []TypeOK
<1>1. IInv => TypeOK
  BY Split
<1> QED BY <1>1, InitEstablishes, NextPreserves, PTL DEF Spec

\* Whatever fails natively, and in whatever order keys, pointer, timers and the
\* desktop interfere, the controller's count and selection are those of the
\* previews on the screen.
THEOREM Agreement == Spec => []PortAgrees
<1>1. IInv => PortAgrees
  BY Split
<1> QED BY <1>1, InitEstablishes, NextPreserves, PTL DEF Spec

\* The controller drives a session as SessionPort has it, whatever its port
\* answers: SwitcherApplication's side of what Session shows of the window.
THEOREM Implementation == Spec => ImplementsPort
<1>1. UNCHANGED session <=> UNCHANGED Port!session
  BY DEF session, Port!session
<1>2. IInv /\ [Next]_switcherVars => IInv' /\ [Port!Next]_Port!session
  BY <1>1, NextPreserves DEF PortStep
<1> QED BY <1>2, InitEstablishes, PTL DEF Spec, ImplementsPort, Port!Spec
=============================================================================
