------------------------------ MODULE SessionPort ------------------------------
(***************************************************************************)
(* What a switcher session promises, whoever drives it and however it is   *)
(* built: the controller's count and selection are those of the previews   *)
(* on the screen, at every step.  The controller of Switcher and the       *)
(* native window of Session both implement it, from its two sides.         *)
(***************************************************************************)
EXTENDS Integers

CONSTANT MaxCandidates

VARIABLES
  state,           \* SwitcherState
  candidateCount,  \* candidate_count
  selectedIndex,   \* selected_index
  graph            \* the previews shown and the one drawn as selected

session == <<state, candidateCount, selectedIndex, graph>>

NoIndex == -1

Shows(count, index) ==
  /\ state' = IF count = 0 THEN "Idle" ELSE "Visible"
  /\ candidateCount' = count /\ selectedIndex' = index
  /\ graph' = [count |-> count, selected |-> index]

Close == Shows(0, NoIndex)

\* A session is published with its first preview selected.
Open == state = "Idle" /\ \E count \in 1 .. MaxCandidates : Shows(count, 0)

\* The selection moves to a preview that is shown, or away from all of them.
Select ==
  /\ state = "Visible"
  /\ \E index \in NoIndex .. candidateCount - 1 : Shows(candidateCount, index)

\* The previews are replaced: the selection keeps its place, or takes the last
\* one if there is no such place any more, or is given up.
Replace ==
  /\ state = "Visible"
  /\ \E count \in 1 .. MaxCandidates :
       \E index \in {NoIndex, IF selectedIndex < count THEN selectedIndex
                                                       ELSE count - 1} :
         Shows(count, index)

Init == state = "Idle" /\ candidateCount = 0 /\ selectedIndex = NoIndex
        /\ graph = [count |-> 0, selected |-> NoIndex]

Next == Close \/ Open \/ Select \/ Replace

Spec == Init /\ [][Next]_session

=============================================================================
