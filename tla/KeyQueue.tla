------------------------------- MODULE KeyQueue -------------------------------
(***************************************************************************)
(* What the keyboard hook is promised by its dispatcher: a bounded queue   *)
(* of key inputs between the hook thread and the UI thread.  Inputs are    *)
(* handed over one at a time and in the order in which they were accepted, *)
(* each at most once; a session that closes forgets all that is waiting.   *)
(* An input may be refused at any time (posting a message can fail); it is *)
(* accepted only within the bound for its kind.                            *)
(***************************************************************************)
EXTENDS Naturals, Sequences

CONSTANTS
  Capacity,  \* inputs that may wait
  Ids,       \* numbers of inputs, in the order in which they are issued
  Kinds,     \* kinds of input
  Critical   \* kinds that may use the one slot beyond the capacity

VARIABLES
  waiting,   \* accepted and not yet handed over, first come first
  current,   \* the input the UI thread is handling, or NoInput
  last,      \* number of the input accepted last
  open       \* the UI thread still serves the queue

queueVars == <<waiting, current, last, open>>

NoInput == [id |-> 0, kind |-> "none"]

Limit(kind) == IF kind \in Critical THEN Capacity + 1 ELSE Capacity

Init ==
  /\ waiting = <<>> /\ current = NoInput
  /\ last = 0
  /\ open = TRUE

\* The hook thread enqueues an input.
Accept ==
  \E id \in Ids, kind \in Kinds :
    /\ id > last
    /\ Len(waiting) < Limit(kind)
    /\ waiting' = IF open THEN Append(waiting, [id |-> id, kind |-> kind])
                  ELSE waiting
    /\ last' = id
    /\ UNCHANGED <<current, open>>

\* The UI thread is handed the first input.
HandOver ==
  /\ open /\ current = NoInput /\ waiting # <<>>
  /\ current' = Head(waiting)
  /\ waiting' = Tail(waiting)
  /\ UNCHANGED <<last, open>>

Finish ==
  /\ current # NoInput
  /\ current' = NoInput
  /\ UNCHANGED <<waiting, last, open>>

\* A session ends, the desktop interrupts it, or an admission is cancelled.
Forget ==
  /\ waiting' = <<>>
  /\ UNCHANGED <<current, last, open>>

Close ==
  /\ open
  /\ open' = FALSE
  /\ waiting' = <<>>
  /\ UNCHANGED <<current, last>>

Next == Accept \/ HandOver \/ Finish \/ Forget \/ Close

Spec == Init /\ [][Next]_queueVars

=============================================================================
