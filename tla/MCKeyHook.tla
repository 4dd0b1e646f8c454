------------------------------ MODULE MCKeyHook ------------------------------
(***************************************************************************)
(* Small keyboards for TLC; each configuration picks one.  Four keys are   *)
(* enough for an Alt, a key that joins it, Tab, and Ctrl, which opposes it *)
(* and is otherwise a key the switcher has no use for.                     *)
(***************************************************************************)
EXTENDS KeyHook

NoKeys        == {}
TwoAlts       == {"LAlt", "RAlt", "LCtrl", "Tab"}
TwoShifts     == {"LAlt", "LShift", "RShift", "Tab"}
CtrlAndShift  == {"LAlt", "LCtrl", "LShift", "Tab"}
HeldModifiers == {"LAlt", "LShift"}
HeldShift     == {"LShift"}
=============================================================================
