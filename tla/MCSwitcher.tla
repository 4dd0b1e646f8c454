------------------------------ MODULE MCSwitcher ------------------------------
(***************************************************************************)
(* Three previews, so that wrapping, a digit without a candidate and a     *)
(* relayout to fewer previews all happen, and one key of every kind.       *)
(***************************************************************************)
EXTENDS Switcher

AllKeys == {"Tab", "Alt", "Escape", "F4", "D1", "D3", "NumPad1", "Shift"}
=============================================================================
