------------------------------ MODULE MCFrigoTab ------------------------------
(***************************************************************************)
(* The smallest keyboard that makes a gesture, for the whole program.      *)
(***************************************************************************)
EXTENDS FrigoTab

NoKeys == {}
AltTab == {"LAlt", "Tab"}
=============================================================================
