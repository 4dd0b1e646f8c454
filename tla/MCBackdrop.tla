------------------------------ MODULE MCBackdrop ------------------------------
(***************************************************************************)
(* Two desktop geometries, a game's, and two capture threads.              *)
(***************************************************************************)
EXTENDS Backdrop

CONSTANTS p1, p2, g1, t1, t2

Desktops == {p1, p2}
Games == {g1}
NoGames == {}
TwoThreads == {t1, t2}
=============================================================================
