------------------------------ MODULE MCProgram ------------------------------
(***************************************************************************)
(* Two processes, which may be started again and again.                    *)
(***************************************************************************)
EXTENDS Program

TwoProcesses == {"first", "second"}
=============================================================================
