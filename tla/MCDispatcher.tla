----------------------------- MODULE MCDispatcher -----------------------------
(***************************************************************************)
(* A queue of one or two slots and a few inputs for TLC: enough to fill    *)
(* the queue and its reserve, to reuse slots, and to have inputs on both   *)
(* sides of an invalidation and of the teardown.                           *)
(***************************************************************************)
EXTENDS Dispatcher

TwoKinds == {"repeat", "escape"}

\* is_session_ending_input: a released Alt, Escape, Alt+F4.
Ending == {"escape"}

\* Messages that arrive while a handler runs: only a key's own handler makes
\* native calls that dispatch them.
InHandler == {"handler"}
=============================================================================
