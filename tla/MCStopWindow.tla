---------------------------- MODULE MCStopWindow -----------------------------
(* StopWindow, for TLC: the .cfg files of the stop_window runs give the      *)
(* constants.  The timeouts tried are the ends of their range, the defaults  *)
(* and the largest ones whose sum is accepted.                               *)
EXTENDS StopWindow
==============================================================================
