----------------------------- MODULE MCBdsConsole -----------------------------
(* BdsConsole, for TLC: the .cfg files of the console runs give the constants. *)
EXTENDS BdsConsole
==============================================================================
