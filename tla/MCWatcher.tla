------------------------------ MODULE MCWatcher -------------------------------
(* Watcher, for TLC: the .cfg files of the watcher_* runs give the constants. *)
EXTENDS Watcher
==============================================================================
