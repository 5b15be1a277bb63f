------------------------ MODULE MCSnapshotRepository -------------------------
(* SnapshotRepository, for TLC: repository.cfg gives the constants.  The     *)
(* watcher and the commands open the repository in the same way, so the      *)
(* processes are interchangeable.                                            *)
EXTENDS SnapshotRepository, TLC

ProcessSymmetry == Permutations(Procs)
==============================================================================
