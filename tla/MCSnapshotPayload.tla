-------------------------- MODULE MCSnapshotPayload --------------------------
(* SnapshotPayload, for TLC: payload.cfg gives the constants. *)
EXTENDS SnapshotPayload
==============================================================================
