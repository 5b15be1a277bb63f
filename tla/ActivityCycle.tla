---------------------------- MODULE ActivityCycle -----------------------------
(***************************************************************************)
(* What the state file promises of an activity cycle, whatever happens to   *)
(* the watcher that keeps it: a cycle begins idle -> active -> backing_up   *)
(* and is closed only by a snapshot that verified while it was backing_up;  *)
(* a failure goes back to active, and a cycle that is open is owed a        *)
(* snapshot until it has one.  Watcher implements it (CycleSpec).           *)
(***************************************************************************)
VARIABLES
  record,     \* the recorded phase, or "lost" without a readable file
  verified,   \* the running watcher holds a snapshot that it has not recorded
  owed        \* the recorded cycle has no snapshot yet

cycle == <<record, verified, owed>>

Open == {"active", "backing_up"}

Init == record = "lost" /\ verified = FALSE /\ owed = FALSE

\* A phase is recorded; an open cycle is owed its snapshot.
Record(phase) ==
  /\ record' = phase
  /\ owed' = (owed \/ phase \in Open)

Unverified == verified = FALSE /\ verified' = FALSE

Begin == record = "idle" /\ Record("active") /\ Unverified

BackUp == record = "active" /\ Record("backing_up") /\ Unverified

Fail == record = "backing_up" /\ Record("active") /\ Unverified

\* A restarted watcher takes the cycle up again; it is owed a snapshot, even one that
\* was verified and not recorded.
Resume == record # "lost" /\ Record(record) /\ Unverified

Verify ==
  /\ record \in {"backing_up", "lost"}
  /\ verified = FALSE /\ verified' = TRUE
  /\ owed' = FALSE
  /\ UNCHANGED record

\* The only way to close a cycle; who is online begins the next at once, and who
\* left during a periodic snapshot is owed a final one.
Close ==
  /\ verified = TRUE /\ verified' = FALSE
  /\ \E phase \in {"idle"} \cup Open : Record(phase)

\* A crash: the snapshot is there, but not recorded.
Forget == verified' = FALSE /\ UNCHANGED <<record, owed>>

\* The file is gone or damaged.
Lose == record' = "lost" /\ owed' = FALSE /\ UNCHANGED verified

\* A watcher without a readable file records what it finds.
Find == record = "lost" /\ Unverified /\ \E phase \in {"idle"} \cup Open : Record(phase)

Next ==
  \/ Begin \/ BackUp \/ Fail \/ Resume \/ Verify \/ Close \/ Forget \/ Lose \/ Find

Spec == Init /\ [][Next]_cycle
==============================================================================
