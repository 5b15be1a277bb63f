-------------------------- MODULE SnapshotRepository --------------------------
(***************************************************************************)
(* The snapshot repository: SnapshotManager.create, SnapshotRotator's      *)
(* maintain and prune, the repository lock and the `latest' link, as the   *)
(* watcher and the command line use them (snapshot.py, cli.py).            *)
(*                                                                         *)
(* A snapshot is its directory name.  Names start with a time stamp, so    *)
(* their order is the order of the clock: a number here.  What a directory *)
(* holds is abstracted to what the verifier says of it.  The console, the  *)
(* copy and the isolated server are seen through their outcome.            *)
(***************************************************************************)
EXTENDS Integers, FiniteSets

CONSTANTS
  Procs,       \* processes that open the repository: the watcher, commands
  MaxNames,    \* bound: how many names are ever given
  Keep,        \* keep_snapshots
  MaxFailed,   \* max_failed_snapshots
  Attempts,    \* verification_attempts
  MaxFaults,   \* bound: crashes, I/O errors and damaged snapshots
  ClockBack,   \* TRUE if the clock may step back between two snapshots
  Nobody       \* no process

Names == 1..MaxNames
NoSnap == 0

\* Config.validate bounds keep_snapshots, max_failed_snapshots and
\* verification_attempts from below.
ASSUME RepositoryAssumption ==
  /\ MaxNames \in Nat /\ MaxFaults \in Nat
  /\ Keep \in Nat \ {0} /\ MaxFailed \in Nat \ {0} /\ Attempts \in Nat \ {0}
  /\ ClockBack \in BOOLEAN
  /\ Nobody \notin Procs

VARIABLES
  \* The repository on disk
  state,    \* what each name holds: "none" (never given), "temp" (a .pending-
            \* directory), "pending", "verified", "failed" (the manifest's state),
            \* "broken" (the verifier refuses it), "gone" (removed)
  prev,     \* previous_snapshot in each manifest
  latest,   \* the target of the latest link
  diags,    \* names with diagnostics under runs/failed
  \* The processes
  lock,     \* the holder of backup.lock
  pc, cur, attempt, retain, doomed,  \* per process: its place, the snapshot it
            \* makes, the attempt, retain_failed_payload, what rotation still removes
  \* Bounds and observation
  faults,   \* faults spent
  passed,   \* observation: names the isolated server loaded without a complaint
  made      \* observation: the true order in which the names were given

disk == <<state, prev, latest, diags>>
locals == <<pc, cur, attempt, retain, doomed>>
vars == <<disk, lock, locals, faults, passed, made>>

States == {"none", "temp", "pending", "verified", "failed", "broken", "gone"}
Places ==
  {"idle", "preflight", "copy", "validate", "reject", "diagnose", "discard",
   "accept", "sync", "latest", "relink", "rotate", "remove", "reading", "returned"}

TypeOK ==
  /\ state \in [Names -> States]
  /\ prev \in [Names -> Names \cup {NoSnap}]
  /\ latest \in Names \cup {NoSnap}
  /\ diags \subseteq Names
  /\ lock \in Procs \cup {Nobody}
  /\ pc \in [Procs -> Places]
  /\ cur \in [Procs -> Names \cup {NoSnap}]
  /\ attempt \in [Procs -> 0..Attempts]
  /\ retain \in [Procs -> BOOLEAN]
  /\ doomed \in [Procs -> SUBSET Names]
  /\ faults \in Nat
  /\ passed \subseteq Names
  /\ made \in [Names -> Nat]

Init ==
  /\ state = [n \in Names |-> "none"]
  /\ prev = [n \in Names |-> NoSnap]
  /\ latest = NoSnap /\ diags = {}
  /\ lock = Nobody
  /\ pc = [p \in Procs |-> "idle"]
  /\ cur = [p \in Procs |-> NoSnap]
  /\ attempt = [p \in Procs |-> 0]
  /\ retain = [p \in Procs |-> TRUE]
  /\ doomed = [p \in Procs |-> {}]
  /\ faults = 0 /\ passed = {} /\ made = [n \in Names |-> 0]

------------------------------------------------------------------------------
(***************************************************************************)
(* The order of snapshots (SnapshotRotator).                               *)
(***************************************************************************)
In(what) == {n \in Names : state[n] = what}

\* complete_snapshots: those the verifier accepts.
Complete == In("verified")

Largest(S) == CHOOSE n \in S : \A m \in S : m <= n
Smallest(S) == CHOOSE n \in S : \A m \in S : n <= m

\* MUTANT: the link points the other way.
Head_Tail(S) ==
  LET tails == {n \in S : prev[n] \notin S} IN IF S = {} THEN NoSnap ELSE Largest(tails)

\* _head_snapshot: the one no other refers to; of several, the largest name.
Head(S) ==
  LET heads == {n \in S : \A m \in S : prev[m] # n}
  IN  IF S = {} THEN NoSnap
      ELSE IF heads = {} THEN Largest(S) ELSE Largest(heads)

\* The walk along previous_snapshot from n, as far as it stays in S: the least set
\* that has n and, with each snapshot, its predecessor.
Chain(S, n) ==
  {m \in S : \A T \in SUBSET S :
     n \in T /\ (\A k \in T : prev[k] \in S => prev[k] \in T) => m \in T}

\* _newest_first: the chain from the head, then the rest by name, largest first.
Before(S, m, n) ==
  LET linked == Chain(S, Head(S))
  IN  IF n \in linked THEN m \in linked /\ m # n /\ n \in Chain(S, m)
                      ELSE m \in linked \/ m > n

\* MUTANT: the names alone give the order.
Rank_ByName(S, n) == Cardinality({m \in S : m > n})

\* The place of n in that order.
Rank(S, n) == Cardinality({m \in S : Before(S, m, n)})

\* MUTANTS: one too many is kept; the link's target is not spared.
Removable_OneMore(final) ==
  {n \in Complete : Rank(Complete, n) > Keep /\ n # final /\ n # latest}
Removable_NotLatest(final) ==
  {n \in Complete : Rank(Complete, n) >= Keep /\ n # final}

\* _prune_locked: all but the Keep newest, the snapshot just made, and the target
\* of the latest link.
Removable(final) ==
  {n \in Complete : Rank(Complete, n) >= Keep /\ n # final /\ n # latest}

------------------------------------------------------------------------------
\* MUTANT: no lock.
Acquire_Unlocked(p) == pc[p] = "idle" /\ lock' = p

\* repository_lock: refused at once if another process has it (no step).
Acquire(p) == pc[p] = "idle" /\ lock = Nobody /\ lock' = p

Goto(p, place) == pc' = [pc EXCEPT ![p] = place]

\* The operation ends, by a return or by an exception: the lock is released.
Finish(p) ==
  /\ Goto(p, "idle")
  /\ lock' = IF lock = p THEN Nobody ELSE lock
  /\ cur' = [cur EXCEPT ![p] = NoSnap]
  /\ attempt' = [attempt EXCEPT ![p] = 0]
  /\ retain' = [retain EXCEPT ![p] = TRUE]
  /\ doomed' = [doomed EXCEPT ![p] = {}]

Fault == faults < MaxFaults /\ faults' = faults + 1

\* What a step cut short leaves on disk.  The manifest is replaced before the
\* directories are synced, so its new state may stand though the step raised; a
\* removal may stop half-way.
CutShort(p) ==
  \/ UNCHANGED state
  \/ pc[p] = "accept" /\ state' = [state EXCEPT ![cur[p]] = "verified"]
  \/ pc[p] = "reject" /\ state' = [state EXCEPT ![cur[p]] = "failed"]
  \/ /\ pc[p] = "discard"
     /\ \E what \in {"broken", "gone"} : state' = [state EXCEPT ![cur[p]] = what]
  \/ /\ pc[p] = "remove" /\ doomed[p] # {}
     /\ state' = [state EXCEPT ![Smallest(doomed[p])] = "broken"]

(***************************************************************************)
(* SnapshotManager.create.                                                 *)
(***************************************************************************)
BeginCreate(p) ==
  /\ Acquire(p)
  /\ Goto(p, "preflight")
  /\ attempt' = [attempt EXCEPT ![p] = 1]
  /\ UNCHANGED <<disk, cur, retain, doomed, faults, passed, made>>

\* _create_locked up to the predecessor: the failed samples are counted, a new
\* name is given and its temporary directory made, the chain's head is read.
Prepare(p) ==
  /\ pc[p] = "preflight"
  /\ \E n \in In("none") :
       /\ ClockBack \/ \A m \in Names \ In("none") : m < n
       /\ state' = [state EXCEPT ![n] = "temp"]
       /\ prev' = [prev EXCEPT ![n] = Head(Complete)]
       /\ cur' = [cur EXCEPT ![p] = n]
       /\ made' = [made EXCEPT ![n] = Cardinality(Names \ In("none")) + 1]
  /\ retain' = [retain EXCEPT ![p] = Cardinality(In("failed")) < MaxFailed]
  /\ Goto(p, "copy")
  /\ UNCHANGED <<latest, diags, lock, attempt, doomed, faults, passed>>

\* The server, the world, the network namespace or the space is missing.
PreflightRaises(p) ==
  /\ pc[p] = "preflight"
  /\ Finish(p)
  /\ UNCHANGED <<disk, faults, passed, made>>

\* Held, copied, resumed, described: the rename publishes a pending snapshot.
PublishPending(p) ==
  /\ pc[p] = "copy"
  /\ state' = [state EXCEPT ![cur[p]] = "pending"]
  /\ Goto(p, "validate")
  /\ UNCHANGED <<prev, latest, diags, lock, cur, attempt, retain, doomed, faults,
                 passed, made>>

\* MUTANT: the temporary directories of earlier runs are removed as well.
CopyRaises_Sweeps(p) ==
  /\ pc[p] = "copy"
  /\ state' = [n \in Names |-> IF state[n] = "temp" THEN "gone" ELSE state[n]]
  /\ Finish(p)
  /\ UNCHANGED <<prev, latest, diags, faults, passed, made>>

\* Any failure before the rename: the temporary directory is removed, errors
\* ignored, and the run ends.
CopyRaises(p) ==
  /\ pc[p] = "copy"
  /\ \/ state' = [state EXCEPT ![cur[p]] = "gone"] /\ UNCHANGED faults
     \/ UNCHANGED state /\ Fault
  /\ Finish(p)
  /\ UNCHANGED <<prev, latest, diags, passed, made>>

\* The isolated server loaded the copy.
ValidationPasses(p) ==
  /\ pc[p] = "validate"
  /\ passed' = passed \cup {cur[p]}
  /\ Goto(p, "accept")
  /\ UNCHANGED <<disk, lock, cur, attempt, retain, doomed, faults, made>>

\* MUTANT: the validator's result is not looked at.
ValidationFails_Accepts(p) ==
  /\ pc[p] = "validate"
  /\ Goto(p, "accept")
  /\ UNCHANGED <<disk, lock, cur, attempt, retain, doomed, faults, passed, made>>

\* It complained or timed out, or the checksums changed while it ran.
ValidationFails(p) ==
  /\ pc[p] \in {"validate", "accept"}
  /\ Goto(p, "reject")
  /\ UNCHANGED <<disk, lock, cur, attempt, retain, doomed, faults, passed, made>>

\* _set_snapshot_state(final, "verified"), after the second checksum pass.
Accept(p) ==
  /\ pc[p] = "accept"
  /\ state' = [state EXCEPT ![cur[p]] = "verified"]
  /\ Goto(p, "sync")
  /\ UNCHANGED <<prev, latest, diags, lock, cur, attempt, retain, doomed, faults,
                 passed, made>>

\* The run goes on to the next attempt, or raises after the last.
RetryOrRaise(p) ==
  \/ /\ attempt[p] < Attempts
     /\ Goto(p, "preflight")
     /\ attempt' = [attempt EXCEPT ![p] = @ + 1]
     /\ cur' = [cur EXCEPT ![p] = NoSnap]
     /\ UNCHANGED <<lock, retain, doomed>>
  \/ /\ attempt[p] = Attempts
     /\ Finish(p)

\* MUTANT: the cap is not looked at.
Reject_KeepsAll(p) ==
  /\ pc[p] = "reject"
  /\ state' = [state EXCEPT ![cur[p]] = "failed"]
  /\ RetryOrRaise(p)
  /\ UNCHANGED <<prev, latest, diags, faults, passed, made>>

\* _record_failed_snapshot: failed; below the cap the sample stays.
Reject(p) ==
  /\ pc[p] = "reject"
  /\ state' = [state EXCEPT ![cur[p]] = "failed"]
  /\ \/ retain[p] /\ RetryOrRaise(p)
     \/ ~retain[p] /\ Goto(p, "diagnose") /\ UNCHANGED <<lock, cur, attempt, retain, doomed>>
  /\ UNCHANGED <<prev, latest, diags, faults, passed, made>>

\* MUTANT: the diagnostics are not made durable before the payload goes.
Diagnose_Later(p) ==
  /\ pc[p] = "diagnose"
  /\ Goto(p, "discard")
  /\ UNCHANGED <<disk, lock, cur, attempt, retain, doomed, faults, passed, made>>

\* At the cap the diagnostics are made durable first ...
Diagnose(p) ==
  /\ pc[p] = "diagnose"
  /\ diags' = diags \cup {cur[p]}
  /\ Goto(p, "discard")
  /\ UNCHANGED <<state, prev, latest, lock, cur, attempt, retain, doomed, faults,
                 passed, made>>

\* ... and then this run's payload is removed.
Discard(p) ==
  /\ pc[p] = "discard"
  /\ state' = [state EXCEPT ![cur[p]] = "gone"]
  /\ RetryOrRaise(p)
  /\ UNCHANGED <<prev, latest, diags, faults, passed, made>>

\* An error while the outcome is recorded ends the run without another attempt.
RecordRaises(p) ==
  /\ pc[p] \in {"accept", "reject", "diagnose", "discard"}
  /\ Fault
  /\ CutShort(p)
  /\ Finish(p)
  /\ UNCHANGED <<prev, latest, diags, passed, made>>

(***************************************************************************)
(* _post_publish_maintenance, maintain and prune.                          *)
(***************************************************************************)

\* The sync of the snapshot directory; if it fails rotation is skipped.
Sync(p) ==
  /\ pc[p] = "sync"
  /\ \/ Goto(p, "latest") /\ UNCHANGED faults
     \/ Goto(p, "returned") /\ Fault
  /\ UNCHANGED <<disk, lock, cur, attempt, retain, doomed, passed, made>>

\* latest names the new snapshot; a failure is logged and rotation follows.
PointLatest(p) ==
  /\ pc[p] = "latest"
  /\ \/ latest' = cur[p] /\ UNCHANGED faults
     \/ UNCHANGED latest /\ Fault
  /\ Goto(p, "rotate")
  /\ UNCHANGED <<state, prev, diags, lock, cur, attempt, retain, doomed, passed, made>>

BeginMaintain(p) ==
  /\ Acquire(p)
  /\ Goto(p, "relink")
  /\ UNCHANGED <<disk, cur, attempt, retain, doomed, faults, passed, made>>

\* maintain: latest names the head of the chain, if there is one.
Relink(p) ==
  /\ pc[p] = "relink"
  /\ latest' = IF Complete = {} THEN latest ELSE Head(Complete)
  /\ Goto(p, "rotate")
  /\ UNCHANGED <<state, prev, diags, lock, cur, attempt, retain, doomed, faults,
                 passed, made>>

RelinkRaises(p) ==
  /\ pc[p] = "relink"
  /\ Fault
  /\ Finish(p)
  /\ UNCHANGED <<disk, passed, made>>

BeginPrune(p) ==
  /\ Acquire(p)
  /\ Goto(p, "rotate")
  /\ UNCHANGED <<disk, cur, attempt, retain, doomed, faults, passed, made>>

\* status, verify, rehearse and restore-plan read the repository under the lock; what
\* they read and make is in SnapshotPayload.
BeginRead(p) ==
  /\ Acquire(p)
  /\ Goto(p, "reading")
  /\ UNCHANGED <<disk, cur, attempt, retain, doomed, faults, passed, made>>

EndRead(p) ==
  /\ pc[p] = "reading"
  /\ Finish(p)
  /\ UNCHANGED <<disk, faults, passed, made>>

\* _prune_locked decides once what to remove ...
Rotate(p) ==
  /\ pc[p] = "rotate"
  /\ doomed' = [doomed EXCEPT ![p] = Removable(cur[p])]
  /\ Goto(p, "remove")
  /\ UNCHANGED <<disk, lock, cur, attempt, retain, faults, passed, made>>

\* ... and removes it one by one, by name.
Remove(p) ==
  /\ pc[p] = "remove" /\ doomed[p] # {}
  /\ state' = [state EXCEPT ![Smallest(doomed[p])] = "gone"]
  /\ doomed' = [doomed EXCEPT ![p] = @ \ {Smallest(@)}]
  /\ UNCHANGED <<prev, latest, diags, lock, pc, cur, attempt, retain, faults, passed, made>>

\* A removal that raises ends the rotation.
RemoveRaises(p) ==
  /\ pc[p] = "remove" /\ doomed[p] # {}
  /\ Fault
  /\ CutShort(p)
  /\ doomed' = [doomed EXCEPT ![p] = {}]
  /\ UNCHANGED <<prev, latest, diags, lock, pc, cur, attempt, retain, passed, made>>

Rotated(p) ==
  /\ pc[p] = "remove" /\ doomed[p] = {}
  /\ Goto(p, "returned")
  /\ UNCHANGED <<disk, lock, cur, attempt, retain, doomed, faults, passed, made>>

\* The operation returns to its caller.
Return(p) ==
  /\ pc[p] = "returned"
  /\ Finish(p)
  /\ UNCHANGED <<disk, faults, passed, made>>

\* The process is killed: flock goes with it, its directories stay.
Crash(p) ==
  /\ pc[p] # "idle"
  /\ Fault
  /\ CutShort(p)
  /\ Finish(p)
  /\ UNCHANGED <<prev, latest, diags, passed, made>>

\* A verified snapshot is damaged on disk, while nobody works on the repository.
Damage(n) ==
  /\ lock = Nobody /\ state[n] = "verified"
  /\ Fault
  /\ state' = [state EXCEPT ![n] = "broken"]
  /\ UNCHANGED <<prev, latest, diags, lock, locals, passed, made>>

Step(p) ==
  \/ BeginCreate(p) \/ Prepare(p) \/ PreflightRaises(p)
  \/ PublishPending(p) \/ CopyRaises(p)
  \/ ValidationPasses(p) \/ ValidationFails(p)
  \/ Accept(p)
  \/ Reject(p) \/ Diagnose(p) \/ Discard(p) \/ RecordRaises(p)
  \/ Sync(p) \/ PointLatest(p)
  \/ BeginMaintain(p) \/ Relink(p) \/ RelinkRaises(p) \/ BeginPrune(p)
  \/ BeginRead(p) \/ EndRead(p)
  \/ Rotate(p) \/ Remove(p) \/ RemoveRaises(p) \/ Rotated(p) \/ Return(p)
  \/ Crash(p)

Next == (\E p \in Procs : Step(p)) \/ (\E n \in Names : Damage(n))

Spec == Init /\ [][Next]_vars

------------------------------------------------------------------------------
(***************************************************************************)
(* Properties.                                                             *)
(***************************************************************************)

\* Only what an isolated server loaded is trusted: whatever the verifier accepts,
\* the latest link names or a later copy was linked against (SnapshotManager.create,
\* every failure path included).
Trusted == Complete \cup {latest} \cup {prev[n] : n \in Names}
OnlyValidatedAreTrusted == Trusted \ {NoSnap} \subseteq passed

\* The latest link, once set, never dangles: rotation, interrupted or not, spares its
\* target, though the link may have failed to move to the newest snapshot.
LatestNeverDangles == latest # NoSnap => state[latest] \in {"verified", "broken"}

\* What create returns to the watcher as a success is a snapshot that is still there:
\* the rotation after it, however wrong its idea of the order, spared it.
ReturnedSnapshotSurvives ==
  \A p \in Procs : pc[p] = "returned" /\ cur[p] # NoSnap => state[cur[p]] = "verified"

\* A command that reads the repository sees one state of it: while it works nothing is
\* published, accepted, rejected or removed, and the latest link stays (repository_lock).
ReadersSeeOneState ==
  [][(\E p \in Procs : pc[p] = "reading" /\ pc'[p] = "reading") => UNCHANGED disk]_vars

\* A snapshot that was not accepted is evidence: no run removes or changes one that
\* another run left behind (is_owned_verified, _record_failed_snapshot).
EvidenceKept ==
  [][\A n \in Names :
       /\ state[n] \in {"temp", "pending", "failed"}
       /\ \A p \in Procs : cur[p] # n
       => state'[n] = state[n]]_vars

\* A failed payload goes only once its diagnostics are durable, wherever the run stops.
DiagnosedBeforeDiscard ==
  [][\A n \in Names :
       state[n] = "failed" /\ state'[n] # "failed" => n \in diags]_vars

\* Failed samples do not fill the disk: when nobody works there are at most MaxFailed,
\* and one more for each run that was cut short (_create_locked, lines 709-716).
FailedBounded == lock = Nobody => Cardinality(In("failed")) <= MaxFailed + faults

\* Neither do verified snapshots, however often rotation or the link failed.
VerifiedBounded == lock = Nobody => Cardinality(Complete) <= Keep + faults

\* Where the order is known: the names follow the clock, or the accepted snapshots are
\* one chain of predecessors (a damaged or removed one in the middle cuts it).
NamesFollowClock == \A m, n \in Names \ In("none") : m < n => made[m] < made[n]
OrderKnown == NamesFollowClock \/ Complete \subseteq Chain(Complete, Head(Complete))

\* Rotation takes the oldest: a snapshot it removes has Keep newer ones that the
\* verifier accepts, in the order in which they were really made, although the clock
\* stepped back or the chain is cut, unless both (_newest_first).
RotationTakesOldest ==
  [][\A n \in Names :
       state[n] = "verified" /\ state'[n] = "gone" /\ OrderKnown
       => Cardinality({m \in Complete : made[m] > made[n]}) >= Keep]_vars

\* The latest link only ever moves to the newest snapshot the verifier accepts: what a
\* reader of the link restores is not older than it need be (maintain, _head_snapshot).
LatestMovesToNewest ==
  [][latest' # latest /\ OrderKnown => \A n \in Complete : made[n] <= made[latest']]_vars
==============================================================================
