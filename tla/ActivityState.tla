---------------------------- MODULE ActivityState ----------------------------
(***************************************************************************)
(* The pure state machine of state.py: the record the watcher keeps in     *)
(* memory and in its state file, and the transitions of class              *)
(* ActivityState.  A transition is an operator from a record to a record;  *)
(* the reason a method returns is the new record's `pending', which is not *)
(* None exactly when the new phase is BackingUp.                           *)
(*                                                                         *)
(* next_due_epoch is kept as the time LEFT until it (0: reached), so that  *)
(* `now < next_due_epoch' is `due > 0' and time stays finite.  The fields  *)
(* last_failure_reason, last_failure_epoch and last_success_epoch are      *)
(* diagnostics no transition reads; they are left out.                     *)
(***************************************************************************)
EXTENDS Integers, Sequences

CONSTANTS
  Interval,   \* interval_seconds
  Retry       \* retry_seconds

\* Config.validate: 30 <= retry_seconds <= interval_seconds.
ASSUME DelaysAssumption == Interval \in Nat /\ Retry \in 1..Interval

Idle == "idle"
Active == "active"
BackingUp == "backing_up"
Phases == {Idle, Active, BackingUp}

None == "none"
Periodic == "periodic"
LastPlayerLeft == "last-player-left"
Recovery == "recovery"
Operator == "operator"
Reasons == {Periodic, LastPlayerLeft, Recovery, Operator}

\* next_due_epoch is None.
NoDeadline == -1

ActivityStates ==
  [phase : Phases, due : {NoDeadline} \cup 0..Interval,
   pending : Reasons \cup {None}, retry : Reasons \cup {None}, failures : Nat]

\* ActivityState(): the dataclass defaults.
NewState ==
  [phase |-> Idle, due |-> NoDeadline, pending |-> None, retry |-> None, failures |-> 0]

\* The record the watcher makes when the state file cannot be read.
RecoveryState == [NewState EXCEPT !.phase = BackingUp, !.pending = Recovery]

\* One unit of time passes.
Aged(st) == [st EXCEPT !.due = IF @ > 0 THEN @ - 1 ELSE @]

------------------------------------------------------------------------------
\* Enter BACKING_UP for a reason: the same four assignments in every method.
StartBackup(st, why) ==
  [st EXCEPT !.phase = BackingUp, !.due = NoDeadline, !.pending = why, !.retry = None]

\* Enter ACTIVE with a full interval ahead.
StartCycle(st) ==
  [st EXCEPT !.phase = Active, !.due = Interval, !.pending = None, !.retry = None]

\* Enter IDLE.
EndCycle(st) ==
  [st EXCEPT !.phase = Idle, !.due = NoDeadline, !.pending = None, !.retry = None]

\* player_connected: only the first player of a cycle starts the countdown.
PlayerConnected(st) == IF st.phase = Idle THEN StartCycle(st) ELSE st

\* Mutant: the guard on a pending retry is missing.
PlayerDisconnected_IgnoresRetry(st, online) ==
  IF st.phase = Active /\ online = 0 THEN StartBackup(st, LastPlayerLeft) ELSE st

\* player_disconnected: a pending retry keeps its deadline.
PlayerDisconnected(st, online) ==
  IF st.phase = Active /\ online = 0 /\ st.retry = None
  THEN StartBackup(st, LastPlayerLeft)
  ELSE st

\* require_final_backup: due and failures are left as they are.
RequireFinalBackup(st) == [st EXCEPT !.pending = LastPlayerLeft, !.retry = None]

\* timer_due: a due retry runs again for the reason that failed.
TimerDue(st) ==
  IF st.phase = Active /\ st.due = 0
  THEN StartBackup(st, IF st.retry # None THEN st.retry ELSE Periodic)
  ELSE st

\* Mutants: nobody online is taken for the end of the cycle; a running deadline
\* starts again.
ReconcileStartup_Closes(st, online) ==
  IF st.phase = BackingUp THEN [st EXCEPT !.pending = Recovery]
  ELSE IF online = 0 THEN EndCycle(st) ELSE StartCycle(st)
ReconcileStartup_Restarts(st, online) ==
  IF st.phase = BackingUp \/ online = 0 THEN StartBackup(st, Recovery) ELSE StartCycle(st)

\* reconcile_startup: the branches in the order of the code.
ReconcileStartup(st, online) ==
  CASE st.phase = BackingUp ->
         [st EXCEPT !.pending = Recovery, !.retry = None]
    [] st.phase = Active /\ st.retry # None /\ st.due # NoDeadline ->
         TimerDue(st)
    [] online = 0 /\ st.phase = Active /\ (st.retry = None \/ st.due = NoDeadline) ->
         StartBackup(st, Recovery)
    [] online = 0 /\ st.phase = Idle ->
         EndCycle(st)
    [] online # 0 /\ st.phase = Active /\ st.retry = None /\ st.due # NoDeadline ->
         IF st.due = 0 THEN StartBackup(st, Recovery) ELSE st
    [] OTHER ->
         StartCycle(st)

\* Mutants: the count after the snapshot is not looked at.
BackupSucceeded_Ends(st, online) == EndCycle([st EXCEPT !.failures = 0])
BackupSucceeded_Starts(st, online) == StartCycle([st EXCEPT !.failures = 0])

\* backup_succeeded.
BackupSucceeded(st, online) ==
  LET reset == [st EXCEPT !.failures = 0]
  IN  IF online > 0 THEN StartCycle(reset) ELSE EndCycle(reset)

\* 2 ** k for the exponents 0..16 the code allows, at index k + 1.
Doublings ==
  <<1, 2, 4, 8, 16, 32, 64, 128, 256, 512, 1024, 2048, 4096, 8192, 16384, 32768, 65536>>

\* Mutant: the cap at the interval is missing.
Backoff_Uncapped(n) == Retry * Doublings[IF n - 1 < 16 THEN n ELSE 17]

\* The delay before the retry after the n-th consecutive failure.
Backoff(n) ==
  LET doubled == Retry * Doublings[IF n - 1 < 16 THEN n ELSE 17]
  IN  IF doubled < Interval THEN doubled ELSE Interval

\* Mutants: pending_reason is not cleared; no deadline is set for the retry.
BackupFailed_KeepsPending(st) ==
  [st EXCEPT !.phase = Active, !.failures = @ + 1, !.due = Backoff(st.failures + 1),
             !.retry = st.pending]
BackupFailed_NoDeadline(st) ==
  [st EXCEPT !.phase = Active, !.failures = @ + 1, !.pending = None, !.retry = st.pending]

\* backup_failed: the failed reason becomes the reason of the retry.
BackupFailed(st) ==
  [st EXCEPT !.phase = Active,
             !.failures = @ + 1,
             !.due = Backoff(st.failures + 1),
             !.pending = None,
             !.retry = IF st.pending # None THEN st.pending ELSE Recovery]

------------------------------------------------------------------------------
\* from_dict accepts the record: what a restarted watcher will read back.
Loadable(st) ==
  /\ st.failures \in Nat
  /\ st.phase = Idle => st.due = NoDeadline /\ st.pending = None /\ st.retry = None
  /\ st.phase = Active => st.due # NoDeadline /\ st.pending = None
  /\ st.phase = BackingUp => st.pending # None /\ st.retry = None
==============================================================================
