------------------------- MODULE ActivityStateProofs --------------------------
(***************************************************************************)
(* What the transitions of ActivityState preserve: every one of them takes *)
(* a well-typed record that from_dict accepts to another such record.      *)
(***************************************************************************)
EXTENDS ActivityState, TLAPS

\* A record a watcher may hold in memory: well typed, and accepted by from_dict.
Sound(st) == st \in ActivityStates /\ Loadable(st)

\* The two records that are made from nothing are sound.
LEMMA InitialStatesAreSound == Sound(NewState) /\ Sound(RecoveryState)
BY DelaysAssumption
   DEF Sound, NewState, RecoveryState, ActivityStates, Loadable, Phases, Reasons,
       Idle, Active, BackingUp, None, Periodic, LastPlayerLeft, Recovery, Operator,
       NoDeadline

\* The passing of time neither breaks a record nor raises its deadline.
LEMMA AgedIsSound ==
  ASSUME NEW st, Sound(st)
  PROVE  /\ Sound(Aged(st))
         /\ Aged(st).phase = st.phase
         /\ Aged(st).due <= st.due
BY DelaysAssumption
   DEF Sound, Aged, ActivityStates, Loadable, Phases, Reasons,
       Idle, Active, BackingUp, None, Periodic, LastPlayerLeft, Recovery, Operator,
       NoDeadline

\* A retry's delay lies between one unit and the interval (README: the back-off
\* starts at retry_seconds and grows up to interval_seconds).
LEMMA BackoffIsBounded ==
  ASSUME NEW n \in Nat, n > 0
  PROVE  Backoff(n) \in 1..Interval
<1>1. \A k \in 1..17 : Doublings[k] \in Nat /\ Doublings[k] >= 1
  BY DEF Doublings
<1>2. PICK k \in 1..17 : k = IF n - 1 < 16 THEN n ELSE 17
  OBVIOUS
<1>3. Retry * Doublings[k] \in Nat /\ Retry * Doublings[k] >= 1
  <2>1. Retry \in Nat /\ Retry >= 1
    BY DelaysAssumption
  <2>2. \A a, b \in Nat : a >= 1 /\ b >= 1 => a * b \in Nat /\ a * b >= 1
    OBVIOUS
  <2> QED
    BY <1>1, <2>1, <2>2
<1> QED
  BY <1>2, <1>3, DelaysAssumption DEF Backoff

\* The methods: sound records in, sound records out, and what each one leaves.
LEMMA StartBackupIsSound ==
  ASSUME NEW st, Sound(st), NEW why \in Reasons
  PROVE  Sound(StartBackup(st, why)) /\ StartBackup(st, why).phase = BackingUp
BY DelaysAssumption
   DEF Sound, StartBackup, ActivityStates, Loadable, Phases, Reasons,
       Idle, Active, BackingUp, None, Periodic, LastPlayerLeft, Recovery, Operator,
       NoDeadline

LEMMA StartCycleIsSound ==
  ASSUME NEW st, Sound(st)
  PROVE  Sound(StartCycle(st)) /\ StartCycle(st).phase = Active
<1>1. Interval \in 0..Interval /\ Interval # NoDeadline
  BY DelaysAssumption DEF NoDeadline
<1>2. Active \in Phases /\ Active # Idle /\ Active # BackingUp
  BY DEF Phases, Idle, Active, BackingUp
<1>3. /\ StartCycle(st) \in ActivityStates
      /\ StartCycle(st).phase = Active /\ StartCycle(st).due = Interval
      /\ StartCycle(st).pending = None /\ StartCycle(st).failures \in Nat
  BY <1>1, <1>2 DEF Sound, StartCycle, ActivityStates
<1> QED
  BY <1>1, <1>2, <1>3 DEF Sound, Loadable

LEMMA EndCycleIsSound ==
  ASSUME NEW st, Sound(st)
  PROVE  Sound(EndCycle(st)) /\ EndCycle(st).phase = Idle
BY DelaysAssumption
   DEF Sound, EndCycle, ActivityStates, Loadable, Phases, Reasons,
       Idle, Active, BackingUp, None, Periodic, LastPlayerLeft, Recovery, Operator,
       NoDeadline

LEMMA TimerDueIsSound ==
  ASSUME NEW st, Sound(st)
  PROVE  /\ Sound(TimerDue(st))
         /\ st.phase = Active /\ st.due = 0 => TimerDue(st).phase = BackingUp
         /\ ~(st.phase = Active /\ st.due = 0) => TimerDue(st) = st
<1>1. (IF st.retry # None THEN st.retry ELSE Periodic) \in Reasons
  BY DEF Sound, ActivityStates, Reasons, Periodic
<1> QED
  BY <1>1, StartBackupIsSound DEF TimerDue

\* reconcile_startup: an undue retry and an undue countdown are kept as they
\* are; an idle result comes only from an idle record and an empty server.
LEMMA ReconcileStartupIsSound ==
  ASSUME NEW st, Sound(st), NEW online \in Nat
  PROVE  LET new == ReconcileStartup(st, online)
         IN  /\ Sound(new)
             /\ new.phase = Idle => st.phase = Idle /\ online = 0
             /\ st.phase = Active /\ new.phase = Active => new = st
             /\ st.retry # None /\ st.due > 0 => new = st
             /\ st.phase = BackingUp => new.phase = BackingUp
             /\ st.phase = Idle => new.phase # BackingUp
<1> DEFINE new == ReconcileStartup(st, online)
<1>1. /\ st \in ActivityStates /\ Loadable(st)
      /\ Idle # Active /\ Idle # BackingUp /\ Active # BackingUp
      /\ Recovery \in Reasons /\ None \notin Reasons
  BY DEF Sound, Idle, Active, BackingUp, Reasons, None, Recovery, Periodic,
         LastPlayerLeft, Operator
<1>2. CASE st.phase = BackingUp
  <2>1. new = [st EXCEPT !.pending = Recovery, !.retry = None]
    BY <1>1, <1>2 DEF ReconcileStartup
  <2>2. Sound(new) /\ new.phase = BackingUp
    BY <1>1, <1>2, <2>1 DEF Sound, ActivityStates, Loadable
  <2> QED
    BY <1>1, <1>2, <2>2 DEF Loadable
<1>3. CASE st.phase = Active
  <2>1. st.due # NoDeadline /\ st.pending = None
    BY <1>1, <1>3 DEF Loadable
  <2>2. CASE st.retry # None
    <3>1. new = TimerDue(st)
      BY <1>1, <1>3, <2>1, <2>2 DEF ReconcileStartup
    <3> QED
      BY <1>1, <1>3, <3>1, TimerDueIsSound DEF ActivityStates
  <2>3. CASE st.retry = None /\ online = 0
    <3>1. new = StartBackup(st, Recovery)
      BY <1>1, <1>3, <2>1, <2>3 DEF ReconcileStartup
    <3> QED
      BY <1>1, <1>3, <2>3, <3>1, StartBackupIsSound
  <2>4. CASE st.retry = None /\ online # 0
    <3>1. new = IF st.due = 0 THEN StartBackup(st, Recovery) ELSE st
      BY <1>1, <1>3, <2>1, <2>4 DEF ReconcileStartup
    <3> QED
      BY <1>1, <1>3, <2>4, <3>1, StartBackupIsSound
  <2> QED
    BY <2>2, <2>3, <2>4
<1>4. CASE st.phase = Idle
  <2>1. st.retry = None
    BY <1>1, <1>4 DEF Loadable
  <2>2. new = IF online = 0 THEN EndCycle(st) ELSE StartCycle(st)
    BY <1>1, <1>4 DEF ReconcileStartup
  <2> QED
    BY <1>1, <1>4, <2>1, <2>2, StartCycleIsSound, EndCycleIsSound
<1> QED
  BY <1>1, <1>2, <1>3, <1>4 DEF ActivityStates, Phases

LEMMA PlayerDisconnectedIsSound ==
  ASSUME NEW st, Sound(st), NEW online \in Nat
  PROVE  /\ Sound(PlayerDisconnected(st, online))
         /\ st.retry # None => PlayerDisconnected(st, online) = st
         /\ PlayerDisconnected(st, online) # st
              => st.phase = Active /\ PlayerDisconnected(st, online).phase = BackingUp
BY StartBackupIsSound DEF PlayerDisconnected, Reasons

LEMMA RequireFinalBackupIsSound ==
  ASSUME NEW st, Sound(st), st.phase = BackingUp
  PROVE  Sound(RequireFinalBackup(st)) /\ RequireFinalBackup(st).phase = BackingUp
BY DelaysAssumption
   DEF Sound, RequireFinalBackup, ActivityStates, Loadable, Phases, Reasons,
       Idle, Active, BackingUp, None, Periodic, LastPlayerLeft, Recovery, Operator,
       NoDeadline

LEMMA BackupSucceededIsSound ==
  ASSUME NEW st, Sound(st), st.phase = BackingUp, NEW online \in Nat
  PROVE  /\ Sound(BackupSucceeded(st, online))
         /\ BackupSucceeded(st, online).phase = IF online > 0 THEN Active ELSE Idle
<1>1. Sound([st EXCEPT !.failures = 0])
  BY DEF Sound, ActivityStates, Loadable
<1> QED
  BY <1>1, StartCycleIsSound, EndCycleIsSound DEF BackupSucceeded

LEMMA BackupFailedIsSound ==
  ASSUME NEW st, Sound(st), st.phase = BackingUp
  PROVE  Sound(BackupFailed(st)) /\ BackupFailed(st).phase = Active
<1>1. Backoff(st.failures + 1) \in 1..Interval
  BY BackoffIsBounded DEF Sound, ActivityStates
<1>2. Active \in Phases /\ Active # Idle /\ Active # BackingUp /\ None \notin Reasons
      /\ Recovery \in Reasons
  BY DEF Phases, Idle, Active, BackingUp, Reasons, None, Periodic, LastPlayerLeft,
         Recovery, Operator
<1>3. Backoff(st.failures + 1) \in 0..Interval /\ Backoff(st.failures + 1) # NoDeadline
  BY <1>1, DelaysAssumption DEF NoDeadline
<1>4. (IF st.pending # None THEN st.pending ELSE Recovery) \in Reasons
  BY <1>2 DEF Sound, ActivityStates
<1> DEFINE failed(n, d, r) ==
      [st EXCEPT !.phase = Active, !.failures = n, !.due = d, !.pending = None, !.retry = r]
<1>5. ASSUME NEW n \in Nat, NEW d \in 0..Interval, NEW r \in Reasons
      PROVE  /\ failed(n, d, r) \in ActivityStates
             /\ failed(n, d, r).phase = Active /\ failed(n, d, r).due = d
             /\ failed(n, d, r).pending = None /\ failed(n, d, r).failures = n
  BY <1>2 DEF Sound, ActivityStates
<1>6. st.failures + 1 \in Nat
  BY DEF Sound, ActivityStates
<1>7. BackupFailed(st) = failed(st.failures + 1, Backoff(st.failures + 1),
                                IF st.pending # None THEN st.pending ELSE Recovery)
  BY DEF BackupFailed
<1> HIDE DEF failed
<1> QED
  BY <1>2, <1>3, <1>4, <1>5, <1>6, <1>7 DEF Sound, Loadable
==============================================================================
