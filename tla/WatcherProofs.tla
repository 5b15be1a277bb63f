---------------------------- MODULE WatcherProofs -----------------------------
(***************************************************************************)
(* What the watcher guarantees for every interval, back-off, number of     *)
(* players, crash and failure.  The inductive invariant Inv relates the    *)
(* record in memory to the one on disk and both to the thread's place.     *)
(***************************************************************************)
EXTENDS Watcher, ActivityStateProofs

\* From the reading of the state file to its end, a run of the watcher never
\* lets the intact file and the memory differ.
Mirror == file = "intact" /\ pc \notin {"down", "load"} => disk = mem

\* The thread is inside _perform_backup only in BACKING_UP, and outside it, once
\* reconciled, never.
PhaseFitsPlace ==
  /\ pc \in {"create", "validate", "after_query", "after_answer", "decide"}
       => mem.phase = BackingUp
  /\ pc \in {"loop", "get", "left_query", "left_answer", "left"}
       => mem.phase # BackingUp

\* Nothing is owed while no file records a cycle, nor between a snapshot that
\* succeeded and the save that follows it.
NothingOwed ==
  /\ file # "intact" => owed = FALSE
  /\ pc \in {"after_query", "after_answer", "decide"} => owed = FALSE
  /\ disk.phase = Idle => owed = FALSE

Inv ==
  /\ TypeOK
  /\ Sound(mem) /\ Sound(disk)
  /\ Mirror /\ PhaseFitsPlace /\ NothingOwed

\* A memory that is idle owes nothing: it mirrors the file, or there is none.
LEMMA IdleMemoryOwesNothing ==
  ASSUME Inv, pc \notin {"down", "load"}, mem.phase = Idle
  PROVE  owed = FALSE
BY DEF Inv, Mirror, NothingOwed

\* The places of the console query.
LEMMA AnswerPlaces ==
  /\ DOMAIN AnswerOf = {"startup_query", "left_query", "after_query"}
  /\ AnswerOf["startup_query"] = "startup_answer"
  /\ AnswerOf["left_query"] = "left_answer"
  /\ AnswerOf["after_query"] = "after_answer"
BY DEF AnswerOf

\* The three phases are different.
LEMMA PhasesDiffer == Idle # Active /\ Idle # BackingUp /\ Active # BackingUp
BY DEF Idle, Active, BackingUp

LEMMA InitEstablishesInv == Init => Inv
<1> SUFFICES ASSUME Init PROVE Inv
  OBVIOUS
<1>1. Sound(NewState) /\ NewState.phase = Idle
  BY InitialStatesAreSound DEF NewState
<1>2. TypeOK
  <2>1. players \in 0..MaxPlayers
    BY WatcherAssumption DEF Init
  <2>2. queue \in Seq(Events)
    BY DEF Init
  <2> QED
    BY <1>1, <2>1, <2>2 DEF Init, TypeOK, Places, Sound
<1> QED
  BY <1>1, <1>2 DEF Init, Inv, Mirror, PhaseFitsPlace, NothingOwed

\* Save keeps the invariant's data parts, whatever sound record is saved.
LEMMA SavedIsSound ==
  ASSUME NEW st, Sound(st), Save(st), owed \in BOOLEAN
  PROVE  /\ mem' = st /\ disk' = st /\ file' = "intact"
         /\ Sound(mem') /\ Sound(disk')
         /\ mem' \in ActivityStates /\ disk' \in ActivityStates
         /\ owed' \in BOOLEAN
         /\ st.phase = Idle => owed' = owed
BY DEF Save, Sound

\* Every step of the environment keeps the invariant.
LEMMA EnvironmentKeepsInv == Inv /\ Environment => Inv'
<1> SUFFICES ASSUME Inv, Environment PROVE Inv'
  OBVIOUS
<1> USE WatcherAssumption, PhasesDiffer DEF Inv
<1>1. CASE PlayerJoins
  <2>1. queue' \in Seq(Events)
    BY <1>1 DEF PlayerJoins, TypeOK, Logged, Connected, Events
  <2>2. players' \in 0..MaxPlayers /\ dirty' \in BOOLEAN
    BY <1>1 DEF PlayerJoins, TypeOK
  <2> QED
    BY <1>1, <2>1, <2>2 DEF PlayerJoins, durable, TypeOK, Mirror, PhaseFitsPlace, NothingOwed
<1>2. CASE PlayerLeaves
  <2>1. queue' \in Seq(Events)
    BY <1>2 DEF PlayerLeaves, TypeOK, Logged, Disconnected, Events
  <2>2. players' \in 0..MaxPlayers
    BY <1>2 DEF PlayerLeaves, TypeOK
  <2> QED
    BY <1>2, <2>1, <2>2
    DEF PlayerLeaves, durable, observed, TypeOK, Mirror, PhaseFitsPlace, NothingOwed
<1>3. CASE Tick
  <2>1. Sound(mem') /\ Sound(disk') /\ mem'.phase = mem.phase /\ disk'.phase = disk.phase
    BY <1>3, AgedIsSound DEF Tick
  <2>2. disk = mem => disk' = mem'
    BY <1>3 DEF Tick
  <2> QED
    BY <1>3, <2>1, <2>2
    DEF Tick, observed, TypeOK, Sound, Mirror, PhaseFitsPlace, NothingOwed
<1>4. CASE Attach
  BY <1>4 DEF Attach, durable, observed, TypeOK, Mirror, PhaseFitsPlace, NothingOwed
<1>5. CASE JournalEnds
  <2>1. queue' \in Seq(Events)
    BY <1>5 DEF JournalEnds, TypeOK, JournalEnded, Events
  <2> QED
    BY <1>5, <2>1 DEF JournalEnds, durable, TypeOK, Mirror, PhaseFitsPlace, NothingOwed
<1>6. CASE Stop
  <2>1. queue' \in Seq(Events)
    BY <1>6 DEF Stop, TypeOK, Wake, Events
  <2> QED
    BY <1>6, <2>1 DEF Stop, durable, observed, TypeOK, Mirror, PhaseFitsPlace, NothingOwed
<1>7. CASE Crash
  <2>1. queue' \in Seq(Events)
    BY <1>7 DEF Crash
  <2> QED
    BY <1>7, <2>1, InitialStatesAreSound
    DEF Crash, durable, TypeOK, Places, Sound, Mirror, PhaseFitsPlace, NothingOwed
<1>8. CASE ServerRestarts
  <2>1. /\ UNCHANGED <<pc, mem, reason, online, attempt, stopping, follower, queue>>
        /\ UNCHANGED <<streak, sinceCopy, dirty>>
        /\ players' = 0 /\ file' = "absent" /\ faults' = faults + 1
    BY <1>8 DEF ServerRestarts, process
  <2>2. file' # "intact" /\ disk' = NewState /\ owed' = FALSE /\ Sound(NewState)
    BY <1>8, InitialStatesAreSound DEF ServerRestarts
  <2>3. owed' \in BOOLEAN
    BY <2>2
  <2>4. TypeOK'
    BY <2>1, <2>2, <2>3 DEF TypeOK, Sound
  <2> QED
    BY <2>1, <2>2, <2>4 DEF Mirror, PhaseFitsPlace, NothingOwed
<1>9. CASE FileDamaged
  <2>1. /\ UNCHANGED <<pc, mem, reason, online, attempt, stopping, follower, queue>>
        /\ UNCHANGED <<streak, sinceCopy, dirty>>
        /\ players' = players /\ file' = "corrupt" /\ faults' = faults + 1
    BY <1>9 DEF FileDamaged, process
  <2>2. file' # "intact" /\ disk' = NewState /\ owed' = FALSE /\ Sound(NewState)
    BY <1>9, InitialStatesAreSound DEF FileDamaged
  <2>3. owed' \in BOOLEAN
    BY <2>2
  <2>4. TypeOK'
    BY <2>1, <2>2, <2>3 DEF TypeOK, Sound
  <2> QED
    BY <2>1, <2>2, <2>4 DEF Mirror, PhaseFitsPlace, NothingOwed
<1>10. CASE Restart
  BY <1>10 DEF Restart, durable, observed, TypeOK, Places, Mirror, PhaseFitsPlace, NothingOwed
<1>11. CASE OperatorStarts
  BY <1>11
  DEF OperatorStarts, durable, observed, TypeOK, Places, Mirror, PhaseFitsPlace, NothingOwed
<1> QED
  BY <1>1, <1>2, <1>3, <1>4, <1>5, <1>6, <1>7, <1>8, <1>9, <1>10, <1>11 DEF Environment

\* Every step of the watcher's thread keeps the invariant.
LEMMA MainKeepsInv == Inv /\ Main => Inv'
<1> SUFFICES ASSUME Inv, Main PROVE Inv'
  OBVIOUS
<1> USE PhasesDiffer DEF Inv
<1>o. owed \in BOOLEAN /\ online \in Nat /\ queue \in Seq(Events)
  BY DEF TypeOK
<1>e. Exit => /\ pc' = "down" /\ mem' = NewState /\ reason' = None /\ online' = 0
              /\ attempt' = 0 /\ follower' = "off" /\ queue' = <<>>
              /\ queue' \in Seq(Events) /\ Sound(NewState)
  BY InitialStatesAreSound DEF Exit
<1>t. ASSUME NEW e \in Events, TakeEvent(e)
      PROVE  pc = "get" /\ queue' \in Seq(Events)
  <2>1. pc = "get" /\ queue # <<>> /\ queue' = Tail(queue)
    BY <1>t DEF TakeEvent
  <2>2. Tail(queue) \in Seq(Events)
    BY <1>o, <2>1
  <2> QED
    BY <2>1, <2>2
<1>1. CASE Load
  <2>1. CASE file = "intact" /\ mem' = disk /\ UNCHANGED <<durable, owed>>
    <3>1. dirty' \in BOOLEAN
      BY <1>1 DEF Load
    <3> QED
      BY <1>1, <2>1, <3>1
      DEF Load, durable, TypeOK, Sound, Places, Mirror, PhaseFitsPlace, NothingOwed
  <2>2. CASE file = "absent" /\ mem' = NewState /\ UNCHANGED <<durable, owed>>
    <3>1. dirty' \in BOOLEAN
      BY <1>1 DEF Load
    <3> QED
      BY <1>1, <2>2, <3>1, InitialStatesAreSound
      DEF Load, durable, TypeOK, Sound, Places, Mirror, PhaseFitsPlace, NothingOwed
  <2>3. CASE file = "corrupt" /\ Save(RecoveryState)
    <3>1. dirty' \in BOOLEAN
      BY <1>1 DEF Load
    <3>2. Sound(RecoveryState) /\ RecoveryState.phase = BackingUp
      BY InitialStatesAreSound DEF RecoveryState, NewState
    <3> QED
      BY <1>o, <1>1, <2>3, <3>1, <3>2, SavedIsSound
      DEF Load, TypeOK, Places, Mirror, PhaseFitsPlace, NothingOwed
  <2> QED
    BY <1>1, <2>1, <2>2, <2>3 DEF Load
<1>2. CASE AskConsole
  BY <1>2, AnswerPlaces
  DEF AskConsole, durable, observed, TypeOK, Places, Mirror, PhaseFitsPlace, NothingOwed
<1>3. CASE StartupQuery
  <2>1. dirty' \in BOOLEAN
    BY <1>3 DEF StartupQuery
  <2> QED
    BY <1>3, <2>1, AnswerPlaces
    DEF StartupQuery, Answered, durable, TypeOK, Places, Mirror, PhaseFitsPlace, NothingOwed
<1>4. CASE StartupQueryFails
  BY <1>e, <1>4, AnswerPlaces
  DEF StartupQueryFails, QueryRaises, durable, TypeOK, Places, Sound,
      Mirror, PhaseFitsPlace, NothingOwed
<1>5. CASE Reconcile
  <2> DEFINE st == ReconcileStartup(mem, online)
  <2>1. Sound(st) /\ (st.phase = Idle => mem.phase = Idle)
    BY <1>o, ReconcileStartupIsSound
  <2>2. Save(st) /\ pc = "reconcile"
    BY <1>5 DEF Reconcile
  <2>3. st.phase = Idle => owed' = FALSE
    BY <1>o, <2>1, <2>2, IdleMemoryOwesNothing, SavedIsSound
  <2>4. st.pending \in Reasons \cup {None}
    BY <2>1 DEF Sound, ActivityStates
  <2>5. \/ st.phase = BackingUp /\ Perform(st.pending)
        \/ st.phase # BackingUp /\ pc' = "loop" /\ UNCHANGED <<reason, attempt>>
    BY <1>5 DEF Reconcile
  <2>6. UNCHANGED <<online, stopping, follower, queue, players, faults, streak, sinceCopy, dirty>>
    BY <1>5 DEF Reconcile
  <2> HIDE DEF st
  <2> QED
    BY <1>o, <2>1, <2>2, <2>3, <2>4, <2>5, <2>6, SavedIsSound
    DEF Perform, TypeOK, Places, Mirror, PhaseFitsPlace, NothingOwed
<1>6. CASE LoopContinues
  BY <1>6
  DEF LoopContinues, durable, observed, TypeOK, Places, Mirror, PhaseFitsPlace, NothingOwed
<1>7. CASE LoopEnds
  BY <1>e, <1>7
  DEF LoopEnds, durable, observed, TypeOK, Places, Sound, Mirror, PhaseFitsPlace, NothingOwed
<1>8. CASE TimerFires
  <2>1. Sound(TimerDue(mem)) /\ TimerDue(mem).phase = BackingUp
    BY <1>8, TimerDueIsSound DEF TimerFires
  <2>2. TimerDue(mem).pending \in Reasons \cup {None}
    BY <2>1 DEF Sound, ActivityStates
  <2> QED
    BY <1>o, <1>8, <2>1, <2>2, SavedIsSound
    DEF TimerFires, Perform, TypeOK, Places, Mirror, PhaseFitsPlace, NothingOwed
<1>9. CASE HandleConnected
  <2>1. pc = "get" /\ queue' \in Seq(Events)
    BY <1>9, <1>t DEF HandleConnected, Events
  <2>2. CASE mem.phase = Idle /\ Save(PlayerConnected(mem))
    <3>1. Sound(PlayerConnected(mem)) /\ PlayerConnected(mem).phase = Active
      BY <2>2, StartCycleIsSound DEF PlayerConnected
    <3> QED
      BY <1>o, <1>9, <2>1, <2>2, <3>1, SavedIsSound
      DEF HandleConnected, TypeOK, Places, Mirror, PhaseFitsPlace, NothingOwed
  <2>3. CASE UNCHANGED <<mem, durable, owed>>
    BY <1>9, <2>1, <2>3
    DEF HandleConnected, durable, TypeOK, Places, Mirror, PhaseFitsPlace, NothingOwed
  <2> QED
    BY <1>9, <2>2, <2>3 DEF HandleConnected
<1>10. CASE HandleDisconnected
  <2>1. pc = "get" /\ queue' \in Seq(Events)
    BY <1>10, <1>t DEF HandleDisconnected, Events
  <2> QED
    BY <1>10, <2>1
    DEF HandleDisconnected, durable, observed, TypeOK, Places, Mirror, PhaseFitsPlace, NothingOwed
<1>11. CASE HandleJournalEnded
  BY <1>e, <1>11
  DEF HandleJournalEnded, durable, observed, TypeOK, Places, Sound,
      Mirror, PhaseFitsPlace, NothingOwed
<1>12. CASE HandleWake
  <2>1. pc = "get" /\ queue' \in Seq(Events)
    BY <1>12, <1>t DEF HandleWake, Events
  <2> QED
    BY <1>12, <2>1
    DEF HandleWake, durable, observed, TypeOK, Places, Mirror, PhaseFitsPlace, NothingOwed
<1>13. CASE LeftQuery
  BY <1>13, AnswerPlaces
  DEF LeftQuery, Answered, durable, TypeOK, Places, Mirror, PhaseFitsPlace, NothingOwed
<1>14. CASE LeftQueryFails
  BY <1>e, <1>14, AnswerPlaces
  DEF LeftQueryFails, QueryRaises, durable, TypeOK, Places, Sound,
      Mirror, PhaseFitsPlace, NothingOwed
<1>15. CASE HandleLeft
  <2> DEFINE st == PlayerDisconnected(mem, online)
  <2>1. Sound(st) /\ pc = "left"
    BY <1>o, <1>15, PlayerDisconnectedIsSound DEF HandleLeft
  <2>2. st.pending \in Reasons \cup {None}
    BY <2>1 DEF Sound, ActivityStates
  <2>3. UNCHANGED <<online, stopping, follower, queue, players, faults, streak, sinceCopy, dirty>>
    BY <1>15 DEF HandleLeft
  <2>4. CASE st.phase = BackingUp /\ Save(st) /\ Perform(st.pending)
    <3> HIDE DEF st
    <3> QED
      BY <1>o, <2>1, <2>2, <2>3, <2>4, SavedIsSound
      DEF Perform, TypeOK, Places, Mirror, PhaseFitsPlace, NothingOwed
  <2>5. CASE pc' = "loop" /\ UNCHANGED <<mem, durable, owed, reason, attempt>>
    BY <2>1, <2>3, <2>5
    DEF durable, TypeOK, Places, Mirror, PhaseFitsPlace, NothingOwed
  <2> QED
    BY <1>15, <2>4, <2>5 DEF HandleLeft
<1>16. CASE CopyWorld
  <2>1. sinceCopy' \in BOOLEAN
    BY <1>16 DEF CopyWorld
  <2> QED
    BY <1>16, <2>1
    DEF CopyWorld, durable, TypeOK, Places, Mirror, PhaseFitsPlace, NothingOwed
<1>17. CASE CopyRetried
  BY <1>17
  DEF CopyRetried, durable, observed, TypeOK, Places, Mirror, PhaseFitsPlace, NothingOwed
<1>18. CASE CreateReturns
  <2>1. owed' = FALSE
    BY <1>18 DEF CreateReturns
  <2>2. owed' \in BOOLEAN /\ streak' \in Nat /\ dirty' \in BOOLEAN
    BY <1>18, <2>1 DEF CreateReturns, TypeOK
  <2> QED
    BY <1>18, <2>1, <2>2
    DEF CreateReturns, durable, TypeOK, Places, Mirror, PhaseFitsPlace, NothingOwed
<1>19. CASE CreateRaises
  <2>1. Sound(BackupFailed(mem)) /\ BackupFailed(mem).phase = Active
    BY <1>19, BackupFailedIsSound DEF CreateRaises, PhaseFitsPlace
  <2> QED
    BY <1>o, <1>19, <2>1, SavedIsSound
    DEF CreateRaises, TypeOK, Places, Mirror, PhaseFitsPlace, NothingOwed
<1>20. CASE AfterQuery
  BY <1>20, AnswerPlaces
  DEF AfterQuery, Answered, durable, TypeOK, Places, Mirror, PhaseFitsPlace, NothingOwed
<1>21. CASE AfterQueryFails
  BY <1>21, AnswerPlaces
  DEF AfterQueryFails, QueryRaises, durable, TypeOK, Places, Mirror, PhaseFitsPlace, NothingOwed
<1>22. CASE Decide
  <2>1. pc = "decide" /\ mem.phase = BackingUp /\ owed = FALSE
    BY <1>22 DEF Decide, PhaseFitsPlace, NothingOwed
  <2>2. UNCHANGED <<online, stopping, follower, queue, players, faults, streak, sinceCopy, dirty>>
    BY <1>22 DEF Decide
  <2>3. CASE Save(RequireFinalBackup(mem)) /\ Perform(LastPlayerLeft)
    <3>1. Sound(RequireFinalBackup(mem)) /\ RequireFinalBackup(mem).phase = BackingUp
      BY <2>1, RequireFinalBackupIsSound
    <3>2. LastPlayerLeft \in Reasons
      BY DEF Reasons
    <3> QED
      BY <1>o, <2>1, <2>2, <2>3, <3>1, <3>2, SavedIsSound
      DEF Perform, TypeOK, Places, Mirror, PhaseFitsPlace, NothingOwed
  <2>4. CASE Save(BackupSucceeded(mem, online)) /\ pc' = "loop" /\ UNCHANGED <<reason, attempt>>
    <3>1. /\ Sound(BackupSucceeded(mem, online))
          /\ BackupSucceeded(mem, online).phase # BackingUp
      BY <1>o, <2>1, BackupSucceededIsSound
    <3> QED
      BY <1>o, <2>1, <2>2, <2>4, <3>1, SavedIsSound
      DEF TypeOK, Places, Mirror, PhaseFitsPlace, NothingOwed
  <2> QED
    BY <1>22, <2>3, <2>4 DEF Decide
<1> QED
  BY <1>1, <1>2, <1>3, <1>4, <1>5, <1>6, <1>7, <1>8, <1>9, <1>10, <1>11, <1>12, <1>13,
     <1>14, <1>15, <1>16, <1>17, <1>18, <1>19, <1>20, <1>21, <1>22
  DEF Main

LEMMA NextKeepsInv == Inv /\ [Next]_vars => Inv'
<1>1. Inv /\ UNCHANGED vars => Inv'
  BY DEF vars, process, durable, observed, Inv, TypeOK, Mirror, PhaseFitsPlace, NothingOwed
<1> QED
  BY <1>1, MainKeepsInv, EnvironmentKeepsInv DEF Next

\* The inductive invariant holds in every reachable state.
THEOREM InvHolds == Spec => []Inv
BY InitEstablishesInv, NextKeepsInv, PTL DEF Spec

\* The watcher's variables always have their types; in particular a deadline
\* never lies further ahead than the interval.
THEOREM TypeCorrect == Spec => []TypeOK
BY InvHolds, PTL DEF Inv

\* Every record the watcher ever saves is one from_dict accepts.
THEOREM SavedStateIsLoadable == Spec => []DiskLoadable
<1>1. Inv => DiskLoadable
  BY DEF Inv, Sound, DiskLoadable
<1> QED
  BY <1>1, InvHolds, PTL

\* No cycle recorded on disk is closed without a snapshot, whatever crashes.
THEOREM PromiseIsDurable == Spec => []DurablePromise
<1>1. Inv => DurablePromise
  BY DEF Inv, NothingOwed, DurablePromise
<1> QED
  BY <1>1, InvHolds, PTL

------------------------------------------------------------------------------
(***************************************************************************)
(* The two deadlines: of a retry, and of a running countdown.              *)
(***************************************************************************)

\* The change of the durable record a step may make.
RetryKept ==
  file = "intact" /\ disk.retry # None /\ disk.due > 0 /\ file' = "intact"
    => disk'.phase # BackingUp
DeadlineKept ==
  file = "intact" /\ disk.phase = Active /\ file' = "intact" /\ disk'.phase = Active
    => disk'.due <= disk.due

\* A step that leaves the file alone keeps both.
LEMMA UntouchedFileKeepsDeadlines ==
  ASSUME Inv, UNCHANGED durable
  PROVE  RetryKept /\ DeadlineKept
<1>1. disk.retry # None => disk.phase # BackingUp
  BY DEF Inv, Sound, Loadable
<1>2. disk.phase = Active => disk.due \in Int
  BY DelaysAssumption DEF Inv, Sound, ActivityStates, NoDeadline
<1> QED
  BY <1>1, <1>2 DEF durable, RetryKept, DeadlineKept

\* Both deadlines survive every step; the five that write the file are the cases.
LEMMA StepsKeepDeadlines == Inv /\ [Next]_vars => RetryKept /\ DeadlineKept
<1> SUFFICES ASSUME Inv, [Next]_vars PROVE RetryKept /\ DeadlineKept
  OBVIOUS
<1> USE PhasesDiffer
<1>1. /\ Sound(mem) /\ Sound(disk) /\ online \in Nat /\ owed \in BOOLEAN
      /\ file = "intact" /\ pc \notin {"down", "load"} => disk = mem
  BY DEF Inv, TypeOK, Mirror
<1>2. /\ disk.retry # None => disk.phase = Active
      /\ mem.due \in Int /\ disk.due \in Int
  BY <1>1, DelaysAssumption DEF Sound, ActivityStates, Loadable, Phases, NoDeadline
<1>3. CASE UNCHANGED durable
  BY <1>3, UntouchedFileKeepsDeadlines
<1>4. CASE Tick
  <2>1. Sound(disk') /\ disk'.phase = disk.phase /\ disk'.due <= disk.due
    BY <1>1, <1>4, AgedIsSound DEF Tick
  <2> QED
    BY <1>2, <2>1 DEF RetryKept, DeadlineKept
<1>5. CASE ServerRestarts \/ FileDamaged
  BY <1>5 DEF ServerRestarts, FileDamaged, RetryKept, DeadlineKept
<1>6. CASE Load
  <2>1. CASE UNCHANGED durable
    BY <2>1, UntouchedFileKeepsDeadlines
  <2>2. CASE file = "corrupt"
    BY <2>2 DEF RetryKept, DeadlineKept
  <2> QED
    BY <1>6, <2>1, <2>2 DEF Load
<1>7. CASE Reconcile
  <2> DEFINE st == ReconcileStartup(mem, online)
  <2>1. /\ st.phase = Active /\ mem.phase = Active => st = mem
        /\ mem.retry # None /\ mem.due > 0 => st = mem
    BY <1>1, ReconcileStartupIsSound
  <2>2. Save(st) /\ pc = "reconcile"
    BY <1>7 DEF Reconcile
  <2>3. disk' = st
    BY <1>1, <2>2 DEF Save
  <2> HIDE DEF st
  <2> QED
    BY <1>1, <1>2, <2>1, <2>2, <2>3 DEF RetryKept, DeadlineKept
<1>8. CASE TimerFires
  <2>1. mem.due = 0 /\ pc = "get" /\ Save(TimerDue(mem)) /\ TimerDue(mem).phase = BackingUp
    BY <1>1, <1>8, TimerDueIsSound DEF TimerFires
  <2>2. disk'.phase = BackingUp
    BY <2>1 DEF Save
  <2> QED
    BY <1>1, <2>1, <2>2 DEF RetryKept, DeadlineKept
<1>9. CASE HandleConnected
  <2>1. CASE mem.phase = Idle /\ Save(PlayerConnected(mem))
    <3>1. disk'.phase = Active
      BY <1>1, <2>1, StartCycleIsSound DEF PlayerConnected, Save
    <3>2. pc = "get"
      BY <1>9 DEF HandleConnected, TakeEvent
    <3> QED
      BY <1>1, <1>2, <2>1, <3>1, <3>2 DEF RetryKept, DeadlineKept
  <2>2. CASE UNCHANGED durable
    BY <2>2, UntouchedFileKeepsDeadlines
  <2> QED
    BY <1>9, <2>1, <2>2 DEF HandleConnected
<1>10. CASE HandleLeft
  <2> DEFINE st == PlayerDisconnected(mem, online)
  <2>1. CASE st.phase = BackingUp /\ Save(st)
    <3>1. mem.retry # None => st = mem
      BY <1>1, PlayerDisconnectedIsSound
    <3>2. disk' = st /\ pc = "left"
      BY <1>10, <2>1 DEF Save, HandleLeft
    <3> HIDE DEF st
    <3> QED
      BY <1>1, <1>2, <2>1, <3>1, <3>2 DEF RetryKept, DeadlineKept
  <2>2. CASE UNCHANGED durable
    BY <2>2, UntouchedFileKeepsDeadlines
  <2> QED
    BY <1>10, <2>1, <2>2 DEF HandleLeft
<1>11. CASE CreateRaises
  <2>1. pc \in {"create", "validate"} /\ mem.phase = BackingUp
    BY <1>11 DEF CreateRaises, Inv, PhaseFitsPlace
  <2>2. disk'.phase = Active
    BY <1>1, <1>11, <2>1, BackupFailedIsSound DEF CreateRaises, Save
  <2> QED
    BY <1>1, <1>2, <2>1, <2>2 DEF RetryKept, DeadlineKept
<1>12. CASE Decide
  <2>1. pc = "decide" /\ mem.phase = BackingUp
    BY <1>12 DEF Decide, Inv, PhaseFitsPlace
  <2>2. file = "intact" => disk.phase = BackingUp
    BY <1>1, <2>1
  <2> QED
    BY <1>2, <2>2 DEF RetryKept, DeadlineKept
<1>13. CASE Main
  <2>1. Main => \/ UNCHANGED durable
                \/ Load \/ Reconcile \/ TimerFires \/ HandleConnected
                \/ HandleLeft \/ CreateRaises \/ Decide
    BY DEF Main, AskConsole, StartupQuery, Answered, StartupQueryFails, LoopContinues,
           LoopEnds, HandleDisconnected, HandleJournalEnded, HandleWake, LeftQuery,
           LeftQueryFails, CopyWorld, CopyRetried, CreateReturns, AfterQuery, AfterQueryFails
  <2> QED
    BY <1>3, <1>6, <1>7, <1>8, <1>9, <1>10, <1>11, <1>12, <1>13, <2>1
<1>14. CASE Environment
  <2>1. Environment => UNCHANGED durable \/ Tick \/ ServerRestarts \/ FileDamaged
    BY DEF Environment, PlayerJoins, PlayerLeaves, Attach, JournalEnds, Stop, Crash,
           Restart, OperatorStarts
  <2> QED
    BY <1>3, <1>4, <1>5, <1>14, <2>1
<1>15. CASE UNCHANGED vars
  BY <1>3, <1>15 DEF vars, durable
<1> QED
  BY <1>13, <1>14, <1>15 DEF Next

\* No step starts a backup while the file holds a retry that is not due.
THEOREM RetryDeadlineIsRespected == Spec => RetryDeadlineRespected
<1>1. Inv /\ [Next]_vars => [RetryKept]_vars
  BY StepsKeepDeadlines
<1>2. Spec => [][RetryKept]_vars
  BY <1>1, InvHolds, PTL DEF Spec
<1> QED
  BY <1>2 DEF RetryDeadlineRespected, RetryKept

\* A running countdown is never set back.
THEOREM DeadlineIsNeverExtended == Spec => DeadlineNeverExtended
<1>1. Inv /\ [Next]_vars => [DeadlineKept]_vars
  BY StepsKeepDeadlines
<1>2. Spec => [][DeadlineKept]_vars
  BY <1>1, InvHolds, PTL DEF Spec
<1> QED
  BY <1>2 DEF DeadlineNeverExtended, DeadlineKept

------------------------------------------------------------------------------
(***************************************************************************)
(* Players online are never left untimed.  The strengthening: wherever the *)
(* thread is idle, or is about to become so with a count of zero, a player *)
(* who is online has a "connected" event still in the queue.               *)
(***************************************************************************)
Listening == {"loop", "get", "left_query", "left_answer", "left"}

Waiting(q, e) == \E i \in 1..Len(q) : q[i] = e
Queued(q) == Waiting(q, Connected)

\* The thread is idle, or its next step makes it so.
IdleSoon ==
  \/ pc \in Listening /\ mem.phase = Idle
  \/ pc \in {"reconcile", "decide"} /\ online = 0

TimedInv ==
  /\ pc \notin {"down", "load", "startup_query", "startup_answer"} => follower # "starting"
  /\ follower = "following" /\ players > 0 /\ IdleSoon => Queued(queue)

\* What appending to and taking from the queue does to an event in it.
LEMMA QueueKeepsEvent ==
  ASSUME NEW q \in Seq(Events), NEW d \in Events
  PROVE  /\ Waiting(Append(q, d), d)
         /\ \A e \in Events : Waiting(q, d) => Waiting(Append(q, e), d)
         /\ q # <<>> /\ Head(q) # d /\ Waiting(q, d) => Waiting(Tail(q), d)
<1> USE DEF Waiting
<1>1. Waiting(Append(q, d), d)
  <2>1. Len(q) + 1 \in 1..Len(Append(q, d)) /\ Append(q, d)[Len(q) + 1] = d
    OBVIOUS
  <2> QED
    BY <2>1
<1>2. ASSUME NEW e \in Events, Waiting(q, d)
      PROVE  Waiting(Append(q, e), d)
  <2>1. PICK i \in 1..Len(q) : q[i] = d
    BY <1>2
  <2>2. i \in 1..Len(Append(q, e)) /\ Append(q, e)[i] = d
    BY <2>1
  <2> QED
    BY <2>2
<1>3. ASSUME q # <<>>, Head(q) # d, Waiting(q, d)
      PROVE  Waiting(Tail(q), d)
  <2>1. PICK i \in 1..Len(q) : q[i] = d
    BY <1>3
  <2>2. i # 1
    BY <1>3, <2>1
  <2>3. i - 1 \in 1..Len(Tail(q)) /\ Tail(q)[i - 1] = d
    BY <1>3, <2>1, <2>2
  <2> QED
    BY <2>3
<1> QED
  BY <1>1, <1>2, <1>3

LEMMA QueueKeepsConnected ==
  ASSUME NEW q \in Seq(Events)
  PROVE  /\ Queued(Append(q, Connected))
         /\ \A e \in Events : Queued(q) => Queued(Append(q, e))
         /\ q # <<>> /\ Head(q) # Connected /\ Queued(q) => Queued(Tail(q))
<1>1. Connected \in Events
  BY DEF Events
<1> QED BY <1>1, QueueKeepsEvent DEF Queued

\* The four events are different.
LEMMA EventsDiffer ==
  /\ {Connected, Disconnected, JournalEnded, Wake} = Events
  /\ Connected # Disconnected /\ Connected # JournalEnded /\ Connected # Wake
BY DEF Events, Connected, Disconnected, JournalEnded, Wake

\* Every step of the environment keeps the strengthening.
LEMMA EnvironmentKeepsTimed == Inv /\ TimedInv /\ Environment => TimedInv'
<1> SUFFICES ASSUME Inv, TimedInv, Environment PROVE TimedInv'
  OBVIOUS
<1> USE EventsDiffer DEF TimedInv, IdleSoon
<1>q. queue \in Seq(Events) /\ players \in Int /\ Sound(mem)
  BY DEF Inv, TypeOK
<1>1. CASE PlayerJoins
  <2>1. follower = "following" => Queued(queue')
    BY <1>q, <1>1, QueueKeepsConnected DEF PlayerJoins, Logged
  <2> QED
    BY <1>1, <2>1 DEF PlayerJoins
<1>2. CASE PlayerLeaves
  <2>1. follower = "following" /\ Queued(queue) => Queued(queue')
    BY <1>q, <1>2, QueueKeepsConnected DEF PlayerLeaves, Logged
  <2> QED
    BY <1>q, <1>2, <2>1 DEF PlayerLeaves
<1>3. CASE Tick
  <2>1. mem'.phase = mem.phase
    BY <1>q, <1>3, AgedIsSound DEF Tick
  <2> QED
    BY <1>3, <2>1 DEF Tick
<1>4. CASE Attach
  BY <1>4 DEF Attach, Listening
<1>5. CASE JournalEnds
  BY <1>5 DEF JournalEnds
<1>6. CASE Stop
  <2>1. Queued(queue) => Queued(queue')
    BY <1>q, <1>6, QueueKeepsConnected DEF Stop
  <2> QED
    BY <1>6, <2>1 DEF Stop
<1>7. CASE Crash
  BY <1>7 DEF Crash, Listening
<1>8. CASE ServerRestarts
  <2>1. players' = 0 /\ pc' = pc /\ follower' = follower
    BY <1>8 DEF ServerRestarts, process
  <2> QED
    BY <2>1
<1>9. CASE FileDamaged
  BY <1>9 DEF FileDamaged, process
<1>10. CASE Restart
  BY <1>10 DEF Restart, Listening
<1>11. CASE OperatorStarts
  BY <1>11 DEF OperatorStarts, Listening
<1> QED
  BY <1>1, <1>2, <1>3, <1>4, <1>5, <1>6, <1>7, <1>8, <1>9, <1>10, <1>11 DEF Environment

\* Every step of the thread keeps it, if journalctl follows before the startup
\* query is answered.
LEMMA MainKeepsTimed == LateAttach = FALSE /\ Inv /\ TimedInv /\ Main => TimedInv'
<1> SUFFICES ASSUME LateAttach = FALSE, Inv, TimedInv, Main PROVE TimedInv'
  OBVIOUS
<1> USE EventsDiffer, PhasesDiffer DEF TimedInv, IdleSoon, Listening
<1>q. queue \in Seq(Events) /\ players \in Int /\ online \in Nat /\ Sound(mem)
  BY DEF Inv, TypeOK
<1>e. Exit => pc' = "down"
  BY DEF Exit
<1>1. CASE Load
  BY <1>1 DEF Load
<1>2. CASE AskConsole
  BY <1>2, AnswerPlaces DEF AskConsole
<1>3. CASE StartupQuery
  BY <1>3, <1>q, AnswerPlaces DEF StartupQuery, Answered
<1>4. CASE StartupQueryFails \/ LoopEnds \/ HandleJournalEnded \/ LeftQueryFails
  BY <1>e, <1>4 DEF StartupQueryFails, LoopEnds, HandleJournalEnded, LeftQueryFails
<1>5. CASE Reconcile
  <2> DEFINE st == ReconcileStartup(mem, online)
  <2>1. st.phase = Idle => online = 0
    BY <1>q, ReconcileStartupIsSound
  <2>2. Save(st) /\ pc = "reconcile" /\ pc' \in {"create", "loop"}
    BY <1>5 DEF Reconcile, Perform
  <2>3. mem' = st
    BY <2>2 DEF Save
  <2> HIDE DEF st
  <2> QED
    BY <1>5, <2>1, <2>2, <2>3 DEF Reconcile
<1>6. CASE LoopContinues
  BY <1>6 DEF LoopContinues
<1>7. CASE TimerFires
  BY <1>7 DEF TimerFires, Perform
<1>8. CASE HandleConnected
  <2>1. mem'.phase # Idle
    BY <1>q, <1>8, StartCycleIsSound DEF HandleConnected, Save, PlayerConnected
  <2> QED
    BY <1>8, <2>1 DEF HandleConnected, TakeEvent
<1>9. CASE HandleDisconnected
  <2>1. Queued(queue) => Queued(queue')
    BY <1>q, <1>9, QueueKeepsConnected DEF HandleDisconnected, TakeEvent
  <2> QED
    BY <1>9, <2>1 DEF HandleDisconnected, TakeEvent
<1>10. CASE HandleWake
  <2>1. Queued(queue) => Queued(queue')
    BY <1>q, <1>10, QueueKeepsConnected DEF HandleWake, TakeEvent
  <2> QED
    BY <1>10, <2>1 DEF HandleWake, TakeEvent
<1>11. CASE LeftQuery
  BY <1>11, AnswerPlaces DEF LeftQuery, Answered
<1>12. CASE HandleLeft
  BY <1>12 DEF HandleLeft, Perform
<1>13. CASE CopyWorld \/ CopyRetried \/ CreateReturns
  BY <1>13 DEF CopyWorld, CopyRetried, CreateReturns
<1>14. CASE CreateRaises
  <2>1. mem'.phase = Active
    BY <1>q, <1>14, BackupFailedIsSound DEF CreateRaises, Save, Inv, PhaseFitsPlace
  <2> QED
    BY <1>14, <2>1 DEF CreateRaises
<1>15. CASE AfterQuery
  BY <1>q, <1>15, AnswerPlaces DEF AfterQuery, Answered
<1>16. CASE AfterQueryFails
  BY <1>16, AnswerPlaces DEF AfterQueryFails, QueryRaises
<1>17. CASE Decide
  <2>1. CASE Perform(LastPlayerLeft)
    BY <1>17, <2>1 DEF Decide, Perform
  <2>2. CASE Save(BackupSucceeded(mem, online)) /\ pc' = "loop"
    <3>1. mem'.phase = Idle => online = 0
      BY <1>q, <1>17, <2>2, BackupSucceededIsSound DEF Save, Decide, Inv, PhaseFitsPlace
    <3> QED
      BY <1>17, <2>2, <3>1 DEF Decide
  <2> QED
    BY <1>17, <2>1, <2>2 DEF Decide
<1> QED
  BY <1>1, <1>2, <1>3, <1>4, <1>5, <1>6, <1>7, <1>8, <1>9, <1>10, <1>11, <1>12, <1>13,
     <1>14, <1>15, <1>16, <1>17
  DEF Main

\* If journalctl follows the journal before the startup query is answered, an
\* idle watcher with an empty queue has no player online: nobody plays untimed.
THEOREM OnlinePlayersAreTimed == LateAttach = FALSE /\ Spec => []PlayersAreTimed
<1>1. Init => TimedInv
  BY DEF Init, TimedInv, IdleSoon, Listening
<1>2. Inv /\ TimedInv /\ UNCHANGED vars => TimedInv'
  BY DEF vars, process, TimedInv, IdleSoon
<1>3. LateAttach = FALSE /\ Inv /\ TimedInv /\ [Next]_vars => TimedInv'
  BY <1>2, EnvironmentKeepsTimed, MainKeepsTimed DEF Next
<1>4. Inv /\ TimedInv => PlayersAreTimed
  <2> SUFFICES ASSUME Inv, TimedInv, pc = "get", follower = "following",
                      queue = <<>>, players > 0
               PROVE  mem.phase = Active
    BY DEF PlayersAreTimed
  <2>1. mem.phase \in Phases /\ mem.phase # BackingUp
    BY DEF Inv, Sound, ActivityStates, PhaseFitsPlace
  <2>2. ~Queued(queue)
    BY DEF Queued, Waiting
  <2>3. mem.phase # Idle
    BY <2>2 DEF TimedInv, IdleSoon, Listening
  <2> QED
    BY <2>1, <2>3 DEF Phases
<1>5. CASE LateAttach = FALSE
  <2>1. Inv /\ TimedInv /\ [Next]_vars => TimedInv'
    BY <1>3, <1>5
  <2> QED
    BY <1>1, <1>4, <2>1, InvHolds, PTL DEF Spec
<1> QED
  BY <1>5

------------------------------------------------------------------------------
(***************************************************************************)
(* The end of an ordinary cycle leaves no activity behind.  From the count *)
(* that found nobody to the save that ends the cycle, whoever joins leaves *)
(* an event in the queue; nothing is taken from it meanwhile.              *)
(***************************************************************************)
Told == Waiting(queue, Connected) \/ Waiting(queue, JournalEnded)

\* A backup for the last player's leave that is no retry.
Ordinary == reason \notin {Recovery, Periodic} /\ mem.failures = 0

Snapping == {"create", "validate", "after_query", "after_answer", "decide"}

CaughtInv ==
  /\ pc \notin {"down", "load", "startup_query", "startup_answer"}
       => follower \in {"following", "ended"}
  /\ pc # "down" => follower # "off"
  /\ follower = "ended" => Waiting(queue, JournalEnded)
  /\ mem.retry # None => mem.failures > 0
  /\ disk.retry # None => disk.failures > 0
  /\ pc \in {"left", "decide"} /\ online = 0 /\ players > 0 => Told
  /\ pc \in Snapping /\ Ordinary /\ players > 0 => Told
  /\ pc = "validate" /\ Ordinary /\ sinceCopy => Told
  /\ pc \in {"after_query", "after_answer", "decide"} /\ Ordinary /\ dirty => Told

\* What becomes of the claims when the queue and the thread's data stay, but for events
\* that are added: a player who joins is told of.
LEMMA ToldStays ==
  ASSUME Inv, NEW e \in Events,
         queue' = queue \/ queue' = Append(queue, e)
  PROVE  /\ Told => Told'
         /\ Waiting(queue, JournalEnded) => Waiting(queue', JournalEnded)
<1>1. queue \in Seq(Events) /\ Connected \in Events /\ JournalEnded \in Events
  BY EventsDiffer DEF Inv, TypeOK
<1>2. ASSUME NEW d \in Events, Waiting(queue, d) PROVE Waiting(queue', d)
  <2>1. Waiting(Append(queue, e), d)
    BY <1>1, <1>2, QueueKeepsEvent
  <2>2. CASE queue' = queue
    BY <1>2, <2>2 DEF Waiting
  <2>3. CASE queue' = Append(queue, e)
    BY <2>1, <2>3 DEF Waiting
  <2> QED BY <2>2, <2>3
<1> QED BY <1>1, <1>2 DEF Told

\* Every step of the environment keeps the claims.
LEMMA EnvironmentKeepsCaught == Inv /\ CaughtInv /\ Environment => CaughtInv'
<1> SUFFICES ASSUME Inv, CaughtInv, Environment PROVE CaughtInv'
  OBVIOUS
<1> USE DEF CaughtInv, Ordinary, Snapping
<1>q. /\ queue \in Seq(Events) /\ players \in Int /\ Sound(mem) /\ Sound(disk)
      /\ {Connected, Disconnected, JournalEnded, Wake} = Events
  BY EventsDiffer DEF Inv, TypeOK
<1>1. CASE PlayerJoins
  <2>1. queue' = queue \/ queue' = Append(queue, Connected)
    BY <1>1 DEF PlayerJoins, Logged
  <2>2. /\ Told => Told'
        /\ Waiting(queue, JournalEnded) => Waiting(queue', JournalEnded)
    BY <1>q, <2>1, ToldStays
  <2>3. follower \in {"following", "ended"} => Told'
    <3>1. follower = "following" => Waiting(queue', Connected)
      BY <1>q, <1>1, QueueKeepsEvent DEF PlayerJoins, Logged
    <3>2. follower = "ended" => Waiting(queue', JournalEnded)
      BY <2>2
    <3> QED BY <3>1, <3>2 DEF Told
  <2> QED
    BY <1>1, <2>2, <2>3 DEF PlayerJoins, durable
<1>2. CASE PlayerLeaves
  <2>1. queue' = queue \/ queue' = Append(queue, Disconnected)
    BY <1>2 DEF PlayerLeaves, Logged
  <2>2. /\ Told => Told'
        /\ Waiting(queue, JournalEnded) => Waiting(queue', JournalEnded)
    BY <1>q, <2>1, ToldStays
  <2> QED
    BY <1>q, <1>2, <2>2 DEF PlayerLeaves, durable, observed
<1>3. CASE Tick
  <2>1. /\ mem'.retry = mem.retry /\ mem'.failures = mem.failures
        /\ disk'.retry = disk.retry /\ disk'.failures = disk.failures
    BY <1>q, <1>3 DEF Tick, Aged, Sound, ActivityStates
  <2> QED
    BY <1>3, <2>1 DEF Tick, observed, Told
<1>4. CASE Attach
  BY <1>4 DEF Attach, durable, observed, Told
<1>5. CASE JournalEnds
  <2>1. Waiting(queue', JournalEnded) /\ (Told => Told')
    BY <1>q, <1>5, QueueKeepsEvent, ToldStays DEF JournalEnds
  <2> QED
    BY <1>5, <2>1 DEF JournalEnds, durable
<1>6. CASE Stop
  <2>1. /\ Told => Told'
        /\ Waiting(queue, JournalEnded) => Waiting(queue', JournalEnded)
    BY <1>q, <1>6, ToldStays DEF Stop
  <2> QED
    BY <1>6, <2>1 DEF Stop, durable, observed
<1>7. CASE Crash
  BY <1>7 DEF Crash, durable, NewState
<1>8. CASE ServerRestarts
  <2>1. /\ UNCHANGED <<pc, mem, reason, online, follower, queue, sinceCopy, dirty>>
        /\ players' = 0 /\ disk' = NewState
    BY <1>8 DEF ServerRestarts, process
  <2>2. disk'.retry = None
    BY <2>1 DEF NewState
  <2> QED
    BY <2>1, <2>2 DEF Told
<1>9. CASE FileDamaged
  <2>1. /\ UNCHANGED <<pc, mem, reason, online, follower, queue, players, sinceCopy, dirty>>
        /\ disk' = NewState
    BY <1>9 DEF FileDamaged, process
  <2>2. disk'.retry = None
    BY <2>1 DEF NewState
  <2> QED
    BY <2>1, <2>2 DEF Told
<1>10. CASE Restart
  BY <1>10 DEF Restart, durable, observed, Told
<1>11. CASE OperatorStarts
  BY <1>11 DEF OperatorStarts, durable, observed, Told
<1> QED
  BY <1>1, <1>2, <1>3, <1>4, <1>5, <1>6, <1>7, <1>8, <1>9, <1>10, <1>11 DEF Environment

\* A retry is the retry of a failure, in every record the methods make.
LEMMA RetriesHaveFailed ==
  ASSUME NEW st, Sound(st), st.retry # None => st.failures > 0, NEW count \in Nat
  PROVE  /\ ReconcileStartup(st, count).retry # None
              => ReconcileStartup(st, count).failures > 0
         /\ PlayerConnected(st).retry # None => PlayerConnected(st).failures > 0
         /\ PlayerDisconnected(st, count).retry # None
              => PlayerDisconnected(st, count).failures > 0
         /\ TimerDue(st).retry # None => TimerDue(st).failures > 0
         /\ RequireFinalBackup(st).retry = None
         /\ BackupSucceeded(st, count).retry = None
         /\ BackupFailed(st).failures > 0
<1>1. st \in ActivityStates /\ st.failures \in Nat
  BY DEF Sound, ActivityStates
<1>2. \A why : StartBackup(st, why).retry = None
  BY <1>1 DEF StartBackup, ActivityStates
<1>3. StartCycle(st).retry = None /\ EndCycle(st).retry = None
  BY <1>1 DEF StartCycle, EndCycle, ActivityStates
<1>4. TimerDue(st).retry # None => TimerDue(st).failures > 0
  BY <1>2 DEF TimerDue
<1>5. PlayerConnected(st).retry # None => PlayerConnected(st).failures > 0
  BY <1>3 DEF PlayerConnected
<1>6. PlayerDisconnected(st, count).retry # None
        => PlayerDisconnected(st, count).failures > 0
  BY <1>2 DEF PlayerDisconnected
<1>7. RequireFinalBackup(st).retry = None
  BY <1>1 DEF RequireFinalBackup, ActivityStates
<1>8. BackupSucceeded(st, count).retry = None
  BY <1>1 DEF BackupSucceeded, StartCycle, EndCycle, ActivityStates
<1>9. BackupFailed(st).failures > 0
  BY <1>1 DEF BackupFailed, ActivityStates
<1>10. ReconcileStartup(st, count).retry # None => ReconcileStartup(st, count).failures > 0
  <2>1. [st EXCEPT !.pending = Recovery, !.retry = None].retry = None
    BY <1>1 DEF ActivityStates
  <2>2. \/ ReconcileStartup(st, count)
             \in {[st EXCEPT !.pending = Recovery, !.retry = None], TimerDue(st),
                  StartBackup(st, Recovery), EndCycle(st), st}
        \/ ReconcileStartup(st, count) = StartCycle(st)
    BY Zenon DEF ReconcileStartup
  <2> QED BY <1>2, <1>3, <1>4, <2>1, <2>2
<1> QED BY <1>4, <1>5, <1>6, <1>7, <1>8, <1>9, <1>10

\* A backup at the start is a recovery, or the retry of a failure.
LEMMA StartupBackupsAreNotOrdinary ==
  ASSUME NEW st, Sound(st), st.retry # None => st.failures > 0, NEW count \in Nat,
         ReconcileStartup(st, count).phase = BackingUp
  PROVE  \/ ReconcileStartup(st, count).pending \in {Recovery, Periodic}
         \/ ReconcileStartup(st, count).failures > 0
<1>1. st \in ActivityStates /\ st.failures \in Nat
  BY DEF Sound, ActivityStates
<1>2. StartBackup(st, Recovery).pending = Recovery
      /\ [st EXCEPT !.pending = Recovery, !.retry = None].pending = Recovery
  BY <1>1 DEF StartBackup, ActivityStates
<1>3. StartCycle(st).phase = Active /\ EndCycle(st).phase = Idle
  BY <1>1 DEF StartCycle, EndCycle, ActivityStates
<1>4. TimerDue(st).failures = st.failures
  BY <1>1 DEF TimerDue, StartBackup, ActivityStates
<1>5. [st EXCEPT !.pending = Recovery, !.retry = None].failures = st.failures
      /\ StartBackup(st, Recovery).failures = st.failures
  BY <1>1 DEF StartBackup, ActivityStates
<1>6. CASE st.phase = BackingUp
  <2>1. ReconcileStartup(st, count) = [st EXCEPT !.pending = Recovery, !.retry = None]
    BY <1>6, PhasesDiffer, Zenon DEF ReconcileStartup
  <2> QED BY <1>2, <2>1
<1>7. CASE st.retry # None
  <2>1. \/ ReconcileStartup(st, count)
             \in {[st EXCEPT !.pending = Recovery, !.retry = None], TimerDue(st),
                  StartBackup(st, Recovery), EndCycle(st), st}
        \/ ReconcileStartup(st, count) = StartCycle(st)
    BY Zenon DEF ReconcileStartup
  <2> QED BY <1>3, <1>4, <1>5, <1>7, <2>1, PhasesDiffer
<1>8. CASE st.phase # BackingUp /\ st.retry = None
  <2>1. ReconcileStartup(st, count)
          \in {StartBackup(st, Recovery), EndCycle(st), StartCycle(st), st}
    BY <1>8, Zenon DEF ReconcileStartup
  <2> QED BY <1>2, <1>3, <1>8, <2>1, PhasesDiffer
<1> QED BY <1>6, <1>7, <1>8

\* Every step of the thread keeps the claims.
LEMMA MainKeepsCaught == LateAttach = FALSE /\ Inv /\ CaughtInv /\ Main => CaughtInv'
<1> SUFFICES ASSUME LateAttach = FALSE, Inv, CaughtInv, Main PROVE CaughtInv'
  OBVIOUS
<1> USE DEF CaughtInv, Ordinary, Snapping
<1>q. /\ queue \in Seq(Events) /\ players \in 0..MaxPlayers /\ online \in Nat
      /\ Sound(mem) /\ Sound(disk)
      /\ mem.failures \in Nat /\ JournalEnded \in Events
  BY EventsDiffer DEF Inv, TypeOK, Sound, ActivityStates
<1>t. UNCHANGED queue => Told' = Told
  BY DEF Told, Waiting
<1>n. NewState.retry = None /\ RecoveryState.retry = None
  BY DEF NewState, RecoveryState
<1>e. ASSUME Exit, UNCHANGED disk PROVE CaughtInv'
  BY <1>e, <1>n DEF Exit
<1>w. ASSUME pc = "get", queue # <<>>, queue' = Tail(queue), Head(queue) # JournalEnded
      PROVE  Waiting(queue, JournalEnded) => Waiting(queue', JournalEnded)
  <2>1. Waiting(queue, JournalEnded) => Waiting(Tail(queue), JournalEnded)
    BY <1>q, <1>w, QueueKeepsEvent
  <2> QED BY <1>w, <2>1 DEF Waiting
<1>1. CASE Load
  <2>1. mem'.retry # None => mem'.failures > 0
    BY <1>1, <1>n DEF Load, Save
  <2>2. disk'.retry # None => disk'.failures > 0
    BY <1>1, <1>n DEF Load, Save, durable
  <2> QED
    BY <1>1, <2>1, <2>2 DEF Load
<1>2. CASE AskConsole
  BY <1>2, <1>t, AnswerPlaces DEF AskConsole, durable, observed
<1>3. CASE StartupQuery
  <2>1. follower \in {"following", "ended"}
    BY <1>3, AnswerPlaces DEF StartupQuery, Answered, Inv, TypeOK
  <2> QED
    BY <1>3, <1>t, <2>1, AnswerPlaces DEF StartupQuery, Answered, durable
<1>4. CASE StartupQueryFails \/ LoopEnds \/ HandleJournalEnded \/ LeftQueryFails
  BY <1>e, <1>4 DEF StartupQueryFails, LoopEnds, HandleJournalEnded, LeftQueryFails, durable
<1>5. CASE Reconcile
  <2> DEFINE st == ReconcileStartup(mem, online)
  <2>1. st.retry # None => st.failures > 0
    BY <1>q, RetriesHaveFailed
  <2>2. mem' = st /\ disk' = st /\ pc = "reconcile" /\ pc' \in {"create", "loop"}
        /\ UNCHANGED <<follower, queue, players, sinceCopy, dirty, online>>
    BY <1>5 DEF Reconcile, Perform, Save
  <2>3. pc' = "create" => st.phase = BackingUp /\ reason' = st.pending
    BY <1>5 DEF Reconcile, Perform
  <2>4. st.phase = BackingUp => st.pending \in {Recovery, Periodic} \/ st.failures > 0
    BY <1>q, StartupBackupsAreNotOrdinary
  <2> HIDE DEF st
  <2>5. st.failures > 0 => st.failures # 0
    OBVIOUS
  <2> QED
    BY <1>t, <2>1, <2>2, <2>3, <2>4, <2>5
<1>6. CASE LoopContinues
  BY <1>6, <1>t DEF LoopContinues, durable, observed
<1>7. CASE TimerFires
  <2> DEFINE st == TimerDue(mem)
  <2>1. st.retry # None => st.failures > 0
    BY <1>q, RetriesHaveFailed
  <2>2. mem' = st /\ disk' = st /\ pc = "get" /\ pc' = "create" /\ reason' = st.pending
        /\ UNCHANGED <<follower, queue, players, sinceCopy, dirty, online>>
    BY <1>7 DEF TimerFires, Perform, Save
  <2>3. st.pending = Periodic \/ st.failures > 0
    BY <1>q, <1>7 DEF TimerFires, TimerDue, StartBackup, Sound, ActivityStates
  <2> HIDE DEF st
  <2>4. st.failures > 0 => st.failures # 0
    OBVIOUS
  <2> QED
    BY <1>t, <2>1, <2>2, <2>3, <2>4
<1>8. CASE HandleConnected
  <2>1. Waiting(queue, JournalEnded) => Waiting(queue', JournalEnded)
    BY <1>8, <1>w, EventsDiffer DEF HandleConnected, TakeEvent
  <2>2. mem'.retry # None => mem'.failures > 0
    BY <1>q, <1>8, RetriesHaveFailed DEF HandleConnected, Save
  <2>3. disk'.retry # None => disk'.failures > 0
    BY <1>q, <1>8, RetriesHaveFailed DEF HandleConnected, Save, durable
  <2> QED
    BY <1>8, <2>1, <2>2, <2>3 DEF HandleConnected, TakeEvent
<1>9. CASE HandleDisconnected \/ HandleWake
  <2>1. Waiting(queue, JournalEnded) => Waiting(queue', JournalEnded)
    BY <1>9, <1>w DEF HandleDisconnected, HandleWake, TakeEvent, JournalEnded, Disconnected, Wake
  <2> QED
    BY <1>9, <2>1 DEF HandleDisconnected, HandleWake, TakeEvent, durable, observed
<1>10. CASE LeftQuery
  BY <1>10, <1>t, AnswerPlaces DEF LeftQuery, Answered, durable
<1>11. CASE HandleLeft
  <2> DEFINE st == PlayerDisconnected(mem, online)
  <2>1. st.retry # None => st.failures > 0
    BY <1>q, RetriesHaveFailed
  <2>2. pc = "left" /\ pc' \in {"create", "loop"}
        /\ UNCHANGED <<follower, queue, players, sinceCopy, dirty, online>>
    BY <1>11 DEF HandleLeft, Perform
  <2>3. (mem' = st /\ disk' = st) \/ (UNCHANGED <<mem, disk>> /\ pc' = "loop")
    BY <1>11 DEF HandleLeft, Save, durable
  <2>4. pc' = "create" => online = 0
    <3>1. pc' = "create" => st.phase = BackingUp
      BY <1>11 DEF HandleLeft
    <3>2. mem.phase # BackingUp
      BY <2>2 DEF Inv, PhaseFitsPlace
    <3> QED BY <3>1, <3>2 DEF PlayerDisconnected
  <2> HIDE DEF st
  <2>5. (mem'.retry # None => mem'.failures > 0) /\ (disk'.retry # None => disk'.failures > 0)
    <3>1. CASE mem' = st /\ disk' = st
      BY <2>1, <3>1
    <3>2. CASE UNCHANGED <<mem, disk>>
      BY <3>2
    <3> QED BY <2>3, <3>1, <3>2
  <2>6. pc' = "create" /\ players' > 0 => Told'
    BY <1>t, <2>2, <2>4
  <2> HIDE DEF Ordinary
  <2> QED
    BY <1>t, <2>2, <2>5, <2>6
<1>12. CASE CopyWorld \/ CopyRetried \/ CreateReturns
  <2>1. /\ pc \in {"create", "validate"} /\ pc' \in {"create", "validate", "after_query"}
        /\ UNCHANGED <<mem, disk, reason, online, follower, queue, players>>
    BY <1>12 DEF CopyWorld, CopyRetried, CreateReturns, durable
  <2>2. pc' = "validate" /\ sinceCopy' => players > 0
    BY <1>12 DEF CopyWorld, CopyRetried, CreateReturns
  <2>3. pc' = "after_query" /\ dirty' => pc = "validate" /\ sinceCopy
    BY <1>12 DEF CopyWorld, CopyRetried, CreateReturns
  <2>4. Told' = Told /\ Ordinary' = Ordinary
        /\ Waiting(queue', JournalEnded) = Waiting(queue, JournalEnded)
    BY <1>t, <2>1 DEF Waiting
  <2>5. pc \in Snapping /\ pc' \notin {"left", "down", "load", "startup_query", "startup_answer"}
    BY <2>1
  <2> HIDE DEF Ordinary, Snapping
  <2> QED
    BY <2>1, <2>2, <2>3, <2>4, <2>5
<1>13. CASE CreateRaises
  <2>1. mem'.failures > 0 /\ disk'.failures > 0
    BY <1>q, <1>13, RetriesHaveFailed DEF CreateRaises, Save
  <2> QED
    BY <1>13, <2>1 DEF CreateRaises, Waiting
<1>14. CASE AfterQuery
  BY <1>q, <1>14, <1>t, AnswerPlaces DEF AfterQuery, Answered, durable
<1>15. CASE AfterQueryFails
  BY <1>15, <1>t, AnswerPlaces DEF AfterQueryFails, QueryRaises, durable
<1>16. CASE Decide
  <2>1. CASE reason = Periodic /\ online = 0
    <3>1. mem'.retry = None /\ disk'.retry = None
      BY <1>q, <1>16, <2>1, RetriesHaveFailed DEF Decide, Save
    <3>2. pc = "decide" /\ pc' = "create"
          /\ UNCHANGED <<follower, queue, players, sinceCopy, dirty, online>>
      BY <1>16, <2>1 DEF Decide, Perform
    <3> QED
      BY <1>t, <2>1, <3>1, <3>2
  <2>2. CASE ~ (reason = Periodic /\ online = 0)
    <3>1. mem'.retry = None /\ disk'.retry = None
      BY <1>q, <1>16, <2>2, RetriesHaveFailed DEF Decide, Save
    <3>2. pc = "decide" /\ pc' = "loop" /\ UNCHANGED <<follower, queue>>
      BY <1>16, <2>2 DEF Decide
    <3> QED
      BY <1>t, <3>1, <3>2
  <2> QED
    BY <2>1, <2>2
<1> QED
  BY <1>1, <1>2, <1>3, <1>4, <1>5, <1>6, <1>7, <1>8, <1>9, <1>10, <1>11, <1>12, <1>13,
     <1>14, <1>15, <1>16
  DEF Main

\* If journalctl follows the journal before the startup query is answered, a cycle that
\* ends in the last player's final snapshot, none having failed, leaves no activity
\* behind that the next cycle would not take up (design.md, handled fault 4).
THEOREM OrdinaryEndCaptured == LateAttach = FALSE /\ Spec => OrdinaryEndIsCaptured
<1> DEFINE Caught ==
      pc = "decide" /\ pc' = "loop" /\ mem'.phase = Idle
        /\ mem.failures = 0 /\ reason # Recovery /\ dirty
      => \E i \in DOMAIN queue : queue[i] \in {Connected, JournalEnded}
<1>1. Init => CaughtInv
  BY DEF Init, CaughtInv, NewState, Snapping
<1>2. Inv /\ CaughtInv /\ UNCHANGED vars => CaughtInv'
  BY DEF vars, process, durable, observed, CaughtInv, Ordinary, Snapping, Told, Waiting
<1>3. LateAttach = FALSE /\ Inv /\ CaughtInv /\ [Next]_vars => CaughtInv'
  BY <1>2, EnvironmentKeepsCaught, MainKeepsCaught DEF Next
<1>4. Inv /\ CaughtInv /\ [Next]_vars => [Caught]_vars
  <2> SUFFICES ASSUME Inv, CaughtInv, Next, pc = "decide", pc' = "loop",
                      mem'.phase = Idle, mem.failures = 0, reason # Recovery, dirty
               PROVE  \E i \in DOMAIN queue : queue[i] \in {Connected, JournalEnded}
    OBVIOUS
  <2>1. Decide
    BY AnswerPlaces
    DEF Next, Main, Environment, Load, AskConsole, StartupQuery, StartupQueryFails, Reconcile,
        LoopContinues, LoopEnds, TimerFires, HandleConnected, HandleDisconnected,
        HandleJournalEnded, HandleWake, LeftQuery, LeftQueryFails, HandleLeft, CopyWorld,
        CopyRetried, CreateReturns, CreateRaises, AfterQuery, AfterQueryFails, Answered,
        QueryRaises, TakeEvent, PlayerJoins, PlayerLeaves, Tick, Attach, JournalEnds, Stop,
        Crash, ServerRestarts, FileDamaged, Restart, OperatorStarts, process
  <2>2. mem' = BackupSucceeded(mem, online) /\ ~ (reason = Periodic /\ online = 0)
    BY <2>1 DEF Decide, Perform, Save
  <2>3. Sound(mem) /\ mem.phase = BackingUp /\ online \in Nat
    BY DEF Inv, TypeOK, PhaseFitsPlace
  <2>4. online = 0
    BY <2>2, <2>3, BackupSucceededIsSound, PhasesDiffer
  <2>5. Told
    BY <2>2, <2>4 DEF CaughtInv, Ordinary
  <2>6. queue \in Seq(Events)
    BY DEF Inv, TypeOK
  <2> QED
    BY <2>5, <2>6 DEF Told, Waiting
<1>5. CASE LateAttach = FALSE
  <2>1. Inv /\ CaughtInv /\ [Next]_vars => CaughtInv'
    BY <1>3, <1>5
  <2>2. Spec => [][Caught]_vars
    BY <1>1, <1>4, <2>1, InvHolds, PTL DEF Spec
  <2> QED BY <2>2 DEF OrdinaryEndIsCaptured
<1> QED BY <1>5

------------------------------------------------------------------------------
(***************************************************************************)
(* The watcher implements ActivityCycle: every step is a step of the cycle *)
(* or leaves it alone.                                                     *)
(***************************************************************************)

Rec == IF file = "intact" THEN disk.phase ELSE "lost"
Holding == pc \in {"after_query", "after_answer", "decide"}

\* The cycle is left alone.
CycleIdles == Rec' = Rec /\ Holding' = Holding /\ owed' = owed

LEMMA IdlingIsAStutter == CycleIdles => [Cycle!Next]_(Cycle!cycle)
BY DEF CycleIdles, Rec, Holding, Cycle!cycle

\* What a save records.
LEMMA SaveRecords ==
  ASSUME NEW st, Sound(st), Save(st)
  PROVE  Cycle!Record(st.phase) /\ st.phase \in Phases /\ Rec' = st.phase
<1>1. st.phase \in Phases
  BY DEF Sound, ActivityStates
<1>2. (IF file = "intact" THEN disk.phase ELSE "lost")' = st.phase /\ Rec' = st.phase
  BY DEF Save, Rec
<1>3. st.phase # Idle <=> st.phase \in Cycle!Open
  BY <1>1 DEF Phases, Idle, Active, BackingUp, Cycle!Open
<1>4. owed' = (owed \/ st.phase \in Cycle!Open)
  BY <1>3 DEF Save
<1> QED BY <1>1, <1>2, <1>4 DEF Cycle!Record

\* Who holds an unrecorded snapshot is backing up, or has lost the file.
LEMMA HoldingIsBackingUp ==
  ASSUME Inv, pc \in {"create", "validate"} \/ Holding
  PROVE  Rec \in {"backing_up", "lost"}
<1>1. mem.phase = BackingUp /\ pc \notin {"down", "load"}
  BY DEF Inv, PhaseFitsPlace, Holding
<1> QED BY <1>1 DEF Inv, Mirror, Rec, BackingUp

LEMMA EnvironmentKeepsCycle ==
  ASSUME Inv, Environment
  PROVE  [Cycle!Next]_(Cycle!cycle)
<1>1. CASE PlayerJoins \/ PlayerLeaves \/ Attach \/ JournalEnds \/ Stop
  <2>1. file' = file /\ disk' = disk /\ pc' = pc /\ owed' = owed
    BY <1>1 DEF PlayerJoins, PlayerLeaves, Attach, JournalEnds, Stop, durable, observed
  <2> QED BY <2>1, IdlingIsAStutter DEF CycleIdles, Rec, Holding
<1>2. CASE Tick
  <2>1. disk'.phase = disk.phase
    BY <1>2, AgedIsSound DEF Inv, Tick
  <2>2. file' = file /\ pc' = pc /\ owed' = owed
    BY <1>2 DEF Tick, observed
  <2> QED BY <2>1, <2>2, IdlingIsAStutter DEF CycleIdles, Rec, Holding
<1>3. CASE Crash
  <2>1. file' = file /\ disk' = disk /\ pc' = "down" /\ owed' = owed
    BY <1>3 DEF Crash, durable
  <2>2. Cycle!Forget
    BY <2>1 DEF Cycle!Forget
  <2> QED BY <2>2 DEF Cycle!Next
<1>4. CASE ServerRestarts \/ FileDamaged
  <2>1. file' # "intact" /\ pc' = pc
    BY <1>4 DEF ServerRestarts, FileDamaged, process
  <2>2. owed' = FALSE
    BY <1>4 DEF ServerRestarts, FileDamaged
  <2>3. Cycle!Lose
    BY <2>1, <2>2 DEF Cycle!Lose
  <2> QED BY <2>3 DEF Cycle!Next
<1>5. CASE Restart \/ OperatorStarts
  <2>1. file' = file /\ disk' = disk /\ pc = "down" /\ pc' = "load" /\ owed' = owed
    BY <1>5 DEF Restart, OperatorStarts, durable, observed
  <2> QED BY <2>1, IdlingIsAStutter DEF CycleIdles, Rec, Holding
<1> QED BY <1>1, <1>2, <1>3, <1>4, <1>5 DEF Environment

\* The steps of the watcher's thread that save nothing.
LEMMA UnsavedStepKeepsCycle ==
  ASSUME UNCHANGED <<durable, owed>>, ~Holding, ~Holding'
  PROVE  [Cycle!Next]_(Cycle!cycle)
BY IdlingIsAStutter DEF durable, CycleIdles, Rec, Holding

LEMMA ReconcileKeepsCycle ==
  ASSUME Inv, Reconcile
  PROVE  Cycle!Next
<1> DEFINE st == ReconcileStartup(mem, online)
<1>1. /\ Sound(st) /\ (st.phase = Idle => mem.phase = Idle)
      /\ mem.phase = BackingUp => st.phase = BackingUp
      /\ mem.phase = Idle => st.phase # BackingUp
  BY ReconcileStartupIsSound, PhasesDiffer DEF Inv, TypeOK
<1>2. pc = "reconcile" /\ pc' \in {"create", "loop"} /\ Save(st)
  BY DEF Reconcile, Perform
<1>3. Cycle!Record(st.phase) /\ st.phase \in Phases
  BY <1>1, <1>2, SaveRecords
<1>4. Cycle!Unverified
  BY <1>2 DEF Cycle!Unverified
<1> HIDE DEF st
<1>5. CASE file # "intact"
  <2>1. Cycle!Find
    BY <1>3, <1>4, <1>5 DEF Cycle!Find, Cycle!Open, Phases, Idle, Active, BackingUp
  <2> QED BY <2>1 DEF Cycle!Next
<1>6. CASE file = "intact"
  <2>1. disk.phase = mem.phase /\ disk.phase \in Phases
    BY <1>2, <1>6 DEF Inv, Mirror, Sound, ActivityStates
  <2>2. CASE mem.phase = Idle /\ st.phase = Active
    <3>1. Cycle!Begin
      BY <1>3, <1>4, <1>6, <2>1, <2>2 DEF Cycle!Begin, Idle, Active
    <3> QED BY <3>1 DEF Cycle!Next
  <2>3. CASE st.phase = mem.phase
    <3>1. Cycle!Resume
      BY <1>3, <1>4, <1>6, <2>1, <2>3
      DEF Cycle!Resume, Phases, Idle, Active, BackingUp
    <3> QED BY <3>1 DEF Cycle!Next
  <2>4. CASE mem.phase = Active /\ st.phase = BackingUp
    <3>1. Cycle!BackUp
      BY <1>3, <1>4, <1>6, <2>1, <2>4 DEF Cycle!BackUp, Active, BackingUp
    <3> QED BY <3>1 DEF Cycle!Next
  <2> QED BY <1>1, <1>3, <2>1, <2>2, <2>3, <2>4 DEF Phases
<1> QED BY <1>5, <1>6

\* A save outside of BACKING_UP that begins a cycle or its backup.
LEMMA AdvanceKeepsCycle ==
  ASSUME Inv, NEW st, Sound(st), Save(st), ~Holding, ~Holding',
         pc \notin {"down", "load"},
         \/ mem.phase = Idle /\ st.phase = Active
         \/ mem.phase = Active /\ st.phase = BackingUp
         \/ mem.phase = BackingUp /\ st.phase = Active
  PROVE  Cycle!Next
<1>1. Cycle!Record(st.phase) /\ Cycle!Unverified
  BY SaveRecords DEF Cycle!Unverified, Holding
<1>2. CASE file # "intact"
  <2>1. Cycle!Find
    BY <1>1, <1>2 DEF Cycle!Find, Cycle!Open, Active, BackingUp
  <2> QED BY <2>1 DEF Cycle!Next
<1>3. CASE file = "intact"
  <2>1. disk.phase = mem.phase
    BY <1>3 DEF Inv, Mirror
  <2>2. Cycle!Begin \/ Cycle!BackUp \/ Cycle!Fail
    BY <1>1, <1>3, <2>1
    DEF Cycle!Begin, Cycle!BackUp, Cycle!Fail, Idle, Active, BackingUp
  <2> QED BY <2>2 DEF Cycle!Next
<1> QED BY <1>2, <1>3

LEMMA MainKeepsCycle ==
  ASSUME Inv, Main
  PROVE  [Cycle!Next]_(Cycle!cycle)
<1>1. CASE Load
  <2>1. CASE UNCHANGED <<durable, owed>>
    BY <1>1, <2>1, UnsavedStepKeepsCycle DEF Load, Holding
  <2>2. CASE file = "corrupt" /\ Save(RecoveryState)
    <3>1. Sound(RecoveryState) /\ RecoveryState.phase = BackingUp
      BY InitialStatesAreSound DEF RecoveryState, NewState
    <3>2. Cycle!Record("backing_up") /\ Cycle!Unverified
      BY <1>1, <2>2, <3>1, SaveRecords DEF Load, Cycle!Unverified, BackingUp
    <3>3. Cycle!Find
      BY <2>2, <3>2 DEF Cycle!Find, Cycle!Open
    <3> QED BY <3>3 DEF Cycle!Next
  <2> QED BY <1>1, <2>1, <2>2 DEF Load
<1>2. CASE AskConsole
  <2>1. Holding' = Holding /\ UNCHANGED <<durable, owed>>
    BY <1>2, AnswerPlaces DEF AskConsole, Holding, observed
  <2> QED BY <2>1, IdlingIsAStutter DEF durable, CycleIdles, Rec
<1>3. CASE StartupQuery \/ LeftQuery
  BY <1>3, AnswerPlaces, UnsavedStepKeepsCycle DEF StartupQuery, LeftQuery, Answered, Holding
<1>4. CASE StartupQueryFails \/ LeftQueryFails \/ LoopEnds \/ HandleJournalEnded
  BY <1>4, AnswerPlaces, UnsavedStepKeepsCycle
  DEF StartupQueryFails, LeftQueryFails, LoopEnds, HandleJournalEnded, QueryRaises, Exit,
      Holding, observed
<1>5. CASE Reconcile
  BY <1>5, ReconcileKeepsCycle
<1>6. CASE LoopContinues \/ HandleDisconnected \/ HandleWake
  BY <1>6, UnsavedStepKeepsCycle
  DEF LoopContinues, HandleDisconnected, HandleWake, TakeEvent, Holding, observed
<1>7. CASE TimerFires
  <2>1. Sound(TimerDue(mem)) /\ TimerDue(mem).phase = BackingUp
    BY <1>7, TimerDueIsSound DEF Inv, TimerFires
  <2>2. Save(TimerDue(mem)) /\ mem.phase = Active /\ pc = "get" /\ ~Holding /\ ~Holding'
    BY <1>7 DEF TimerFires, Perform, Holding
  <2> QED BY <2>1, <2>2, AdvanceKeepsCycle
<1>8. CASE HandleConnected
  <2>1. pc = "get" /\ ~Holding /\ ~Holding'
    BY <1>8 DEF HandleConnected, TakeEvent, Holding
  <2>2. CASE mem.phase = Idle /\ Save(PlayerConnected(mem))
    <3>1. Sound(PlayerConnected(mem)) /\ PlayerConnected(mem).phase = Active
      BY <2>2, StartCycleIsSound DEF Inv, PlayerConnected
    <3> QED BY <2>1, <2>2, <3>1, AdvanceKeepsCycle
  <2> QED BY <1>8, <2>1, <2>2, UnsavedStepKeepsCycle DEF HandleConnected
<1>9. CASE HandleLeft
  <2> DEFINE st == PlayerDisconnected(mem, online)
  <2>1. Sound(st) /\ pc = "left" /\ mem.phase # BackingUp
    BY <1>9, PlayerDisconnectedIsSound DEF Inv, TypeOK, HandleLeft, PhaseFitsPlace
  <2>2. pc' \in {"create", "loop"} /\ ~Holding /\ ~Holding'
    BY <1>9, <2>1 DEF HandleLeft, Perform, Holding
  <2>3. CASE st.phase = BackingUp /\ Save(st)
    <3>1. mem.phase = Active
      BY <2>1, <2>3, PhasesDiffer DEF PlayerDisconnected
    <3> HIDE DEF st
    <3> QED BY <2>1, <2>2, <2>3, <3>1, AdvanceKeepsCycle
  <2> QED BY <1>9, <2>2, <2>3, UnsavedStepKeepsCycle DEF HandleLeft
<1>10. CASE CopyWorld \/ CopyRetried
  BY <1>10, UnsavedStepKeepsCycle DEF CopyWorld, CopyRetried, Holding, observed
<1>11. CASE CreateReturns
  <2>1. Rec \in {"backing_up", "lost"}
    BY <1>11, HoldingIsBackingUp DEF CreateReturns
  <2>2. ~Holding /\ Holding' /\ Rec' = Rec
    BY <1>11 DEF CreateReturns, durable, Holding, Rec
  <2>3. owed' = FALSE
    BY <1>11 DEF CreateReturns
  <2>4. Cycle!Verify
    BY <2>1, <2>2, <2>3 DEF Cycle!Verify, Rec, Holding
  <2> QED BY <2>4 DEF Cycle!Next
<1>12. CASE CreateRaises
  <2>1. pc \in {"create", "validate"} /\ mem.phase = BackingUp /\ ~Holding /\ ~Holding'
    BY <1>12 DEF CreateRaises, Inv, PhaseFitsPlace, Holding
  <2>2. Sound(BackupFailed(mem)) /\ BackupFailed(mem).phase = Active /\ Save(BackupFailed(mem))
    BY <1>12, <2>1, BackupFailedIsSound DEF Inv, CreateRaises
  <2> QED BY <2>1, <2>2, AdvanceKeepsCycle
<1>13. CASE AfterQuery \/ AfterQueryFails
  <2>1. Holding /\ Holding' /\ UNCHANGED <<durable, owed>>
    BY <1>13, AnswerPlaces
    DEF AfterQuery, AfterQueryFails, QueryRaises, Answered, Holding
  <2> QED BY <2>1, IdlingIsAStutter DEF durable, CycleIdles, Rec
<1>14. CASE Decide
  <2>1. pc = "decide" /\ mem.phase = BackingUp /\ Holding /\ ~Holding'
    BY <1>14 DEF Decide, Perform, Inv, PhaseFitsPlace, Holding
  <2>2. PICK st : Sound(st) /\ Save(st)
    <3>1. /\ Sound(RequireFinalBackup(mem))
          /\ Sound(BackupSucceeded(mem, online))
      BY <2>1, RequireFinalBackupIsSound, BackupSucceededIsSound DEF Inv, TypeOK
    <3> QED BY <1>14, <3>1 DEF Decide
  <2>3. Cycle!Record(st.phase) /\ st.phase \in {"idle"} \cup Cycle!Open
    BY <2>2, SaveRecords DEF Phases, Idle, Active, BackingUp, Cycle!Open
  <2>4. \E phase \in {"idle"} \cup Cycle!Open : Cycle!Record(phase)
    BY <2>3
  <2>5. Cycle!Close
    BY <2>1, <2>4 DEF Cycle!Close, Holding
  <2> QED BY <2>5 DEF Cycle!Next
<1> QED
  BY <1>1, <1>2, <1>3, <1>4, <1>5, <1>6, <1>7, <1>8, <1>9, <1>10, <1>11, <1>12, <1>13, <1>14
  DEF Main

\* The watcher implements the promise of its state file, for every interval, number of
\* players, failure, crash and lost file (design.md, the state table).
THEOREM WatcherKeepsCycle == Spec => CycleSpec
<1>1. Init => Cycle!Init
  BY DEF Init, Cycle!Init
<1>2. Inv /\ [Next]_vars => [Cycle!Next]_(Cycle!cycle)
  <2> SUFFICES ASSUME Inv, [Next]_vars PROVE [Cycle!Next]_(Cycle!cycle)
    OBVIOUS
  <2>1. CASE UNCHANGED vars
    BY <2>1, IdlingIsAStutter DEF vars, process, durable, observed, CycleIdles, Rec, Holding
  <2> QED BY <2>1, EnvironmentKeepsCycle, MainKeepsCycle DEF Next
<1> QED BY <1>1, <1>2, InvHolds, PTL DEF Spec, CycleSpec, Cycle!Spec
==============================================================================
