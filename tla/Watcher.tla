------------------------------- MODULE Watcher --------------------------------
(***************************************************************************)
(* The activity watcher: watcher.py (JournalFollower and ActivityWatcher)  *)
(* driving the state machine of state.py, with StateStore's file, the BDS  *)
(* server's players, the journal between them, SIGTERM, crashes and the    *)
(* supervisor that restarts the service.                                   *)
(*                                                                         *)
(* SnapshotManager.create is seen here from outside: it copies the world   *)
(* at one moment (the hold), may copy again for a second attempt, and then *)
(* returns or raises.                                                      *)
(***************************************************************************)
EXTENDS ActivityState, FiniteSets

CONSTANTS
  MaxPlayers,    \* bound: how many players are ever online together
  MaxJournal,    \* bound: events between the server and the main thread
  MaxFailures,   \* bound: failed create() calls in a row
  MaxFaults,     \* bound: crashes, failed queries and lost files in a behaviour
  Attempts,      \* verification_attempts: copies one create() may make
  LateAttach     \* TRUE if journalctl may still be starting when the startup
                 \* query is answered

ASSUME WatcherAssumption ==
  /\ MaxPlayers \in Nat /\ MaxJournal \in Nat
  /\ MaxFailures \in Nat /\ MaxFaults \in Nat
  /\ Attempts \in Nat \ {0}
  /\ LateAttach \in BOOLEAN

VARIABLES
  \* The watcher's process
  pc,         \* where ActivityWatcher.run's thread is
  mem,        \* its ActivityState
  reason,     \* the reason passed to _perform_backup
  online,     \* the player count last read from the console
  attempt,    \* which copy of the running create() this is
  stopping,   \* self.stopping
  follower,   \* the journalctl child and its reader thread
  queue,      \* events the main thread has not taken yet, oldest first
  \* What outlives the process
  file,       \* the state file: "absent", "corrupt" or "intact"
  disk,       \* the record in an intact state file
  \* The server
  players,    \* how many players are online
  \* Bounds and observation
  faults,     \* faults spent
  streak,     \* create() calls that failed since the last that succeeded
  sinceCopy,  \* a player was online after the running create()'s last copy
  dirty,      \* a player the watcher knows of (counted at startup, or joined
              \* while the journal was followed) was online after the last good
              \* snapshot's copy
  owed        \* the state file recorded a cycle no snapshot has ended yet

process == <<pc, mem, reason, online, attempt, stopping, follower, queue>>
durable == <<file, disk>>
observed == <<faults, streak, sinceCopy, dirty, owed>>
vars == <<process, durable, players, observed>>

Connected == "connected"
Disconnected == "disconnected"
JournalEnded == "journal-ended"
Wake == "wake"
Events == {Connected, Disconnected, JournalEnded, Wake}

\* The three calls of _query_players_with_retry: at the test of its loop, and
\* waiting for the console's answer.
AnswerOf == [startup_query |-> "startup_answer", left_query |-> "left_answer",
             after_query |-> "after_answer"]

Places ==
  {"down", "load", "startup_query", "startup_answer", "reconcile", "loop", "get",
   "left_query", "left_answer", "left", "create", "validate",
   "after_query", "after_answer", "decide"}

TypeOK ==
  /\ pc \in Places
  /\ mem \in ActivityStates
  /\ reason \in Reasons \cup {None}
  /\ online \in Nat
  /\ attempt \in Nat
  /\ stopping \in BOOLEAN
  /\ follower \in {"off", "starting", "following", "ended"}
  /\ queue \in Seq(Events)
  /\ file \in {"absent", "corrupt", "intact"}
  /\ disk \in ActivityStates
  /\ players \in 0..MaxPlayers
  /\ faults \in Nat /\ streak \in Nat
  /\ sinceCopy \in BOOLEAN /\ dirty \in BOOLEAN /\ owed \in BOOLEAN

\* /run is empty at boot and the service has not started.
Init ==
  /\ pc = "down" /\ mem = NewState /\ reason = None /\ online = 0 /\ attempt = 0
  /\ stopping = FALSE /\ follower = "off" /\ queue = <<>>
  /\ file = "absent" /\ disk = NewState
  /\ players = 0
  /\ faults = 0 /\ streak = 0
  /\ sinceCopy = FALSE /\ dirty = FALSE /\ owed = FALSE

------------------------------------------------------------------------------
(***************************************************************************)
(* The server, the clock, the supervisor and the faults.                   *)
(***************************************************************************)

\* _read puts an event only for lines written while journalctl follows
\* (-n 0: no history).
Logged(e) == IF follower = "following" THEN Append(queue, e) ELSE queue

PlayerJoins ==
  /\ players < MaxPlayers
  /\ Len(queue) < MaxJournal
  /\ players' = players + 1
  /\ queue' = Logged(Connected)
  /\ sinceCopy' = TRUE
  /\ dirty' = (dirty \/ follower = "following")
  /\ UNCHANGED <<pc, mem, reason, online, attempt, stopping, follower, durable,
                 faults, streak, owed>>

PlayerLeaves ==
  /\ players > 0
  /\ Len(queue) < MaxJournal
  /\ players' = players - 1
  /\ queue' = Logged(Disconnected)
  /\ UNCHANGED <<pc, mem, reason, online, attempt, stopping, follower, durable, observed>>

Tick ==
  /\ mem.due > 0 \/ disk.due > 0
  /\ mem' = Aged(mem)
  /\ disk' = Aged(disk)
  /\ UNCHANGED <<pc, reason, online, attempt, stopping, follower, queue, file,
                 players, observed>>

\* journalctl has seeked to the end of the journal.
Attach ==
  /\ follower = "starting"
  /\ follower' = "following"
  /\ UNCHANGED <<pc, mem, reason, online, attempt, stopping, queue, durable,
                 players, observed>>

\* The child's output ends while the watcher runs.
JournalEnds ==
  /\ follower = "following"
  /\ faults < MaxFaults
  /\ follower' = "ended"
  /\ queue' = Append(queue, JournalEnded)
  /\ faults' = faults + 1
  /\ UNCHANGED <<pc, mem, reason, online, attempt, stopping, durable, players,
                 streak, sinceCopy, dirty, owed>>

\* Mutant: the blocked thread is not woken.
Stop_NoWake ==
  /\ pc # "down" /\ ~stopping
  /\ stopping' = TRUE
  /\ UNCHANGED <<pc, mem, reason, online, attempt, follower, queue, durable, players, observed>>

\* stop(): the handler of SIGTERM and SIGINT.
Stop ==
  /\ pc # "down"
  /\ ~stopping
  /\ stopping' = TRUE
  /\ queue' = Append(queue, Wake)
  /\ UNCHANGED <<pc, mem, reason, online, attempt, follower, durable, players, observed>>

\* SIGKILL, or an OSError of StateStore.save: what is not on disk is gone.
Crash ==
  /\ pc # "down"
  /\ faults < MaxFaults
  /\ pc' = "down" /\ mem' = NewState /\ reason' = None /\ online' = 0 /\ attempt' = 0
  /\ follower' = "off" /\ queue' = <<>>
  /\ faults' = faults + 1
  /\ UNCHANGED <<stopping, durable, players, streak, sinceCopy, dirty, owed>>

\* The server process dies and returns: its players are gone without a
\* "Player disconnected" line, and /run/minecraft-bedrock (RuntimeDirectory of
\* its unit) is emptied, the state file with it.
ServerRestarts ==
  /\ faults < MaxFaults
  /\ players' = 0
  /\ file' = "absent" /\ disk' = NewState /\ owed' = FALSE
  /\ faults' = faults + 1
  /\ UNCHANGED <<process, streak, sinceCopy, dirty>>

\* The state file is damaged.
FileDamaged ==
  /\ file = "intact"
  /\ faults < MaxFaults
  /\ file' = "corrupt" /\ disk' = NewState /\ owed' = FALSE
  /\ faults' = faults + 1
  /\ UNCHANGED <<process, players, streak, sinceCopy, dirty>>

------------------------------------------------------------------------------
(***************************************************************************)
(* ActivityWatcher.                                                        *)
(***************************************************************************)

\* state := st; store.save(state).
Save(st) ==
  /\ mem' = st
  /\ file' = "intact" /\ disk' = st
  /\ owed' = (owed \/ st.phase # Idle)

\* The process ends: by returning from run, or by an exception run does not catch.
Exit ==
  /\ pc' = "down" /\ mem' = NewState /\ reason' = None /\ online' = 0 /\ attempt' = 0
  /\ follower' = "off" /\ queue' = <<>>

\* _perform_backup(state, why): the call of create().
Perform(why) == pc' = "create" /\ reason' = why /\ attempt' = 0

\* systemd starts the service: Restart=on-failure, or the boot.
Restart ==
  /\ pc = "down" /\ ~stopping
  /\ pc' = "load" /\ follower' = "starting"
  /\ UNCHANGED <<mem, reason, online, attempt, stopping, queue, durable, players, observed>>

\* The operator starts the service again after a stop.
OperatorStarts ==
  /\ pc = "down" /\ stopping
  /\ pc' = "load" /\ follower' = "starting" /\ stopping' = FALSE
  /\ UNCHANGED <<mem, reason, online, attempt, queue, durable, players, observed>>

\* store.load(): no file is a new state; a bad one is a recovery, saved at once.
Load ==
  /\ pc = "load"
  /\ pc' = "startup_query"
  /\ \/ /\ file = "intact"
        /\ mem' = disk
        /\ UNCHANGED <<durable, owed>>
     \/ /\ file = "absent"
        /\ mem' = NewState
        /\ UNCHANGED <<durable, owed>>
     \/ /\ file = "corrupt"
        /\ Save(RecoveryState)
  /\ dirty' = (dirty /\ mem'.phase # Idle)
  /\ UNCHANGED <<reason, online, attempt, stopping, follower, queue, players,
                 faults, streak, sinceCopy>>

\* _query_players_with_retry: `list' is sent, unless stopping is set already.
AskConsole ==
  /\ pc \in DOMAIN AnswerOf /\ ~stopping
  /\ pc' = AnswerOf[pc]
  /\ UNCHANGED <<mem, reason, online, attempt, stopping, follower, queue, durable,
                 players, observed>>

\* The answer: the count is read now and used in a later step.
Answered(query, next) ==
  /\ pc = AnswerOf[query]
  /\ online' = players
  /\ pc' = next
  /\ UNCHANGED <<mem, reason, attempt, stopping, follower, queue, durable, players,
                 faults, streak, sinceCopy, owed>>

\* The call raises: nothing was asked or nothing is asked again once stopping
\* is set, or the console does not answer within the time allowed.
QueryRaises(query) ==
  \/ /\ pc \in {query, AnswerOf[query]} /\ stopping
     /\ UNCHANGED faults
  \/ /\ pc = AnswerOf[query]
     /\ faults < MaxFaults /\ faults' = faults + 1

StartupQuery ==
  /\ follower # "starting" \/ LateAttach
  /\ Answered("startup_query", "reconcile")
  /\ dirty' = (dirty \/ players > 0)

\* The RuntimeError leaves run.
StartupQueryFails ==
  /\ QueryRaises("startup_query")
  /\ Exit
  /\ UNCHANGED <<stopping, durable, players, streak, sinceCopy, dirty, owed>>

\* reconcile_startup, the save, and the recovery backup it may ask for.
Reconcile ==
  /\ pc = "reconcile"
  /\ LET st == ReconcileStartup(mem, online)
     IN  /\ Save(st)
         /\ \/ st.phase = BackingUp /\ Perform(st.pending)
            \/ st.phase # BackingUp /\ pc' = "loop" /\ UNCHANGED <<reason, attempt>>
  /\ UNCHANGED <<online, stopping, follower, queue, players,
                 faults, streak, sinceCopy, dirty>>

\* while not self.stopping: block in events.get.
LoopContinues ==
  /\ pc = "loop" /\ ~stopping
  /\ pc' = "get"
  /\ UNCHANGED <<mem, reason, online, attempt, stopping, follower, queue, durable,
                 players, observed>>

LoopEnds ==
  /\ pc = "loop" /\ stopping
  /\ Exit
  /\ UNCHANGED <<stopping, durable, players, observed>>

\* events.get timed out at the deadline (there is a timeout only in ACTIVE).
\* An event still on its way from the server does not delay it.
TimerFires ==
  /\ pc = "get"
  /\ mem.phase = Active /\ mem.due = 0
  /\ Save(TimerDue(mem))
  /\ Perform(TimerDue(mem).pending)
  /\ UNCHANGED <<online, stopping, follower, queue, players,
                 faults, streak, sinceCopy, dirty>>

TakeEvent(e) ==
  /\ pc = "get"
  /\ queue # <<>> /\ Head(queue) = e
  /\ queue' = Tail(queue)

\* A "connected" event: saved only if it started a cycle.
HandleConnected ==
  /\ TakeEvent(Connected)
  /\ pc' = "loop"
  /\ \/ /\ mem.phase = Idle
        /\ Save(PlayerConnected(mem))
     \/ /\ mem.phase # Idle
        /\ UNCHANGED <<mem, durable, owed>>
  /\ UNCHANGED <<reason, online, attempt, stopping, follower, players,
                 faults, streak, sinceCopy, dirty>>

\* A "disconnected" event: let the server settle, then ask it.
HandleDisconnected ==
  /\ TakeEvent(Disconnected)
  /\ pc' = "left_query"
  /\ UNCHANGED <<mem, reason, online, attempt, stopping, follower, durable,
                 players, observed>>

\* The end of the journal raises; the wake-up does nothing by itself.
HandleJournalEnded ==
  /\ pc = "get"
  /\ queue # <<>> /\ Head(queue) = JournalEnded
  /\ Exit
  /\ UNCHANGED <<stopping, durable, players, observed>>

HandleWake ==
  /\ TakeEvent(Wake)
  /\ pc' = "loop"
  /\ UNCHANGED <<mem, reason, online, attempt, stopping, follower, durable,
                 players, observed>>

LeftQuery == Answered("left_query", "left") /\ UNCHANGED dirty

LeftQueryFails ==
  /\ QueryRaises("left_query")
  /\ Exit
  /\ UNCHANGED <<stopping, durable, players, streak, sinceCopy, dirty, owed>>

\* player_disconnected with the count the query returned.
HandleLeft ==
  /\ pc = "left"
  /\ LET st == PlayerDisconnected(mem, online)
     IN  \/ /\ st.phase = BackingUp
            /\ Save(st)
            /\ Perform(st.pending)
         \/ /\ st.phase # BackingUp
            /\ pc' = "loop"
            /\ UNCHANGED <<mem, durable, owed, reason, attempt>>
  /\ UNCHANGED <<online, stopping, follower, queue, players,
                 faults, streak, sinceCopy, dirty>>

\* create(): the world is copied while the server holds its saves.
CopyWorld ==
  /\ pc = "create"
  /\ pc' = "validate"
  /\ attempt' = attempt + 1
  /\ sinceCopy' = (players > 0)
  /\ UNCHANGED <<mem, reason, online, stopping, follower, queue, durable, players,
                 faults, streak, dirty, owed>>

\* create(): the copy failed validation and another attempt is allowed.
CopyRetried ==
  /\ pc = "validate"
  /\ attempt < Attempts
  /\ pc' = "create"
  /\ UNCHANGED <<mem, reason, online, attempt, stopping, follower, queue, durable,
                 players, observed>>

\* create() returned: the copy is a verified snapshot.
CreateReturns ==
  /\ pc = "validate"
  /\ pc' = "after_query"
  /\ streak' = 0
  /\ dirty' = sinceCopy
  /\ owed' = FALSE
  /\ UNCHANGED <<mem, reason, online, attempt, stopping, follower, queue, durable,
                 players, faults, sinceCopy>>

\* create() raised, before or after the copy: backup_failed and save.
CreateRaises ==
  /\ pc \in {"create", "validate"}
  /\ streak < MaxFailures
  /\ Save(BackupFailed(mem))
  /\ pc' = "loop"
  /\ streak' = streak + 1
  /\ UNCHANGED <<reason, online, attempt, stopping, follower, queue, players,
                 faults, sinceCopy, dirty>>

AfterQuery == Answered("after_query", "decide") /\ UNCHANGED dirty

\* The failed query after a good snapshot counts as one player.
AfterQueryFails ==
  /\ QueryRaises("after_query")
  /\ online' = 1
  /\ pc' = "decide"
  /\ UNCHANGED <<mem, reason, attempt, stopping, follower, queue, durable, players,
                 streak, sinceCopy, dirty, owed>>

\* Mutant: a periodic snapshot that ends with nobody online ends the cycle.
Decide_NoFinal ==
  /\ pc = "decide"
  /\ Save(BackupSucceeded(mem, online))
  /\ pc' = "loop"
  /\ UNCHANGED <<reason, online, attempt, stopping, follower, queue, players,
                 faults, streak, sinceCopy, dirty>>

\* _perform_backup once the count is known: a periodic snapshot that ended
\* with nobody online is followed by a final one; any other ends the cycle or
\* starts the next.
Decide ==
  /\ pc = "decide"
  /\ \/ /\ reason = Periodic /\ online = 0
        /\ Save(RequireFinalBackup(mem))
        /\ Perform(LastPlayerLeft)
     \/ /\ ~(reason = Periodic /\ online = 0)
        /\ Save(BackupSucceeded(mem, online))
        /\ pc' = "loop"
        /\ UNCHANGED <<reason, attempt>>
  /\ UNCHANGED <<online, stopping, follower, queue, players,
                 faults, streak, sinceCopy, dirty>>

\* The steps the watcher's thread takes by itself.
Main ==
  \/ Load \/ AskConsole \/ StartupQuery \/ StartupQueryFails \/ Reconcile
  \/ LoopContinues \/ LoopEnds \/ TimerFires
  \/ HandleConnected \/ HandleDisconnected \/ HandleJournalEnded \/ HandleWake
  \/ LeftQuery \/ LeftQueryFails \/ HandleLeft
  \/ CopyWorld \/ CopyRetried \/ CreateReturns \/ CreateRaises
  \/ AfterQuery \/ AfterQueryFails \/ Decide

Environment ==
  \/ PlayerJoins \/ PlayerLeaves \/ Tick \/ Attach \/ JournalEnds
  \/ Stop \/ Crash \/ ServerRestarts \/ FileDamaged \/ Restart \/ OperatorStarts

Next == Main \/ Environment

Spec == Init /\ [][Next]_vars

(***************************************************************************)
(* Fairness.  The thread runs, time passes, journalctl attaches, systemd   *)
(* restarts a failed service (Restart=on-failure, RestartSec=5).  The      *)
(* timer needs strong fairness: events.get prefers an event to the         *)
(* timeout, so players who came and went fast enough for the queue never   *)
(* to be empty would starve it.                                            *)
(***************************************************************************)
Fairness ==
  /\ WF_vars(Main) /\ SF_vars(TimerFires)
  /\ WF_vars(Tick) /\ WF_vars(Attach) /\ WF_vars(Restart)

FairSpec == Spec /\ Fairness

------------------------------------------------------------------------------
(***************************************************************************)
(* Safety.                                                                 *)
(***************************************************************************)

\* Whatever the watcher has saved, a restarted watcher reads back: no path of
\* methods leaves a record that from_dict refuses (which would turn a live
\* deadline into an unplanned recovery backup).
DiskLoadable == file = "intact" => Loadable(disk)

\* A cycle recorded in the state file is never closed without a snapshot: if
\* the file says idle, the last cycle it recorded was ended by a snapshot that
\* verified, whatever crashed, restarted or failed in between.
DurablePromise == file = "intact" /\ disk.phase = Idle => ~owed

\* README "the countdown starts when the first player enters": once the watcher
\* has taken every event and waits, players online are never left in idle,
\* although their events may have arrived before the startup query, during a
\* backup, or be stale.
PlayersAreTimed ==
  pc = "get" /\ follower = "following" /\ queue = <<>> /\ players > 0
    => mem.phase = Active

\* README "when the last player leaves a final snapshot is created and the
\* cycle ends": a watcher that has gone idle and has nothing left to read knows
\* of no activity that came after the copy of the last good snapshot.
IdleIsCaptured == pc = "get" /\ queue = <<>> /\ mem.phase = Idle => ~dirty

\* The cycles it does hold for: when a cycle in which no backup failed ends, and
\* not in a recovery backup, activity the last copy does not hold has an event
\* in the queue that starts the next cycle (design.md, handled fault 4: the last
\* player leaves during a periodic backup).
OrdinaryEndIsCaptured ==
  [][pc = "decide" /\ pc' = "loop" /\ mem'.phase = Idle
       /\ mem.failures = 0 /\ reason # Recovery /\ dirty
       => \E i \in DOMAIN queue : queue[i] \in {Connected, JournalEnded}]_vars

\* README "neither a restart nor a player's disconnection bypasses the retry
\* deadline": while the file holds a retry that is not due, no step starts a
\* backup, across crashes and restarts too.
RetryDeadlineRespected ==
  [][file = "intact" /\ disk.retry # None /\ disk.due > 0 /\ file' = "intact"
       => disk'.phase # BackingUp]_vars

\* design.md, state table and restart list: a running countdown is never
\* started again, neither by another player nor by a restart of the watcher.
DeadlineNeverExtended ==
  [][file = "intact" /\ disk.phase = Active /\ file' = "intact" /\ disk'.phase = Active
       => disk'.due <= disk.due]_vars

\* What the state file records, seen from outside.
Cycle == INSTANCE ActivityCycle
  WITH record <- IF file = "intact" THEN disk.phase ELSE "lost",
       verified <- pc \in {"after_query", "after_answer", "decide"}

\* The watcher keeps the promise of its state file: no order of events, counts that
\* are stale, crashes, lost files and restarts closes a cycle without a snapshot that
\* verified during it, or skips a phase (design.md, the state table).
CycleSpec == Cycle!Spec

------------------------------------------------------------------------------
(***************************************************************************)
(* Liveness, under Fairness.  `Stopped' is the state after an operator's   *)
(* stop, which only the operator ends.                                     *)
(***************************************************************************)
Stopped == pc = "down" /\ stopping

\* SIGTERM ends the watcher, whatever it is doing: a thread that waits without
\* a timeout for the next event is woken.
Stops == stopping ~> ~stopping \/ pc = "down"

\* A cycle recorded on disk gets its snapshot, through failures, crashes and
\* restarts, unless the operator stops the service.
PromiseKept == owed ~> ~owed \/ Stopped

\* Once the last player has left for good, the watcher goes idle and stays so,
\* also when the server died without writing who left.
EventuallyIdle == <>[](players = 0) => <>[](mem.phase = Idle) \/ []<>Stopped

\* README "while players are online a snapshot is created every interval".
SnapshotsKeepComing ==
  <>[](players > 0) => []<>(pc = "after_query") \/ []<>Stopped
==============================================================================
