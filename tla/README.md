# Verification of bedrock-activity-backup

TLA+ modules, TLC configurations and TLAPS proofs for
`src/src/bedrock_activity_backup`: a service that watches who plays on a
Minecraft Bedrock Dedicated Server (BDS), takes a snapshot every interval while
someone plays and a final one when the last player leaves, validates each
snapshot in an isolated server and rotates the ones it trusts.

    tlc -workers 2 -config watcher_safety.cfg MCWatcher.tla
    tlapm WatcherProofs.tla

Paths below are relative to `src/`; `pkg/` stands for
`src/bedrock_activity_backup/`.

## 1. Inventory

| Component | State it keeps | Operations | What makes it hard |
| --- | --- | --- | --- |
| `ActivityState` (`pkg/state.py`) | phase, deadline, pending and retry reasons, failure count | `player_connected`, `player_disconnected`, `timer_due`, `reconcile_startup`, `require_final_backup`, `backup_succeeded`, `backup_failed`, `from_dict` | combinations of fields reached by long sequences; back-off |
| `StateStore` (`pkg/state.py`) | the state file in `/run/minecraft-bedrock` | `load`, `save` (temporary file, fsync, rename) | crash between a step and its save; a damaged or vanished file |
| `JournalFollower`, `ActivityWatcher` (`pkg/watcher.py`) | event queue, `journalctl` child, reader thread, the record in memory, `stopping` | `start`, `_read`, `close`, `run`, `stop`, `_query_players_with_retry`, `_perform_backup` | a count that is old when used; events during a backup; signals; restarts |
| `BdsConsole` (`pkg/console.py`) | none of its own: a FIFO to BDS, a journal cursor | `query_player_count`, `paused_saves` (hold, query, resume) | answers that are late, lost or of an earlier command; a kill while saves are held |
| `SnapshotManager`, `repository_lock` (`pkg/snapshot.py`) | directories in `backups/automatic`, manifests, `latest`, `backup.lock`, `runs/` | `create` (several attempts), `maintain`, diagnostics of failed samples | every step may fail or be the last one; two processes |
| `SnapshotRotator` (`pkg/snapshot.py`) | none: reads the manifests' `previous_snapshot` | `complete_snapshots`, `newest_first`, `prune` | order without a trusted clock; a chain with holes |
| `SnapshotVerifier` (`pkg/snapshot.py`) | none | structure and hashes of one directory, its state | data more than control |
| `IsolatedBdsValidator` (`pkg/snapshot.py`) | a child process, its output, a scratch world | `validate`: wait for ready, stop, drain, terminate, kill | a process that hangs, exits early or is killed must not pass |
| payload copy (`pkg/snapshot.py`) | inodes shared with the previous snapshot | `rsync --link-dest`, cut to listed lengths, checksums | a write through a hard link changes an older snapshot; damage is linked on |
| rehearsal and restore plan (`pkg/snapshot.py`) | none | copy to an empty directory and verify; print a plan | damage between the verification and the copy |
| command line (`pkg/cli.py`) | none | `watch`, `backup`, `query-players`, `prune`, `verify`, `rehearse`, `restore-plan`, `status` | shares the repository with the watcher |
| `Config` (`pkg/config.py`), error labels (`pkg/errors.py`) | constants | `validate`; wording | bounds |
| installer (`scripts/install.sh`) | saved integration files | install, rollback | failure at each step, also of the rollback |
| systemd units, FIFO wrapper (`systemd/`, `scripts/minecraft-bedrock-run`) | runtime directory, FIFO | restart on failure, stop signal | the runtime directory goes with the server, not with the watcher |

How they interact. BDS writes "Player connected/disconnected" lines to the
systemd journal; the reader thread of `JournalFollower` turns them into events
in a `queue.Queue`; the main thread of `ActivityWatcher` takes them one at a
time, asks BDS how many players are online (`list`, through the FIFO, with the
answer read back from the journal), moves `ActivityState` and saves it. A phase
of `BACKING_UP` makes it call `SnapshotManager.create`, which holds BDS's saves
through the console, copies, resumes, validates and rotates under
`backup.lock`. Operators run `backup` and `prune` against the same repository
from processes of their own. systemd restarts the watcher when it fails and
empties the runtime directory, the state file with it, when BDS stops.

What makes each component correct:

* state machine and watcher: what is saved can be loaded; an owed snapshot is
  never forgotten on disk and is eventually made; players online are being
  timed; a retry is not early and a deadline not extended; what the last player
  did is in a snapshot; the failure count is what its name says; a stop stops;
* repository: only what the isolated server loaded is trusted; `latest` never
  dangles and moves to the newest; rotation takes the oldest and spares the
  snapshot just returned; evidence is kept; nothing piles up;
* console: saves are not left held; an answer belongs to the question;
* validator: a pass is about everything the server ever printed, and a killed
  or hung server never passes;
* payload: a snapshot holds what BDS announced, an older snapshot never changes,
  damage is told and not inherited;
* stop window: whatever the configuration, a hold that a stop finds under way is
  resumed before SIGKILL;
* installer: after a failure everything is as it was, or the user is told.

The lines where each of these could go wrong are the `hazards` of
`PROJECT.json`, with the properties that cover them.

## 2. Modules

| Module | Models | Extends |
| --- | --- | --- |
| `ActivityState` | the record and the methods of class `ActivityState`, as operators | Integers, Sequences |
| `ActivityStateProofs` | what each method preserves: types, loadable records, bounds of the back-off | `ActivityState`, TLAPS |
| `ActivityCycle` | abstract: what the state file promises of an activity cycle | none |
| `Watcher` | `ActivityWatcher`, `JournalFollower`, `StateStore`, with the server's players, the journal, signals, crashes and systemd; implements `ActivityCycle` | `ActivityState` |
| `WatcherProofs` | its inductive invariant, safety theorems and the refinement | `Watcher`, `ActivityStateProofs` |
| `SnapshotRepository` | `create`, `maintain`, `prune`, the reading commands, `repository_lock` for several processes | Integers, FiniteSets |
| `SnapshotRepositoryProofs` | its inductive invariant and safety theorems | `SnapshotRepository`, TLAPS |
| `SnapshotPayload` | what a snapshot holds: rsync's copy and links, the cut, checksums, rotation's unlinking, the rehearsal | Integers, FiniteSets |
| `IsolatedValidator` | `IsolatedBdsValidator.verify` and the server it boots | Integers, Sequences |
| `IsolatedValidatorProofs` | its inductive invariants and safety theorems | `IsolatedValidator`, SequenceTheorems, TLAPS |
| `BdsConsole` | `BdsConsole` (`pkg/console.py`) with BDS, its FIFO and the journal | Integers, Sequences |
| `BdsConsoleProofs` | its inductive invariants and safety theorems | `BdsConsole`, SequenceTheorems, TLAPS |
| `StopWindow` | the bounds of `Config.validate`, the phases of a snapshot and their timeouts, `TimeoutStopSec` | Integers |
| `StopWindowProofs` | its inductive invariant and safety theorem | `StopWindow`, TLAPS |
| `Installer` | `scripts/install.sh`: the installation and its rollback | Integers |
| `SnapshotPayloadProofs` | its inductive invariant and safety theorems | `SnapshotPayload`, WellFoundedInduction, TLAPS |
| `InstallerProofs` | its inductive invariant and safety theorems | `Installer`, TLAPS |
| `MCWatcher`, `MCSnapshotRepository`, `MCSnapshotPayload`, `MCIsolatedValidator`, `MCBdsConsole`, `MCStopWindow`, `MCInstaller` | the instances TLC checks | |

The modules meet at their interfaces. `Watcher` takes two things on trust that
other modules show: that a count is the number of players at one moment of the
query (`CountIsCurrent` of `BdsConsole`), and that `create` copies the world at
one moment or raises (`HeldWhileCopied`, `PublishedIsHeld`).
`SnapshotRepository` takes the isolated server's verdict as given
(`PassedIsEarned`) and lets the copy succeed or fail; `SnapshotPayload` takes the
lock (`ReadersSeeOneState`) and the hold as given.

`PROJECT.json` maps each definition to the lines it stands for. Definitions
marked "MUTANT" are plausible wrong versions of the definition that follows
them; no specification uses one. They show that a property tells the code from
code that is slightly wrong.

### ActivityState

A record `[phase, due, pending, retry, failures]`. `next_due_epoch` is kept as
the time *left* (`due`; 0 is reached, -1 is `None`), so `now < next_due_epoch`
is `due > 0` and time is finite; `Aged` is the passing of one unit. The reason a
method returns is the new record's `pending`. Three diagnostic fields that no
transition reads are left out. `Loadable` is what `from_dict` accepts.

### Watcher

The main thread is a program counter:

| `pc` | Where in `pkg/watcher.py` |
| --- | --- |
| `down` | no process |
| `load` | `store.load()`, and the save of a recovery record when the file is bad |
| `startup_query`, `startup_answer`, `reconcile` | the startup `list`, and `reconcile_startup` with its save |
| `loop`, `get` | the test of `while not self.stopping`, blocked in `events.get` |
| `left_query`, `left_answer`, `left` | a "disconnected" event: `list`, then `player_disconnected` |
| `create`, `validate` | inside `SnapshotManager.create`: before and after the copy |
| `after_query`, `after_answer`, `decide` | the end of `_perform_backup` |

A query is two steps, sent and answered, and the count answered is used in a
third: players come and go between any two of them. `create` is seen from
outside: it copies the world at one moment, perhaps again for another attempt,
and returns or raises. `maintain`, which `run` calls before `load` and whose
exceptions it logs, is a step of `SnapshotRepository` only.

The environment: players join and leave (their lines reach `queue` only while
`follower = "following"`), time passes, `journalctl` attaches or ends, a signal
arrives (`Stop`), the process dies at any step (`Crash`, also an `OSError` of
`save`), BDS restarts (players gone without a line, the runtime directory
emptied), the file is damaged, systemd restarts the service, the operator starts
it again after a stop.

`StateStore.save` is one step: it writes a temporary file and renames it, so a
crash leaves the old file or the new one. A crash between a step's effects and
its save is a crash before the step, since nothing else of the step outlives the
process; where something does (a snapshot made, a question asked) the step is
split there.

Observation variables that no action's guard reads: `owed` (the file recorded a
cycle that no snapshot has ended), `dirty` and `sinceCopy` (a player was online
after the copy of the last good, or the running, snapshot). `faults` and
`streak` are read only by bounds.

`ActivityCycle` is what a reader of the state file may rely on: a phase is
recorded, a cycle that is open is owed a snapshot, and it is closed only by one
that verified while it was open. The mapping (`Cycle` in `Watcher`) takes the
recorded phase from the intact file, "a verified snapshot that is not recorded
yet" from the thread's place after `create` has returned, and `owed` from the
observation of the same name. Three of its actions are what a careful reader of
the code would not expect: `Resume`, since a crash forgets a snapshot that was
not recorded and the cycle is owed one again; `Lose`, since the file goes with
the server's runtime directory; and `Find`, since a watcher without a file starts
from what it sees. That an intact file that says IDLE owes nothing
(`DurablePromise`) follows from it.

### SnapshotRepository

A snapshot is its directory name. Names begin with a time stamp, so their order
is the clock's: numbers. What a directory holds is what the verifier says of it:

| `state` | In the repository |
| --- | --- |
| `none` | name never given |
| `temp` | `.pending-...` directory, before the rename |
| `pending`, `verified`, `failed` | the state in the manifest |
| `broken` | the verifier refuses it: damaged, or its removal stopped half-way |
| `gone` | removed |

`prev` is `previous_snapshot`, `latest` the link, `diags` the names under
`runs/failed`, `lock` the holder of `backup.lock`. Each process has a place
(`pc`): `preflight`, `copy`, `validate`, then `accept`, `sync`, `latest` on
success or `reject`, `diagnose`, `discard` on failure, then `rotate` and
`remove`; `relink` is the beginning of `maintain`; `returned` is the moment
before the caller gets the result. `Head` is `_head_snapshot`. `_newest_first`
is three operators: `Chain` is the walk along the predecessors (the least set
closed under them: since each predecessor is older, which `HistoryInv` says, the
walk never meets a snapshot twice), `Before` the order of its list (the chain
from the head, then the rest by name) and `Rank` a snapshot's place in it.
`Removable` is `_prune_locked`.

Every place is a point at which the process may be killed. `CutShort` says what
an interrupted step leaves: the manifest is replaced before its directory is
synced, so a state that raised may stand; a removal may leave half a directory.
`Damage` breaks a verified snapshot on disk while no process has the lock:
within a run the code reads the list of snapshots several times, and a listing
that changes under its own lock is not something the repository defends
against.

A refused lock is not a step: the operation raises at once and changes nothing.
`verify`, `rehearse`, `status` and `restore-plan` hold the lock and only read
(`BeginRead`, `EndRead`); what they read and make is in `SnapshotPayload`.

`Damage` and a clock that steps back meet in one place the code does not defend
against: a damaged snapshot in the middle of the chain leaves two heads, and the
larger name wins (`pkg/snapshot.py:570`), which may be the older one. The
properties about order say so: `OrderKnown` is their condition (see section 4).

### SnapshotPayload

| `place` | Where in `pkg/snapshot.py` |
| --- | --- |
| `idle` | no process has the repository |
| `hold` | in `_create_locked`, before `save query` is answered; then `_validate_save_files` |
| `stat`, `link` | `rsync`: its file list, then one file at a time |
| `trim` | the loop over `save_files` at the end of `_copy_payload` |
| `sum` | saves are resumed; `_validate_and_describe`, then the rename |
| `pending` | validated in isolation; accepted or not |
| `rehearse` | `SnapshotRehearsal`, between its verification and its report |

A snapshot's directory is a function from files to inodes (`file`), and an inode
holds a content: the number of the writing, a length and a time. Two kinds of
file are told apart, since the code's argument is a different one for each:
those BDS writes as a whole, and those it appends to, which may be longer than
announced when they are copied and are cut. `Same` is rsync's quick check:
length and time in whole seconds, no content. A file rsync does not see as
changed is a link to the previous snapshot's inode, and a file that must be cut
gets an inode of its own (`Shorten`), never a shorter old one. `Damage` turns
the content of an inode, and so of every snapshot that links to it, into one
that no checksum taken before will match. `held` is what BDS announced, of which
the code reads only the lengths; it is compared in properties, and by the cut as
a length.

Assumed: BDS writes a file as a whole at most once in a second (rsync compares
seconds; a database file that is written twice in one second with the same
length would be linked to its old content), and a file that is written while
saves are held only grows. Losing its end, or the file, is a fault (`Cut`).
The announced length of a growing file may be less than its length at the time.
Left out: file names, modes and owners, files that are not in BDS's list, power
loss between a report and its fsync, and a damaged manifest, which is the
`broken` state of `SnapshotRepository`.

### IsolatedValidator

| `pc` | Where in `verify` of `IsolatedBdsValidator` |
| --- | --- |
| `space`, `runtime`, `spawn` | the checks, the stage, the copy of the runtime, `Popen` |
| `startup` | the loop that waits for "Server started." and a second more |
| `stop`, `drain`, `judge` | "stop" is written; `_drain_until_exit`; the exit status and the verdict |
| `terminate`, `drain_terminated`, `kill`, `drain_killed` | the `except` clause: SIGTERM, SIGKILL, with a drain after each |
| `cleanup`, `log` | the `finally` clause: the stage is removed; `validation.log` |

The server prints pieces (a start, a complaint of LevelDB, half of one, something
else), exits, catches a signal or not, closes its output while it runs, and may leave a
descendant that holds the pipe open. A deadline may pass whenever the code waits
for one: no time is counted. `pipe` is printed and not read, `printed` is an
observation of all there was. A piece is what one read returns. `Consume` is
`consume`: `head` and `tail` keep `Half` of the pieces each, and the scan finds a
complaint in one piece, or across two if it is at most 512 bytes long; such a
line is one piece in the model. A longer line that two reads return is two
pieces, each `half`, which no scan sees as one: `PassedIsEarned` speaks of
complaints that a scan can see (the other kind passes, see section 4).

### StopWindow

Time since SIGTERM is counted (`spent`), phase by phase, for every configuration
`Config.validate` accepts (`Configs`). The phases are the wait of the loop, a
query of the players (which may begin a snapshot even if `stopping` was set
meanwhile, since only a further try looks at it), and those of `create`: before
the hold, hold, copy, cut, resume, validate, for each attempt. A phase takes up to
its `Longest`, the sum of the timeouts of the calls it makes, including the poll
that begins just before a deadline. SIGTERM goes to every process of the unit, so
a child that runs dies with it (`Terminate`); the phase ends in an error, or the
step under way ends as it would have.

Two durations are bounded by nothing in the code: cutting and syncing the copy,
and reading the snapshots for their checksums. `CutMax` and `HashMax` bound them
for TLC only; the theorem holds for any. `cut` counts the seconds of the window
that went into the former. `CutBudget`, 148 seconds, is what is left of the 600
when everything else of a hold takes as long as the longest accepted configuration
lets it. It is a result of the model, found by adding up, and not a number of the
code: `HoldUnderWayIsResumed` says that a hold killed although it was under way at
SIGTERM spent more than that in the cut, and one second more does break it. Of a
hold that begins after SIGTERM (`late`) it says nothing, and such a hold can be
killed (section 4).

### Installer

The steps of `install.sh`, and of `rollback`, in their order; a target is
`none`, `old`, `new` or `lost`, a running service is known by the files it was
started from: `old`, `new` if the script started it, `revived` if systemd did so
by itself from files that are not all old. Every command may fail, at every step.
`Dies` ends either service at any moment, and `Revive` starts it again, as the
watcher's unit (`Restart=on-failure`) asks; the server's own unit is not in the
repository, so that its server may come back, or not. A service that systemd has
been told to stop (`off`) is not revived; a dead one (`failed`) may be.

`Try` is the script's `if ! command; then rollback_ok=0; fi`. Three commands of
`rollback` have no such guard, and `set -e` is on: the two messages and the reading
of the saved link. If one of them fails the script ends there (`Abort`), and
nothing is promised of what it leaves. The restart's wait has a branch that fails
although the services are up: with `pipefail`, `journalctl | grep -q` may report
an error when `grep` has closed the pipe. What systemd does with `Requires=`,
`PartOf=` and `Wants=` of the units in `systemd/` is in `Restart`, `Stopped`,
`StartBds`, `StartWatcher` and `Revive`. Permissions and the contents of a release
are left out; so are a signal to the script, for which it has no trap, and a
second installer, against which it has no lock.

### BdsConsole

| `pc` | Where in `pkg/console.py` |
| --- | --- |
| `idle` | no call |
| `list_cursor`, `list`, `list_wait`, `counted` | `query_player_count`: before its cursor, before the send, in `_wait_for`, about to return |
| `hold_cursor`, `hold` | `paused_saves`: before its cursor, before `save hold` |
| `query`, `read` | the loop: before `save query`, before the look at the journal |
| `copy` | at the `yield`: the caller copies the world |
| `resume_cursor`, `resume`, `resume_wait` | the `finally` clause: its cursor, the three attempts to send, the confirmation |
| `paused` | the `with` block has ended without an exception |

A command travels through `fifo` (sent, not read), makes BDS print `output`
(printed, not stored) and comes back in `journal`. A cursor is the end of the
journal at one moment, and only what came after it is ever read: taking one
empties `journal`, so `journal` is the lines after the cursor of the step. Texts
are kept as far as the patterns tell them apart: the announcement, the list of
files that must follow it, the confirmation, the answer to `list` with its
count. What BDS prints when it is not ready is left out: the code logs it in two
wordings and does the same.

`save` is BDS's side: `free`, `saving` (held, the flush not over) or `ready`. It
and everything else of BDS and journald (`Execute...`, `Flushed`, `Stored`,
`PlayersChange`, `ServerDies`, `ServerStarts`) is external, written from what
`console.py` and its tests rely on. Every call to the FIFO, the cursor or the
journal may raise, and a write that raises may have gone out (`SendRaises`).

One call runs at a time. The watcher's queries and backups are on one thread,
and `backup.lock` lets one process hold saves. The `query-players` command takes
no lock, and could ask for a count during a copy: it neither holds nor resumes,
and its answer to the wrong reader is what `CountIsCurrent` would see in a model
with two readers, not in this one.

Observation variables: `restarted` (BDS died during the call), `abandoned` (a
caller was killed between hold and resume, or gave up after three refusals, and
no later resume was read), `since` (the counts there were during the call).
`HeldWhileCopied` leaves restarts out: a server that dies during a copy forgets
the hold, the code does not notice, and the isolated validation is what judges
such a copy.

`CountIsCurrent` is what `Watcher` assumes when it takes a query's answer to be
the number of players at one moment of the query.

## 3. Bounds and switches

| Constant | Bounds | Why it is enough |
| --- | --- | --- |
| `MaxPlayers` (0 to 2) | players online together | the code tells only zero, not zero and "became zero"; two give "one leaves, one stays" |
| `MaxJournal` (2) | events waiting | leave and join during one step of the main thread |
| `MaxFailures` (0 to 2) | failed `create` calls in a row | two reach the cap of the back-off for the intervals used |
| `MaxFaults` (0 to 3) | crashes, errors, damage | every fault can strike at every step; pairs for the repository, and for the console three, so that a resume is given up; one for the payload, whose faults are damage to an inode, a file cut at its source, an error |
| `Attempts` (1, 2) | `verification_attempts` | last attempt and not the last |
| `Interval`, `Retry` (2 or 3, 1) | delays in units | a retry shorter than the interval, a deadline that is running or reached |
| `MaxNames` (4), `MaxSlots` (2) | names, snapshots ever given | more than `Keep` + 1, so rotation has a choice; for the payload a snapshot and the one that links into it, which also rotates it away (`Keep` = 1) |
| `Keep` (2; 1 for the payload) | `keep_snapshots` | 2 lets rotation choose with four names |
| `MaxFailed` (1) | `max_failed_snapshots` | below and at the cap |
| `Procs` (2) | processes | a watcher and a command |
| `MaxQueries` (1, 2) | save queries in a call | the first is too early, a later one is not |
| `MaxPipe` (4, 6) | commands in the FIFO | at least what one call sends, a hold, its queries and a resume, as in a pipe of 64 KiB. A refusal comes from a full FIFO, from a BDS that is down, or is a fault |
| `MaxLines` (4) | printed lines on their way | two answers to `save query`, two lines each |
| `MaxPieces` (5), `Half` (2) | pieces printed, pieces kept of each end | lengths below, at and above one half and two, with one piece lost in the gap |
| `Whole`, `Grown`, `Inodes` (1, 1, 5) | files and inodes | one file of each kind; two files in two snapshots, and one more for a cut |
| `MaxGen`, `MaxLen`, `MaxClock` (2, 2, 1) | writings, lengths, seconds | a file rewritten with the same length or another; in the same second or a later one |
| `Last` (3) | files the installer handles | a first, a middle and a last one when a step fails |
| `Timeouts`, `Durations` | values tried for a timeout, for a phase | the ends of each range and just outside, the defaults, the largest ones whose sum is accepted; a phase of no time, some time, its longest |
| `CutMax`, `HashMax` (200 and 10, or 5) | what the code leaves unbounded, see `StopWindow` | durations of 148, 149 and 200 seconds are tried: `CutBudget`, one more, and many more |

`Prompt = TRUE` says that BDS, while it runs, answers before a timeout is over
and before the caller comes back after a failure; `FALSE` says nothing of its
speed, and is used in the finding it leads to. With `TRUE` a BDS that is down
when a wait ends may still leave its lines to be stored, and errors of the FIFO
and the journal strike anywhere.

`LateAttach = TRUE` lets `journalctl` still be starting when the startup query
is answered (what the code permits); `FALSE` assumes it has attached by then,
and is used where the question is another one. `ClockBack = TRUE` lets the clock
give a name smaller than earlier ones.

The processes of `SnapshotRepository` are symmetric, and `repository` uses it:
no action tells them apart, and the run's temporal properties are action
properties that quantify over all processes. Deadlock is checked for the
watcher, the repository and the console, which may not stop by themselves (a
repository with no names left still runs `prune`). A validation, an installation
and a stop end, and the payload's bounded supply of snapshots and faults comes to
an end: their runs do not check it.

## 4. Runs

Passing:

| Run | Shows |
| --- | --- |
| `watcher_safety` | With two players, crashes, a damaged file, a lost journal and failing snapshots: the saved record always loads (`DiskLoadable`), players online are timed once the queue is empty (`PlayersAreTimed`), no retry is early (`RetryDeadlineRespected`), no deadline is extended (`DeadlineNeverExtended`), no cycle is closed or skipped without a verified snapshot (`CycleSpec`), and a cycle that did not end in a recovery backup ends only with a snapshot that shows all that was done (`OrdinaryEndIsCaptured`) |
| `watcher_live` | Under fairness: a signal ends the process (`Stops`), an owed snapshot is made (`PromiseKept`), an empty server leads to idle (`EventuallyIdle`), a busy one keeps being copied (`SnapshotsKeepComing`) |
| `repository` | Two processes, two attempts, two faults, a clock that steps back: trust is earned (`OnlyValidatedAreTrusted`), the link does not dangle, a returned snapshot is there, failed and verified snapshots are bounded, evidence is kept and diagnosed before it goes, rotation takes the oldest, the link moves to the newest, a reading command sees one state |
| `payload` | BDS writing and appending at any time it may, links, cuts, rotation, damage, crashes, rehearsals: a published snapshot is what BDS announced (`PublishedIsHeld`), an old one is never changed (`OldSnapshotsUntouched`), the verifier tells damage (`VerifierTellsDamage`), which is not linked on (`DamageIsNotInherited`), and a rehearsal that passes made the announced world (`RehearsalIsTruthful`) |
| `validator` | A server that prints, hangs, dies or leaves a descendant at any moment: a pass is earned by all that was printed (`PassedIsEarned`), the log is the output (`LogIsFaithful`), what survives was sent SIGKILL and failed (`SurvivorWasKilled`), and the validation ends (`Ends`) |
| `console` | With three faults anywhere: the world is copied only while saves are held and flushed (`HeldWhileCopied`), the caller goes on only when they are resumed (`ResumeConfirmed`), no failure leaves them held (`NotLeftHeld`), a count is one of now (`CountIsCurrent`). Under fairness every call ends (`CallsEnd`) and resumes what it holds (`HoldEnds`). A caller that is killed, or refused three times, is exempt from `NotLeftHeld` and `HoldEnds` |
| `stop_window` | Every configuration made of the timeouts tried: a hold under way at SIGTERM is resumed before SIGKILL, unless its cut took more than `CutBudget` (`HoldUnderWayIsResumed`) |
| `installer` | Any command fails, either service dies and is revived at any moment, every state of the services at the start: all of the new installation or all of the old, or the script says so (`AllOrNothing`); without `--restart` no server is stopped and the script starts nothing from new files (`ServerUntouchedWithoutRestart`). Exempt: a service systemd revived though the script had restarted nothing, and a rollback that an unguarded command ended |

Type invariants are theorems for every module with a proof module; one run
(`watcher_safety`) also checks one.

`RotationTakesOldest` and `LatestMovesToNewest` have the condition `OrderKnown`:
either the names follow the clock, or the accepted snapshots are one chain of
predecessors. A clock that stepped back and a damaged or removed snapshot in the
middle of the chain break both, and then `maintain` may move `latest` to an older snapshot and rotation may remove
one that is not the oldest, though `docs/design.md:46` says that the chain
decides the order.

Violations, each a place where the code does not do what its documents say:

| Run | What happens |
| --- | --- |
| `watcher_final_missed` (`IdleIsCaptured`) | Only a snapshot made for the reason PERIODIC is followed by a final one (`pkg/watcher.py:197`). If the last player leaves during a recovery snapshot, or a retried last-player-left one, after its copy, the cycle ends and what was done since is in no snapshot. `README.md:10` says the last player's leaving makes a final snapshot |
| `watcher_late_attach` (`PlayersAreTimed`) | `start` returns once `journalctl -f -n 0` is spawned (`pkg/watcher.py:125`). A player who joins after the startup query and before it follows is never seen. `README.md:7` says the first player starts the countdown |
| `console_late_answer` (`HeldWhileCopied`) | A ready line after the cursor counts as the answer, whoever asked (`pkg/console.py:104`). If BDS falls behind by more than the timeouts, the commands of a call that gave up are still unread when the next one takes its cursor: the answer to the old query starts the new copy and the old resume ends the hold in its middle. `docs/design.md:34` says the copy is made, and truncated, before saves are resumed. It needs no fault, only `Prompt = FALSE` |
| `stop_window_new_hold` (`NoHoldIsKilled`) | `create`'s loop over `verification_attempts` never looks at the watcher's `stopping` (`pkg/snapshot.py:638`). SIGTERM comes while the first attempt prepares; it begins its hold all the same, copies, resumes and is rejected after its validation, minutes later; the second attempt begins another hold late in the window, and SIGKILL finds it before its resume. `docs/design.md:43` says the bounds and the window keep a stop from killing the clean-up |

Three more, where the code and its documents differ and no run is spent; the
comments of `PassedIsEarned` and `AllOrNothing` say that they leave the last two
out:

* A periodic snapshot that succeeds and is followed by the final one does not
  reset `consecutive_failures` (`pkg/watcher.py:197`, `pkg/state.py:56`). If the
  final one fails, the count and the back-off go on from before the success;
  `README.md:37` calls them consecutive. In `ActivityState` it can be read off
  `RequireFinalBackup`.
* Each read of the isolated server's output is scanned together with the 512
  bytes before it (`pkg/snapshot.py:117`). A line of complaint that is longer and
  comes in two reads is in neither scan, and the validation passes, though
  `docs/design.md:52` says that repair, corruption and missing files in the log
  are hard failures. In `IsolatedValidator`: `started`, `half`, `half`.
* A watcher that dies while the installer's files are not the old ones is started
  again by systemd (`systemd/bedrock-activity-backup.service:10`). If the script
  has restarted nothing, its rollback stops nothing; it finds the watcher active,
  as it was (`scripts/install.sh:136-153`), and ends without a word while the
  watcher runs from files that were never installed. `scripts/install.sh:8` says
  that without `--restart` the new watcher is not started, `docs/design.md:40`
  that the running state is restored. In `Installer`: a failed `Install`, `Dies`,
  `Revive`, and the rollback to its end with `watcher = "revived"`.

## 5. Fairness

`FairSpec` of `Watcher` assumes weak fairness of the main thread, of time, of
`journalctl` attaching and of systemd's restart (`Restart=on-failure`,
`RestartSec=5` in the unit), and strong fairness of `TimerFires`: `Queue.get`
gives an event that is waiting before it times out, so the timer is taken only
when the queue is found empty at the deadline, and players coming and going fast
enough would starve it without. Nothing is assumed of players, signals, faults
or the operator. `MaxFailures` is what keeps `create` from failing for ever; the
liveness properties are about what follows once it succeeds. `Stopped` is
excepted: after an operator's stop only the operator starts the service.
Fairness of `SnapshotRepository`, `SnapshotPayload`, `StopWindow` and `Installer`
is not assumed, as nothing they promise is eventual.

`FairSpec` of `IsolatedValidator` assumes that `verify`'s thread runs, that a
deadline passes although pieces keep coming (weak fairness of each timeout by
itself: the code compares a clock in every turn of its loops), and that SIGKILL
ends a process. Nothing else is assumed of the server.

`FairSpec` of `BdsConsole` assumes weak fairness of a call's steps, of BDS
reading commands, flushing and (by systemd) coming back, and of journald. It does
not assume that anybody calls again: after a caller was killed with saves held
only another backup, or BDS stopping, frees them, and the watcher may be idle, or
stopped for good. `HoldEnds` therefore leaves such a caller out (`abandoned`), and
one whose three resumes were refused. The bound on faults is what keeps a BDS from
dying for ever.

## 6. Proofs

For every value of the constants that satisfies the named assumptions
(`DelaysAssumption`, `WatcherAssumption`, `RepositoryAssumption`,
`ConsoleAssumption`, `ValidatorAssumption`, `StopWindowAssumption`,
`InstallerAssumption`, `PayloadAssumption`, which state what `Config.validate`
enforces, that bounds are numbers, and which files are which):

* `WatcherProofs`. The inductive invariant joins the type invariant with
  `Mirror` (in each place the record in memory and the intact file agree, so a
  crash loses nothing that matters), `PhaseFitsPlace` (the phase is `BACKING_UP`
  exactly where a backup is under way), `NothingOwed` (nothing is owed when the
  file says idle, which needs to know what is owed at the places in between) and
  `Sound` (both records can be loaded). None of `DiskLoadable`,
  `DurablePromise` or the action properties is inductive alone: that a step from
  `decide` does not forget an owed snapshot depends on how the thread got there.
  From it follow `TypeCorrect`, `SavedStateIsLoadable`, `PromiseIsDurable`,
  `RetryDeadlineIsRespected`, `DeadlineIsNeverExtended` and, when `LateAttach =
  FALSE`, `OnlinePlayersAreTimed`. `WatcherKeepsCycle` is the refinement: with
  the same invariant, each action of `Watcher` maps to one of `ActivityCycle` or
  to a stutter. `OrdinaryEndCaptured` (also when `LateAttach = FALSE`) needs a
  second invariant, `CaughtInv`, about the whole final backup: from the count that
  found nobody to the save that ends the cycle, whoever joins leaves an event in
  the queue or the journal's end stands there, and nothing is taken from it. The
  backups it must leave out are told by the record: a retry has `failures > 0`,
  and what startup begins is a recovery or a retry
  (`StartupBackupsAreNotOrdinary`).
* `ActivityStateProofs` has the lemmas about each method they cite.
* `SnapshotRepositoryProofs`. The invariant says that a process away from `idle`
  has the lock (hence only one is), that its place fixes the state of the
  snapshot it works on, that what rotation is to remove is verified and neither
  the new snapshot nor the link's target, and that only validated names are
  verified, linked or built upon. From it follow `TypeCorrect`, `TrustIsEarned`,
  `LinkIsKept`, `ReturnedSnapshotIsThere`, `EvidenceIsKept`,
  `DiagnosticsComeFirst` and `ReadersSeeOne`. `FailedSamplesAreBounded` needs a
  second invariant that counts: samples at rest, plus one for each run cut
  short, plus the one the running attempt may keep. That `Head` returns a member
  of a non-empty set and `Smallest` a least element rests on `MinimalExists`, by
  well-foundedness of the strict subset relation on finite sets.
  `LinkMovesToTheNewest` and `RotationTakesTheOldest` rest on `OrderInv`, about
  three orders of the same snapshots, by name, by chain and by age:
  predecessors are older (`HistoryInv`), as long as the names follow the clock
  no snapshot's predecessor skips an older verified one (`NoneSkipped`), and what
  a rotation has still to remove has `Keep` younger snapshots among those that
  stay, or is off the chain in a repository with two heads, where they are
  younger if the names tell (`DoomedInv`). The lemmas it uses say that `Before`
  is a strict total order (`ChainIsALine`, `BeforeIsTotal`, `BeforeIsTransitive`,
  `BeforeIsStrict`), so that whatever has a rank of `Keep` or more has `Keep`
  others ahead of it (`KeepAhead`), and that removing any of them breaks no chain
  to a younger one. `VerifiedAreBounded` needs `BoundInv`: a step without a fault
  goes above the bound only by accepting the snapshot in the making, and its
  rotation makes that good; a fault raises the bound by one. For the rotation to
  do so, the two snapshots it spares must be among the `Keep` newest, which the
  invariant says of a repository without faults: there is one head (`OneHead`),
  the snapshot in the making follows it, becomes it when it is accepted, and
  `latest` names it before rotation begins (`HeadPlace`).
* `BdsConsoleProofs`. `TypeCorrect`, and `NeverLeftHeld` for a BDS of any
  promptness. `NotLeftHeld` speaks of an empty FIFO, so its invariant, `HoldInv`,
  must say what a FIFO that is not empty will do: away from the places between
  hold and resume, and unless a caller was lost, either saves are free and no
  hold is unread, or a resume is unread with no hold behind it. Lemmas follow
  these two through a command sent (`AppendKeepsNoHold`, `AppendKeepsResuming`)
  and a command read (`TailKeepsNoHold`, `TailKeepsResuming`,
  `TailAfterResume`). For a BDS that answers within the console's timeouts
  (`Prompt`, see section 3; the run `console_late_answer` shows why it is needed)
  `WorldIsHeldWhileCopied`, `ResumeIsConfirmed` and `CountIsOfThisCall`. Each says
  that a line the call reads is no earlier call's, and their common invariant
  (`PromptInv`) follows the commands to their lines: a call begins with nothing
  unread and nothing printed behind its cursor (`QuietStart`), sends nothing but
  the hold and queries until the resume (`HoldingInv`), has its hold before
  everything else in the FIFO (`ResumingInv`), and every number printed since its
  list is one there was since then (`CountingInv`).
* `IsolatedValidatorProofs`. Three invariants on top of the types. `ReadInv`
  says that what was consumed and what is in the pipe are all that was printed,
  and that a start or a complaint was noticed exactly if it was consumed.
  `VerdictInv` says what each place has established (an end of file and an exit
  are final once seen; a pass has no reason against it; a stage exists while a
  server may run). `KeepInv` says that `head` and `tail` are the first and the
  last `Half` of what was consumed. From them follow `CompletenessIsReal`,
  `PassIsEarned`, `SurvivorKilled` and `FaithfulLog`; the last is arithmetic on
  three cases of the length, for any `Half`.
* `StopWindowProofs`. The invariant (`Spent`) bounds the time spent at each phase
  of a hold that was under way when SIGTERM came by the sum of the phases before
  it, the cut counted by itself; `HoldIsResumed` follows, for any `CutMax`, since
  the sum of all the others leaves `CutBudget` of the window for every
  configuration with `ready + resume + list <= 120`.
* `InstallerProofs`. The invariant says, for each step, what the installation has
  put in place when it begins (`Forward`), what the rollback has restored as long
  as it believes that all went well (`Backward`), and that the script starts no
  service before the restart (`Services`). From it follow
  `TypeCorrect`, `NothingIsHalfDone` and `ServerIsLeftAlone`, for any number of
  files, with services that die and come back at any step.
* `SnapshotPayloadProofs`. A published snapshot is what was announced only
  because rsync's quick check is right about the files BDS writes as a whole,
  and that rests on times: `Times` says that an inode as old as a whole file's
  last write has that write's content, `StillHeld` that a held file is still
  the one announced or a part of it, `Stats` carries both into rsync's list,
  and `Candidate` into the entries made so far. `Complete` and `Summed` follow
  for published snapshots and their checksums, `Rehearsed` for the rehearsal,
  `DamageKnown` for damage in the candidate and in the snapshot it links into.
  What an action does to the shared inodes is said once (`PutNewDoes`,
  `RemoveDoes`, `EntryAdded`). From the invariant follow `TypeCorrect`,
  `PublishedIsWhatWasHeld`, `VerifierIsRight`, `DamageStaysBehind`,
  `RehearsalTellsTheTruth` and `OldSnapshotsAreUntouched`, under the assumption
  about BDS in the guard of `Rewrite`: at most one writing in a second.

Only model-checked: liveness, which is out of the prover's reach with everything
that needs ENABLED (`Stops`, `PromiseKept`, `EventuallyIdle`, `SnapshotsKeepComing`,
`Ends`, `HoldEnds`, `CallsEnd`); and the violations. Every other property of a
passing run is a theorem.

## 7. Not modelled

* `_join_journal_records`: a line of the journal is whole or not there. Joining
  is work on character positions, and what the properties tell apart is a line.
* `queue.Queue`'s mutex. The signal handler calls `put` on the thread that may
  hold it inside `get`; whether that blocks is a matter of CPython, which is not
  in the repository. In `Watcher` a signal is an event of its own.
* A wall clock that steps while the watcher waits: `Watcher` measures the time
  left. (A clock that steps back between snapshots is `ClockBack`.)
* `query-players` as a second caller of the console, at the same time as the
  watcher. It takes no lock, neither holds nor resumes, and may read the
  watcher's answers.
* `SnapshotVerifier`'s checks of a manifest's form and of owners and modes, the
  restore plan (it verifies, hashes and prints), the wording of `status`, of
  errors and of the run record: data and output without state of their own. The
  space budget is a failure that may happen.
* `Config`, beyond the bounds `StopWindow` and the assumptions use: names and
  paths.
* The sandboxing of the systemd units, and the restart policy of the server's
  own unit, which is not in the repository: in `Watcher`, `BdsConsole` and
  `Installer` the server comes back, or does not, as it likes. `HoldEnds` and
  `CallsEnd` assume that it does.
