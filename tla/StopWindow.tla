------------------------------ MODULE StopWindow -----------------------------
(***************************************************************************)
(* Stopping the watcher while it makes a snapshot: the time a hold may     *)
(* take under any configuration Config.validate accepts (config.py), the   *)
(* phases of SnapshotManager.create with the timeouts of console.py and    *)
(* snapshot.py, and the unit's stop window (TimeoutStopSec).  Time is      *)
(* counted in seconds from SIGTERM; only what is left of the phase the     *)
(* signal finds matters.                                                   *)
(***************************************************************************)
EXTENDS Integers

CONSTANTS
  Timeouts,   \* the values tried for the configured timeouts
  Durations,  \* the durations tried for a phase, besides its longest
  CutMax,     \* bound: cutting and syncing the copy, which the code does not bound
  HashMax     \* bound: reading snapshots for their checksums, the same

ASSUME StopWindowAssumption ==
  /\ Timeouts \subseteq Int /\ Durations \subseteq Nat
  /\ CutMax \in Nat /\ HashMax \in Nat

Window == 600           \* TimeoutStopSec
JournalTimeout == 10    \* one call of journalctl or systemctl
RsyncTimeout == 300
ShutdownTimeout == 25   \* the isolated server: 15 to stop, 5 and 5 to be killed
ResumeRetries == 2      \* two delays of a second between three sends

\* MUTANT: the sum of the console's timeouts is not bounded.
Valid_Sum(c) == TRUE

\* The console's timeouts must leave room in the stop window.
SumLimit == 120
Valid(c) == c.ready + c.resume + c.list <= SumLimit

\* Config.validate.
Configs ==
  {c \in [ready : Timeouts \cap 1..300, resume : Timeouts \cap 1..300,
          list : Timeouts \cap 1..300, verification : Timeouts \cap 1..300,
          attempts : 1..3] : Valid(c)}

VARIABLES
  config,
  phase,     \* where the watcher's thread is
  attempt,   \* of the snapshot under way
  spent,     \* seconds since SIGTERM; Running before it
  failure,   \* "error": what is under way ends in an exception
  late,      \* the hold of this attempt began after SIGTERM
  cut,       \* seconds after SIGTERM that went into cutting and syncing
  killedIn   \* the phase SIGKILL found

vars == <<config, phase, attempt, spent, failure, late, cut, killedIn>>

Running == -1
Held == {"hold", "copy", "cut", "resume"}   \* save hold is sent, save resume perhaps not
Phases == {"loop", "query", "before"} \cup Held \cup {"validate", "stopped", "killed"}

TypeOK ==
  /\ config \in Configs
  /\ phase \in Phases
  /\ attempt \in 0..3
  /\ spent \in -1..Window
  /\ failure \in {"none", "error"}
  /\ late \in BOOLEAN
  /\ cut \in 0..Window
  /\ killedIn \in Phases \cup {"none"}

Init ==
  /\ config \in Configs
  /\ phase = "loop" /\ attempt = 0 /\ spent = Running
  /\ failure = "none" /\ late = FALSE /\ cut = 0 /\ killedIn = "none"

\* The longest each phase takes.  A deadline is checked before each call of
\* journalctl, which may start just before it; resume takes a cursor first,
\* and its wait sleeps once more after its last look.
Longest == [
  loop     |-> 0,
  query    |-> JournalTimeout + JournalTimeout + config.list + JournalTimeout + 1,
  before   |-> 2 * JournalTimeout + HashMax,
  hold     |-> config.ready + JournalTimeout,
  copy     |-> RsyncTimeout,
  cut      |-> CutMax,
  resume   |-> JournalTimeout + ResumeRetries + config.resume + JournalTimeout + 1,
  validate |-> config.verification + ShutdownTimeout + HashMax,
  stopped  |-> 0,
  killed   |-> 0]

------------------------------------------------------------------------------
\* The phase takes d more seconds and ends inside the window.
Takes(p) ==
  /\ phase = p
  /\ \E d \in (Durations \cap 0..Longest[p]) \cup {Longest[p]} :
       IF spent = Running THEN UNCHANGED spent
       ELSE spent + d <= Window /\ spent' = spent + d
  /\ UNCHANGED <<config, killedIn>>

\* while not self.stopping: a deadline falls due, or a player leaves (and, at
\* the start, before the loop: how many are online?).
Due ==
  /\ phase = "loop" /\ spent = Running
  /\ \/ phase' = "query" /\ UNCHANGED attempt
     \/ phase' = "before" /\ attempt' = 1
  /\ UNCHANGED <<config, spent, failure, late, cut, killedIn>>

\* A query that was under way when `stopping' was set may still be answered,
\* and begin a snapshot; or it is none that does.
Query ==
  /\ Takes("query")
  /\ \/ phase' = "before" /\ attempt' = 1
     \/ phase' = "loop" /\ UNCHANGED attempt
  /\ UNCHANGED <<failure, late, cut>>

LoopEnds ==
  /\ phase = "loop" /\ spent # Running
  /\ phase' = "stopped"
  /\ UNCHANGED <<config, attempt, spent, failure, late, cut, killedIn>>

\* create is over.
Leave(place) ==
  phase' = place /\ attempt' = 0 /\ failure' = "none" /\ late' = FALSE

\* It raises; or it returns, and who is online now decides on a final snapshot,
\* but when stopping no query is begun.
Raise == Leave("loop")
Return == Leave(IF spent = Running THEN "query" ELSE "loop")

\* Space, checksums of the earlier snapshots, the journal's cursor.  create
\* never looks at `stopping'.
Before ==
  /\ Takes("before") /\ UNCHANGED cut
  /\ \/ phase' = "hold" /\ late' = (spent # Running) /\ UNCHANGED <<attempt, failure>>
     \/ Raise

\* Ready, or the query gives up: the finally block resumes.
Hold ==
  /\ Takes("hold")
  /\ \/ phase' = "copy" /\ UNCHANGED failure
     \/ phase' = "resume" /\ failure' = "error"
  /\ UNCHANGED <<attempt, late, cut>>

Copy ==
  /\ Takes("copy")
  /\ \/ phase' = "cut" /\ UNCHANGED failure
     \/ phase' = "resume" /\ failure' = "error"
  /\ UNCHANGED <<attempt, late, cut>>

Cut ==
  /\ Takes("cut")
  /\ phase' = "resume" /\ failure' \in {"none", "error"}
  /\ cut' = spent' - spent
  /\ UNCHANGED <<attempt, late>>

\* save resume was sent and confirmed, or the wait gave up; an error leaves create.
Resume ==
  /\ Takes("resume") /\ UNCHANGED cut
  /\ \/ /\ failure = "none" /\ phase' = "validate" /\ late' = FALSE
        /\ UNCHANGED <<attempt, failure>>
     \/ Raise

\* The isolated server passes it, or a further attempt follows at once.
Validate ==
  /\ Takes("validate") /\ UNCHANGED cut
  /\ \/ failure = "none" /\ Return
     \/ IF attempt < config.attempts
        THEN phase' = "before" /\ attempt' = attempt + 1 /\ failure' = "none" /\ UNCHANGED late
        ELSE Raise

\* SIGTERM: stop() sets a flag.  systemd signals every process of the unit: a
\* child that runs dies with the signal, and its phase ends in an error.
Terminate ==
  /\ spent = Running /\ phase # "stopped"
  /\ spent' = 0
  /\ \/ UNCHANGED <<phase, attempt, failure, late>>
     \/ phase \in {"query", "before"} /\ Raise
     \/ phase \in {"hold", "copy"} /\ phase' = "resume" /\ failure' = "error"
        /\ UNCHANGED <<attempt, late>>
     \/ phase \in {"resume", "validate"} /\ failure' = "error"
        /\ UNCHANGED <<phase, attempt, late>>
  /\ UNCHANGED <<config, cut, killedIn>>

\* SIGKILL at the end of the window finds a phase that is not over.
Kill ==
  /\ spent # Running /\ phase \notin {"stopped", "killed"}
  /\ spent + Longest[phase] > Window
  /\ phase' = "killed" /\ killedIn' = phase
  /\ cut' = IF phase = "cut" THEN Window - spent ELSE cut
  /\ UNCHANGED <<config, attempt, spent, failure, late>>

Next ==
  \/ Due \/ Query \/ LoopEnds \/ Before \/ Hold \/ Copy \/ Cut \/ Resume \/ Validate
  \/ Terminate \/ Kill

Spec == Init /\ [][Next]_vars

------------------------------------------------------------------------------
\* What the longest of all accepted configurations leaves of the window for
\* cutting and syncing: 148 seconds.
CutBudget ==
  Window - (JournalTimeout + RsyncTimeout)
         - (JournalTimeout + ResumeRetries + JournalTimeout + 1) - (SumLimit - 1)

\* A hold that is under way when SIGTERM arrives is resumed before SIGKILL,
\* under every configuration Config.validate accepts, unless cutting and syncing
\* its copy takes more than CutBudget of the window by itself: the code bounds
\* neither.  Of a hold that begins after SIGTERM (late) this says nothing.
HoldUnderWayIsResumed == killedIn \in Held /\ ~late => cut > CutBudget

\* VIOLATED.  design.md, handled fault 15: bounding the timeouts and a window of
\* 600 seconds keep the stop timeout from killing the clean-up that resumes saves.
NoHoldIsKilled == killedIn \notin Held
=============================================================================
