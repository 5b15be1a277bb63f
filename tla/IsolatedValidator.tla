--------------------------- MODULE IsolatedValidator ---------------------------
(***************************************************************************)
(* IsolatedBdsValidator.verify (snapshot.py): boot a copy of a snapshot,    *)
(* read what the server prints, tell it to stop, read to the end, and      *)
(* judge.                                                                  *)
(*                                                                         *)
(* The server is external: it prints, hangs, dies, closes its output early *)
(* or leaves a descendant that holds the pipe open, whenever it likes.     *)
(* Deadlines are not counted: one may pass whenever the code waits for it. *)
(* A piece is what one read returns, all of one size: it says that the     *)
(* server has started, that LevelDB complained, half of such a complaint,  *)
(* or none of these.                                                       *)
(***************************************************************************)
EXTENDS Integers, Sequences

CONSTANTS
  MaxPieces,   \* bound: pieces of output printed in one validation
  Half         \* how many pieces validation.log keeps of each end (32 KiB)

ASSUME ValidatorAssumption == MaxPieces \in Nat /\ Half \in Nat \ {0}

VARIABLES
  \* verify's thread
  pc,        \* where it is
  began,     \* startup_grace_deadline is not None
  ready,     \* startup_ready
  complaint, \* leveldb_failure
  eof,       \* eof of the running _drain_until_exit
  head, tail, total,           \* the output kept, and how much there was
  verdict, reason, complete,   \* result, "reason" in it, output_complete
  stage,     \* the staging directory
  log,       \* validation.log: <<>> while it is not written
  \* The server
  child,     \* "none", "alive", "exited"
  code,      \* its exit status
  signal,    \* the strongest signal sent to it
  writers,   \* who holds the write end of its output: it, a descendant
  pipe,      \* printed and not read yet
  printed    \* observation: everything printed

reader == <<pc, began, ready, complaint, eof, head, tail, total,
            verdict, reason, complete, stage, log>>
server == <<child, code, signal, writers, pipe, printed>>
vars == <<reader, server>>

\* "half" is half of a line of complaint too long for the 512 bytes that consume
\* carries over from one read to the next: two in a row are the whole line.
Pieces == {"started", "complaint", "half", "other"}

Places ==
  {"space", "runtime", "spawn", "startup", "stop", "drain", "judge",
   "terminate", "drain_terminated", "kill", "drain_killed", "cleanup", "log", "done"}

\* _drain_until_exit runs after the stop, after SIGTERM and after SIGKILL.
Draining == {"drain", "drain_terminated", "drain_killed"}

\* The output kept is bounded: verbose packs exhaust neither memory nor disk.
TypeOK ==
  /\ pc \in Places
  /\ began \in BOOLEAN /\ ready \in BOOLEAN /\ complaint \in BOOLEAN /\ eof \in BOOLEAN
  /\ head \in Seq(Pieces) /\ Len(head) <= Half
  /\ tail \in Seq(Pieces) /\ Len(tail) <= Half
  /\ total \in Nat
  /\ verdict \in {"failed", "passed"}
  /\ reason \in BOOLEAN /\ complete \in BOOLEAN
  /\ stage \in {"none", "there", "partial", "removed"}
  /\ log \in Seq(Pieces \cup {"truncated"})
  /\ child \in {"none", "alive", "exited"}
  /\ code \in {0, 1}
  /\ signal \in {"none", "term", "kill"}
  /\ writers \subseteq {"server", "descendant"}
  /\ pipe \in Seq(Pieces) /\ printed \in Seq(Pieces)

Init ==
  /\ pc = "space"
  /\ began = FALSE /\ ready = FALSE /\ complaint = FALSE /\ eof = FALSE
  /\ head = <<>> /\ tail = <<>> /\ total = 0
  /\ verdict = "failed" /\ reason = FALSE /\ complete = FALSE
  /\ stage = "none" /\ log = <<>>
  /\ child = "none" /\ code = 0 /\ signal = "none"
  /\ writers = {} /\ pipe = <<>> /\ printed = <<>>

------------------------------------------------------------------------------
(***************************************************************************)
(* The server.                                                             *)
(***************************************************************************)
WriteOutput(piece) ==
  /\ writers # {}
  /\ Len(printed) < MaxPieces
  /\ pipe' = Append(pipe, piece)
  /\ printed' = Append(printed, piece)
  /\ UNCHANGED <<reader, child, code, signal, writers>>

\* It ends: told to, by itself, by a crash or by a signal, which it may catch.
Exit ==
  /\ child = "alive"
  /\ child' = "exited"
  /\ code' \in IF signal = "kill" THEN {1} ELSE {0, 1}
  /\ writers' = writers \ {"server"}
  /\ UNCHANGED <<reader, signal, pipe, printed>>

\* An end of the pipe is closed, by a running server or by the descendant.
CloseOutput(writer) ==
  /\ writer \in writers
  /\ writers' = writers \ {writer}
  /\ UNCHANGED <<reader, child, code, signal, pipe, printed>>

------------------------------------------------------------------------------
(***************************************************************************)
(* verify: preparation and startup.                                        *)
(***************************************************************************)
Goto(place) == pc' = place

\* An exception before the server runs: there is nothing to shut down.
Unprepared ==
  /\ reason' = TRUE
  /\ Goto("cleanup")

\* The network namespace and the disk space are checked, the stage is made.
CheckSpace ==
  /\ pc = "space"
  /\ \/ Goto("runtime") /\ stage' = "there" /\ UNCHANGED reason
     \/ Unprepared /\ UNCHANGED stage
  /\ UNCHANGED <<began, ready, complaint, eof, head, tail, total, verdict, complete,
                 log, server>>

\* _copy_runtime: the server's runtime, then the snapshot's world and settings.
CopyRuntime ==
  /\ pc = "runtime"
  /\ \/ Goto("spawn") /\ UNCHANGED reason
     \/ Unprepared
  /\ UNCHANGED <<began, ready, complaint, eof, head, tail, total, verdict, complete,
                 stage, log, server>>

Spawn ==
  /\ pc = "spawn"
  /\ \/ /\ Goto("startup")
        /\ child' = "alive"
        /\ writers' \in {{"server"}, {"server", "descendant"}}
        /\ UNCHANGED reason
     \/ Unprepared /\ UNCHANGED <<child, writers>>
  /\ UNCHANGED <<began, ready, complaint, eof, head, tail, total, verdict, complete,
                 stage, log, code, signal, pipe, printed>>

Last(s, n) == IF Len(s) <= n THEN s ELSE SubSeq(s, Len(s) - n + 1, Len(s))

\* consume: the ends of the output are kept, and each read is scanned together with
\* the last 512 bytes before it; two halves are never seen as one line.
Consume ==
  /\ pipe # <<>>
  /\ pipe' = Tail(pipe)
  /\ total' = total + 1
  /\ head' = IF Len(head) < Half THEN Append(head, Head(pipe)) ELSE head
  /\ tail' = Last(Append(tail, Head(pipe)), Half)
  /\ complaint' = (complaint \/ Head(pipe) = "complaint")

NothingRead == UNCHANGED <<pipe, total, head, tail, complaint>>

\* One turn of the startup loop that does not end it.
ReadStartup ==
  /\ pc = "startup" /\ child = "alive"
  /\ Consume /\ ~complaint'
  /\ began' = (began \/ Head(pipe) = "started")
  /\ UNCHANGED <<pc, ready, eof, verdict, reason, complete, stage, log,
                 child, code, signal, writers, printed>>

\* One that raises: LevelDB complained, or the server has exited.
StartupRaises ==
  /\ pc = "startup"
  /\ \/ Consume /\ (complaint' \/ child = "exited")
     \/ NothingRead /\ child = "exited"
  /\ reason' = TRUE
  /\ Goto("stop")
  /\ UNCHANGED <<began, ready, eof, verdict, complete, stage, log,
                 child, code, signal, writers, printed>>

\* The last one: a second has passed since "Server started.".
StartupReady ==
  /\ pc = "startup" /\ child = "alive"
  /\ began
  /\ (Consume /\ ~complaint') \/ NothingRead
  /\ ready' = TRUE
  /\ Goto("stop")
  /\ UNCHANGED <<began, eof, verdict, reason, complete, stage, log,
                 child, code, signal, writers, printed>>

\* verification_timeout_seconds are over.
StartupTimesOut ==
  /\ pc = "startup"
  /\ reason' = TRUE
  /\ Goto("stop")
  /\ UNCHANGED <<began, ready, complaint, eof, head, tail, total, verdict, complete,
                 stage, log, server>>

------------------------------------------------------------------------------
(***************************************************************************)
(* verify: shutdown and judgement.                                         *)
(***************************************************************************)

\* _drain_until_exit begins.
Drain(place) == Goto(place) /\ eof' = FALSE

\* An exception of the shutdown: nothing turns the candidate into a success.
ShutdownRaises ==
  /\ verdict' = "failed" /\ reason' = TRUE
  /\ Goto("terminate")

\* "stop" is written to a running server; the pipe may break.
TellToStop ==
  /\ pc = "stop"
  /\ \/ Drain("drain") /\ UNCHANGED <<verdict, reason>>
     \/ child = "alive" /\ ShutdownRaises /\ UNCHANGED eof
  /\ UNCHANGED <<began, ready, complaint, head, tail, total, complete, stage, log, server>>

DrainRead ==
  /\ pc \in Draining /\ ~eof
  /\ Consume
  /\ UNCHANGED <<pc, began, ready, eof, verdict, reason, complete, stage, log,
                 child, code, signal, writers, printed>>

DrainEof ==
  /\ pc \in Draining /\ ~eof
  /\ pipe = <<>> /\ writers = {}
  /\ eof' = TRUE
  /\ UNCHANGED <<pc, began, ready, complaint, head, tail, total, verdict, reason,
                 complete, stage, log, server>>

\* MUTANT: an exited server is enough.
Drained_Exited == child = "exited"

\* Both are required: the end of the output and the exit.
Drained == eof /\ child = "exited"

DrainEnds ==
  /\ pc = "drain" /\ Drained
  /\ Goto("judge")
  /\ complete' = TRUE
  /\ UNCHANGED <<began, ready, complaint, eof, head, tail, total, verdict, reason,
                 stage, log, server>>

DrainTimesOut ==
  /\ pc = "drain"
  /\ ShutdownRaises
  /\ UNCHANGED <<began, ready, complaint, eof, head, tail, total, complete, stage, log, server>>

\* A bad exit status raises, unless a reason is known; a candidate without a
\* reason and without a complaint passes.
Judge ==
  /\ pc = "judge"
  /\ \/ /\ code # 0 /\ ~reason
        /\ ShutdownRaises
     \/ /\ code = 0 \/ reason
        /\ verdict' = IF ready /\ ~reason /\ ~complaint THEN "passed" ELSE verdict
        /\ Goto("cleanup")
        /\ UNCHANGED reason
  /\ UNCHANGED <<began, ready, complaint, eof, head, tail, total, complete, stage, log, server>>

DrainAfter == [terminate |-> "drain_terminated", kill |-> "drain_killed"]
SignalAt == [terminate |-> "term", kill |-> "kill"]

\* MUTANT: only SIGTERM is tried.
SendSignal_TermOnly ==
  /\ pc \in DOMAIN DrainAfter
  /\ signal' = IF child = "alive" THEN "term" ELSE signal
  /\ Drain(DrainAfter[pc])
  /\ UNCHANGED <<began, ready, complaint, head, tail, total, verdict, reason, complete,
                 stage, log, child, code, writers, pipe, printed>>

\* terminate, then kill, if the server still runs; the output is read on.
SendSignal ==
  /\ pc \in DOMAIN DrainAfter
  /\ \/ child = "alive" /\ signal' = SignalAt[pc]
     \/ child # "alive" /\ UNCHANGED signal
  /\ Drain(DrainAfter[pc])
  /\ UNCHANGED <<began, ready, complaint, head, tail, total, verdict, reason, complete,
                 stage, log, child, code, writers, pipe, printed>>

\* The drain after a signal ends; if it does not in time, the next is tried.
ForcedDrainEnds ==
  /\ pc \in {"drain_terminated", "drain_killed"}
  /\ \/ /\ Drained
        /\ complete' = TRUE
        /\ Goto("cleanup")
     \/ /\ UNCHANGED complete
        /\ \/ pc = "drain_terminated" /\ Goto("kill")
           \/ pc = "drain_killed" /\ Goto("cleanup")
  /\ UNCHANGED <<began, ready, complaint, eof, head, tail, total, verdict, reason,
                 stage, log, server>>

------------------------------------------------------------------------------
(***************************************************************************)
(* verify: cleanup and diagnostics.                                        *)
(***************************************************************************)

\* The streams are closed; a complaint decides; a running server keeps its stage,
\* otherwise the stage is removed, which may fail half-way.
Cleanup ==
  /\ pc = "cleanup"
  /\ \/ /\ stage = "none" \/ child = "alive"
        /\ UNCHANGED stage
     \/ /\ stage = "there" /\ child # "alive"
        /\ stage' \in {"removed", "partial"}
  /\ verdict' = IF complaint \/ child = "alive" \/ stage' = "partial"
                THEN "failed" ELSE verdict
  /\ reason' = (reason \/ complaint \/ stage' = "partial")
  /\ Goto("log")
  /\ UNCHANGED <<began, ready, complaint, eof, head, tail, total, complete, log, server>>

\* MUTANT: what both ends hold is written twice.
Transcript_Overlap ==
  IF total <= Half THEN head
  ELSE IF total <= 2 * Half THEN head \o tail
  ELSE head \o <<"truncated">> \o tail

\* What is kept of the output.
Transcript ==
  IF total <= Half THEN head
  ELSE IF total <= 2 * Half THEN head \o Last(tail, total - Half)
  ELSE head \o <<"truncated">> \o tail

\* validation.log is replaced; a failure to write it fails the validation.
WriteLog ==
  /\ pc = "log"
  /\ \/ log' = Transcript /\ UNCHANGED <<verdict, reason>>
     \/ verdict' = "failed" /\ reason' = TRUE /\ UNCHANGED log
  /\ Goto("done")
  /\ UNCHANGED <<began, ready, complaint, eof, head, tail, total, complete, stage, server>>

Verify ==
  \/ CheckSpace \/ CopyRuntime \/ Spawn
  \/ ReadStartup \/ StartupRaises \/ StartupReady \/ StartupTimesOut
  \/ TellToStop \/ DrainRead \/ DrainEof \/ DrainEnds \/ DrainTimesOut
  \/ Judge \/ SendSignal \/ ForcedDrainEnds \/ Cleanup \/ WriteLog

Server ==
  \/ \E piece \in Pieces : WriteOutput(piece)
  \/ Exit
  \/ \E writer \in {"server", "descendant"} : CloseOutput(writer)

Next == Verify \/ Server

Spec == Init /\ [][Next]_vars

(***************************************************************************)
(* Fairness.  The code's thread runs, and the clock: a wait that goes on    *)
(* passes its deadline, whatever is printed meanwhile.  The server promises *)
(* nothing, but SIGKILL ends it.                                            *)
(***************************************************************************)
FairSpec ==
  /\ Spec
  /\ WF_vars(Verify)
  /\ WF_vars(StartupTimesOut) /\ WF_vars(DrainTimesOut) /\ WF_vars(ForcedDrainEnds)
  /\ WF_vars(Exit /\ signal = "kill")

------------------------------------------------------------------------------
(***************************************************************************)
(* Properties.                                                             *)
(***************************************************************************)
Ended == pc = "done"

\* README, "the isolated BDS really loaded the world, its log was drained to EOF, it
\* exited with 0, and no stage showed a sign of LevelDB trouble": a passed validation
\* says this of everything the server and its descendants ever printed, read or not,
\* before or after the stop, and no signal helped it to leave.  It speaks of the
\* complaints that one scan can see (consume): two halves of one pass.
PassedIsEarned ==
  Ended /\ verdict = "passed" =>
    /\ \E i \in DOMAIN printed : printed[i] = "started"
    /\ \A i \in DOMAIN printed : printed[i] # "complaint"
    /\ writers = {}
    /\ child = "exited" /\ code = 0 /\ signal = "none"
    /\ stage = "removed"

\* output_complete says that the log is of the whole output: nothing is left in the
\* pipe and nobody can still write (_drain_until_exit).
CompleteIsComplete == complete => pipe = <<>> /\ writers = {} /\ total = Len(printed)

\* validation.log shows the output as it was, whole if it fits in two halves, else its
\* first and its last half (verify, lines 230-235).
LogIsFaithful ==
  Ended /\ complete /\ log # <<>> =>
    IF total <= 2 * Half THEN log = printed
    ELSE log = SubSeq(printed, 1, Half) \o <<"truncated">> \o Last(printed, Half)

\* A server or a stage that outlives the validation is the exception: SIGKILL was sent,
\* and the validation has failed (verify, the loop over terminate and kill, and lines 214-216).
SurvivorWasKilled ==
  Ended /\ (child = "alive" \/ stage = "there") => signal = "kill" /\ verdict = "failed"

\* A validation ends, with a server that never exits, never closes its output or
\* never stops printing; and no server outlives it for good.
Ends == <>(Ended /\ child # "alive")
==============================================================================
