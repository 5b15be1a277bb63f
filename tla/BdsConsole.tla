------------------------------ MODULE BdsConsole ------------------------------
(***************************************************************************)
(* The console (console.py): list, and hold / query / resume around a copy *)
(* of the world, over a FIFO that BDS reads and the journal BDS writes.    *)
(*                                                                         *)
(* BDS and journald are external: they take commands in order, whenever    *)
(* they get to it, and a printed line reaches the journal later.  A        *)
(* journal cursor is kept as the lines that came after it.                 *)
(***************************************************************************)
EXTENDS Integers, Sequences

CONSTANTS
  MaxPlayers,   \* bound: players online together
  MaxQueries,   \* bound: save queries before ready_timeout_seconds are over
  MaxPipe,      \* what the FIFO holds, in commands
  MaxLines,     \* bound: lines BDS has printed that are on their way
  MaxFaults,    \* bound: crashes, failed reads of the journal, failed writes
  Prompt        \* TRUE if BDS answers within the timeouts, and before a caller
                \* comes back after a failure

ASSUME ConsoleAssumption ==
  /\ MaxPlayers \in Nat /\ MaxPipe \in Nat /\ MaxLines \in Nat /\ MaxFaults \in Nat
  /\ MaxQueries \in Nat \ {0}
  /\ Prompt \in BOOLEAN

\* _RESUME_SEND_ATTEMPTS
ResumeAttempts == 3

VARIABLES
  \* The console's caller
  pc,         \* where the call is
  journal,    \* lines in the journal after the last cursor taken
  queries,    \* save queries sent
  tries,      \* failed attempts to send save resume
  confirm,    \* resume_cursor is not None
  sound,      \* no exception so far between hold and resume
  count,      \* the answer of query_player_count
  \* BDS and journald
  up, fifo, output,  \* BDS runs; commands it has not read; lines on their way
  save,       \* "free", "saving" (held, not flushed yet), "ready" (held and flushed)
  players,    \* how many players are online
  \* Bounds and observation
  faults,     \* faults spent
  restarted,  \* BDS restarted since the call began
  abandoned,  \* a caller was killed, or gave up sending, with BDS perhaps held
  since       \* every number of players there was since the call began

caller == <<pc, journal, queries, tries, confirm, sound, count>>
server == <<up, fifo, output, save, players>>
observed == <<faults, restarted, abandoned, since>>
vars == <<caller, server, observed>>

Commands == {"list", "save hold", "save query", "save resume"}

\* "Data saved. ...", the list of files after it, "Changes to the world are
\* resumed.", "There are n/m players online:".
Line(text) == [text |-> text, count |-> 0]
Lines == {Line("ready"), Line("files"), Line("resumed")}
         \cup [text : {"players"}, count : 0..MaxPlayers]

Places ==
  {"idle", "list_cursor", "list", "list_wait", "counted",
   "hold_cursor", "hold", "query", "read", "copy",
   "resume_cursor", "resume", "resume_wait", "paused"}

TypeOK ==
  /\ pc \in Places
  /\ journal \in Seq(Lines)
  /\ queries \in 0..MaxQueries /\ tries \in 0..ResumeAttempts
  /\ confirm \in BOOLEAN /\ sound \in BOOLEAN
  /\ count \in 0..MaxPlayers
  /\ up \in BOOLEAN /\ fifo \in Seq(Commands) /\ output \in Seq(Lines)
  /\ save \in {"free", "saving", "ready"}
  /\ players \in 0..MaxPlayers
  /\ faults \in Nat
  /\ restarted \in BOOLEAN /\ abandoned \in BOOLEAN
  /\ since \subseteq 0..MaxPlayers

Init ==
  /\ pc = "idle" /\ journal = <<>> /\ queries = 0 /\ tries = 0
  /\ confirm = FALSE /\ sound = TRUE /\ count = 0
  /\ up = TRUE /\ fifo = <<>> /\ output = <<>> /\ save = "free" /\ players = 0
  /\ faults = 0 /\ restarted = FALSE /\ abandoned = FALSE /\ since = {}

------------------------------------------------------------------------------
(***************************************************************************)
(* BDS and journald.                                                       *)
(***************************************************************************)

\* Everything sent has been answered, in the journal.
Quiet == fifo = <<>> /\ output = <<>>

\* Time enough has passed for a timeout or for another call.
Late == Prompt /\ up => Quiet

NoHoldIn(commands) == \A i \in DOMAIN commands : commands[i] # "save hold"

\* BDS takes the next command, and prints its answer.
Take(command) ==
  /\ up /\ fifo # <<>> /\ Head(fifo) = command
  /\ fifo' = Tail(fifo)

Prints(lines) ==
  /\ Len(output) + Len(lines) <= MaxLines
  /\ output' = output \o lines

ExecuteList ==
  /\ Take("list")
  /\ Prints(<<[text |-> "players", count |-> players]>>)
  /\ UNCHANGED <<caller, up, save, players, observed>>

\* The flush of the world begins, unless it is held already.
ExecuteHold ==
  /\ Take("save hold")
  /\ save' = IF save = "free" THEN "saving" ELSE save
  /\ UNCHANGED <<caller, up, output, players, observed>>

\* Ready or not; what BDS prints when it is not changes nothing in the code.
ExecuteQuery ==
  /\ Take("save query")
  /\ \/ save = "ready" /\ Prints(<<Line("ready"), Line("files")>>)
     \/ save # "ready" /\ UNCHANGED output
  /\ UNCHANGED <<caller, up, save, players, observed>>

ExecuteResume ==
  /\ Take("save resume")
  /\ Prints(<<Line("resumed")>>)
  /\ save' = "free"
  /\ abandoned' = (abandoned /\ ~NoHoldIn(fifo'))
  /\ UNCHANGED <<caller, up, players, faults, restarted, since>>

Execute == ExecuteList \/ ExecuteHold \/ ExecuteQuery \/ ExecuteResume

Flushed ==
  /\ up /\ save = "saving"
  /\ save' = "ready"
  /\ UNCHANGED <<caller, up, fifo, output, players, observed>>

\* journald stores the next line.
Stored ==
  /\ output # <<>>
  /\ output' = Tail(output)
  /\ journal' = Append(journal, Head(output))
  /\ UNCHANGED <<pc, queries, tries, confirm, sound, count, up, fifo, save, players, observed>>

PlayersChange ==
  /\ up
  /\ players' \in {players - 1, players + 1} \cap 0..MaxPlayers
  /\ since' = since \cup {players'}
  /\ UNCHANGED <<caller, up, fifo, output, save, faults, restarted, abandoned>>

\* BDS dies: its FIFO and its hold go with it, what it printed does not.
ServerDies ==
  /\ up
  /\ faults < MaxFaults /\ faults' = faults + 1
  /\ up' = FALSE /\ fifo' = <<>> /\ save' = "free" /\ players' = 0
  /\ since' = since \cup {0}
  /\ restarted' = TRUE /\ abandoned' = FALSE
  /\ UNCHANGED <<caller, output>>

ServerStarts ==
  /\ ~up
  /\ up' = TRUE
  /\ UNCHANGED <<caller, fifo, output, save, players, observed>>

------------------------------------------------------------------------------
(***************************************************************************)
(* The steps of a call.                                                    *)
(***************************************************************************)

Goto(place) == pc' = place
Fault == faults < MaxFaults /\ faults' = faults + 1

\* The call ends, by a return or by an exception.
End ==
  /\ Goto("idle")
  /\ queries' = 0 /\ tries' = 0 /\ confirm' = FALSE /\ sound' = TRUE /\ count' = 0
  /\ since' = {} /\ restarted' = FALSE
  /\ UNCHANGED journal

\* _journal_cursor: only later lines are read.
TakeCursor == journal' = <<>>

\* _send: one write, refused if BDS does not run or the FIFO is full.
Send(command) ==
  /\ up /\ Len(fifo) < MaxPipe
  /\ fifo' = Append(fifo, command)

\* _send raises; after an error of the write itself the command may have gone out.
SendRaises(command) ==
  \/ (~up \/ Len(fifo) >= MaxPipe) /\ UNCHANGED <<fifo, faults>>
  \/ Fault /\ (UNCHANGED fifo \/ Send(command))

Has(text) == \E i \in DOMAIN journal : journal[i].text = text

\* _save_query_files: the list of files that follows the last announcement.
FilesListed ==
  \E i, j \in DOMAIN journal :
    /\ i < j /\ journal[i].text = "ready" /\ journal[j].text = "files"
    /\ \A k \in DOMAIN journal : journal[k].text = "ready" => k <= i

(***************************************************************************)
(* query_player_count.                                                     *)
(***************************************************************************)

\* assert_available, then the call.
Begin(place) ==
  /\ pc = "idle" /\ up /\ Late
  /\ Goto(place)
  /\ since' = {players} /\ restarted' = FALSE
  /\ UNCHANGED <<journal, queries, tries, confirm, sound, count, server, faults, abandoned>>

BeginList == Begin("list_cursor")

\* MUTANT: no cursor is taken, so older lines are read as well.
ListCursor_Stale ==
  /\ pc = "list_cursor"
  /\ Goto("list")
  /\ UNCHANGED <<journal, queries, tries, confirm, sound, count, server, observed>>

ListCursor ==
  /\ pc = "list_cursor"
  /\ TakeCursor
  /\ Goto("list")
  /\ UNCHANGED <<queries, tries, confirm, sound, count, server, observed>>

SendList ==
  /\ pc = "list"
  /\ Send("list")
  /\ Goto("list_wait")
  /\ UNCHANGED <<journal, queries, tries, confirm, sound, count, up, output, save, players,
                 observed>>

\* The first count in the lines after the cursor.
ReadCount ==
  /\ pc = "list_wait" /\ Has("players")
  /\ \E i \in DOMAIN journal :
       /\ journal[i].text = "players"
       /\ \A j \in DOMAIN journal : journal[j].text = "players" => i <= j
       /\ count' = journal[i].count
  /\ Goto("counted")
  /\ UNCHANGED <<journal, queries, tries, confirm, sound, server, observed>>

\* The cursor, the send or a read of the journal raises, or the time is over.
ListRaises ==
  /\ \/ /\ pc \in {"list_cursor", "list_wait"} /\ Fault /\ UNCHANGED fifo
     \/ /\ pc = "list" /\ SendRaises("list")
     \/ /\ pc = "list_wait" /\ Late /\ UNCHANGED <<fifo, faults>>
  /\ End
  /\ UNCHANGED <<up, output, save, players, abandoned>>

(***************************************************************************)
(* paused_saves.                                                           *)
(***************************************************************************)
BeginPause == Begin("hold_cursor")

\* MUTANT: no cursor is taken, so older lines are read as well.
HoldCursor_Stale ==
  /\ pc = "hold_cursor"
  /\ Goto("hold")
  /\ UNCHANGED <<journal, queries, tries, confirm, sound, count, server, observed>>

HoldCursor ==
  /\ pc = "hold_cursor"
  /\ TakeCursor
  /\ Goto("hold")
  /\ UNCHANGED <<queries, tries, confirm, sound, count, server, observed>>

\* Before the try: nothing was sent, nothing is resumed.
HoldCursorRaises ==
  /\ pc = "hold_cursor"
  /\ Fault
  /\ End
  /\ UNCHANGED <<server, abandoned>>

SendHold ==
  /\ pc = "hold"
  /\ Send("save hold")
  /\ Goto("query")
  /\ UNCHANGED <<journal, queries, tries, confirm, sound, count, up, output, save, players,
                 observed>>

\* One turn of the loop: a query, and a later look at the journal.
SendQuery ==
  /\ pc = "query"
  /\ queries < MaxQueries
  /\ Send("save query")
  /\ queries' = queries + 1
  /\ Goto("read")
  /\ UNCHANGED <<journal, tries, confirm, sound, count, up, output, save, players, observed>>

ReadReady ==
  /\ pc = "read"
  /\ Goto(IF FilesListed THEN "copy" ELSE "query")
  /\ UNCHANGED <<journal, queries, tries, confirm, sound, count, server, observed>>

CopyDone ==
  /\ pc = "copy"
  /\ Goto("resume_cursor")
  /\ UNCHANGED <<journal, queries, tries, confirm, sound, count, server, observed>>

\* An exception after the first send, or no list in time.
BodyFails ==
  \/ pc = "hold" /\ SendRaises("save hold")
  \/ pc = "query" /\ SendRaises("save query")
  \/ pc = "query" /\ queries > 0 /\ Late /\ UNCHANGED <<fifo, faults>>
  \/ pc \in {"read", "copy"} /\ Fault /\ UNCHANGED fifo

\* MUTANT: saves are resumed after a good copy only.
BodyRaises_NoResume ==
  /\ BodyFails
  /\ End
  /\ UNCHANGED <<up, output, save, players, abandoned>>

\* The exception is on its way and the finally clause runs.
BodyRaises ==
  /\ BodyFails
  /\ sound' = FALSE
  /\ Goto("resume_cursor")
  /\ UNCHANGED <<journal, queries, tries, confirm, count, up, output, save, players,
                 restarted, abandoned, since>>

\* The cursor may fail: the resume is sent all the same.
ResumeCursor ==
  /\ pc = "resume_cursor"
  /\ \/ TakeCursor /\ confirm' = TRUE /\ UNCHANGED faults
     \/ UNCHANGED <<journal, confirm>> /\ Fault
  /\ Goto("resume")
  /\ UNCHANGED <<queries, tries, sound, count, server, restarted, abandoned, since>>

SendResume ==
  /\ pc = "resume"
  /\ Send("save resume")
  /\ Goto("resume_wait")
  /\ UNCHANGED <<journal, queries, tries, confirm, sound, count, up, output, save, players,
                 observed>>

\* A failed send is repeated, ResumeAttempts times in all.
ResumeRefused ==
  /\ pc = "resume"
  /\ SendRaises("save resume")
  /\ tries' = tries + 1
  /\ tries' < ResumeAttempts
  /\ UNCHANGED <<pc, journal, queries, confirm, sound, count, up, output, save, players,
                 restarted, abandoned, since>>

ResumeGivenUp ==
  /\ pc = "resume"
  /\ tries + 1 = ResumeAttempts
  /\ SendRaises("save resume")
  /\ End
  /\ abandoned' = TRUE
  /\ UNCHANGED <<up, output, save, players>>

\* MUTANT: a resume that cannot be confirmed counts as done.
Resumed_Unconfirmed ==
  /\ pc = "resume_wait" /\ (~confirm \/ Has("resumed"))
  /\ \/ sound /\ Goto("paused") /\ UNCHANGED <<journal, queries, tries, confirm, sound, count,
                                               since, restarted>>
     \/ ~sound /\ End
  /\ UNCHANGED <<server, faults, abandoned>>

\* The confirmation: the caller goes on, unless an exception is on its way.
Resumed ==
  /\ pc = "resume_wait" /\ confirm /\ Has("resumed")
  /\ \/ sound /\ Goto("paused") /\ UNCHANGED <<journal, queries, tries, confirm, sound, count,
                                               since, restarted>>
     \/ ~sound /\ End
  /\ UNCHANGED <<server, faults, abandoned>>

\* MUTANT: the wait for the confirmation has no limit.
ResumeNotConfirmed_Patient ==
  /\ pc = "resume_wait" /\ ~confirm
  /\ End
  /\ UNCHANGED <<server, faults, abandoned>>

\* No cursor to confirm it with, a failed read, or no confirmation in time.
ResumeNotConfirmed ==
  /\ pc = "resume_wait"
  /\ \/ (~confirm \/ Late) /\ UNCHANGED faults
     \/ confirm /\ Fault
  /\ End
  /\ UNCHANGED <<server, abandoned>>

Return ==
  /\ pc \in {"counted", "paused"}
  /\ End
  /\ UNCHANGED <<server, faults, abandoned>>

\* The caller is killed: no finally clause runs.
Crash ==
  /\ pc # "idle"
  /\ Fault
  /\ End
  /\ abandoned' = (abandoned \/ pc \in {"query", "read", "copy", "resume_cursor", "resume"})
  /\ UNCHANGED server

Call ==
  \/ ListCursor \/ SendList \/ ReadCount \/ ListRaises
  \/ HoldCursor \/ HoldCursorRaises \/ SendHold \/ SendQuery \/ ReadReady \/ CopyDone
  \/ BodyRaises \/ ResumeCursor \/ SendResume \/ ResumeRefused \/ ResumeGivenUp
  \/ Resumed \/ ResumeNotConfirmed \/ Return

Server == Execute \/ Flushed \/ Stored \/ PlayersChange \/ ServerDies \/ ServerStarts

Next == Call \/ BeginList \/ BeginPause \/ Crash \/ Server

Spec == Init /\ [][Next]_vars

(***************************************************************************)
(* Fairness.  A call goes on; BDS reads its commands, flushes and comes    *)
(* back; journald stores what was printed.  Nobody need call again.        *)
(***************************************************************************)
Fairness ==
  /\ WF_vars(Call)
  /\ WF_vars(Execute) /\ WF_vars(Flushed) /\ WF_vars(Stored) /\ WF_vars(ServerStarts)

FairSpec == Spec /\ Fairness

------------------------------------------------------------------------------
\* design.md, handled fault 6: the world is copied between the announcement and
\* the resume.  As long as BDS runs, it holds its saves and has flushed them for
\* the whole copy: the announcement read was not an answer to an earlier call.
HeldWhileCopied == pc = "copy" /\ ~restarted => save = "ready"

\* README "after the copy save resume is sent and confirmed": when the caller
\* goes on with a copy, BDS saves again.
ResumeConfirmed == pc = "paused" => save = "free"

\* design.md, handled fault 7: no failure leaves the world held.  Once BDS has
\* read all it was sent and no call runs, its saves are free, unless the caller
\* was killed or all three attempts to resume were refused.
NotLeftHeld == pc = "idle" /\ fifo = <<>> /\ ~abandoned => save = "free"

\* README "list confirms the real number of players": the count returned is one
\* there was since the call began, not the answer to an earlier list.
CountIsCurrent == pc = "counted" => count \in since

\* A held world is resumed in the end by the call that holds it, whatever raises
\* in it and although BDS may be slow to read; unless its caller is killed, or all
\* three attempts to resume are refused.  Then the world stays held until BDS
\* stops or another backup comes, which nothing promises: the watcher may be
\* idle or stopped.
HoldEnds == save # "free" ~> save = "free" \/ abandoned

\* Every call ends: no wait is without a limit.
CallsEnd == pc # "idle" ~> pc = "idle"
==============================================================================
