--------------------------- MODULE SnapshotPayload ---------------------------
(***************************************************************************)
(* What a snapshot holds: the copy of the world's database under a hold,   *)
(* its hard links into the snapshot before it, the cut to the lengths BDS  *)
(* announced, the checksums, rotation's unlinking, and the rehearsal of a  *)
(* verified snapshot (SnapshotManager._copy_payload and                    *)
(* _validate_and_describe, SnapshotVerifier, SnapshotRehearsal).           *)
(*                                                                         *)
(* Two kinds of database files: those BDS writes as a whole (CURRENT,      *)
(* level.dat) and those that only grow (logs, MANIFEST).  A content is the *)
(* number of the writing and a length: a file that grows keeps its number, *)
(* and a shorter content is a prefix of a longer one.                      *)
(***************************************************************************)
EXTENDS Integers, FiniteSets

CONSTANTS
  Whole,      \* files BDS replaces as a whole
  Grown,      \* files BDS appends to
  Required,   \* files a save query must list
  Inodes,     \* the file system's inodes
  NoInode,    \* no file
  MaxSlots,   \* bound: snapshots made
  Keep,       \* keep_snapshots
  MaxGen,     \* bound: times a file is written as a whole
  MaxLen,     \* bound: a file's length
  MaxClock,   \* bound: seconds
  MaxFaults   \* bound: I/O errors, crashes, lost or damaged files

Files == Whole \cup Grown
Slots == 1..MaxSlots
NoSlot == 0

ASSUME PayloadAssumption ==
  /\ Whole \cap Grown = {} /\ Required \subseteq Whole
  /\ NoInode \notin Inodes
  /\ MaxSlots \in Nat /\ MaxGen \in Nat \ {0} /\ MaxLen \in Nat \ {0}
  /\ MaxClock \in Nat /\ MaxFaults \in Nat
  /\ Keep \in Nat \ {0}

Gens == 0..(MaxGen + 1)
Rotten == MaxGen + 1                \* the number of a damaged content
Contents == [gen : Gens, len : 0..MaxLen]
Absent == [gen |-> 0, len |-> 0]    \* no file
Stamped == [gen : Gens, len : 0..MaxLen, mtime : 0..MaxClock]

VARIABLES
  \* BDS's world
  source,   \* per file: content and time of the last write
  clock,    \* the file system's clock, in seconds: what rsync compares
  \* The repository
  inode,    \* what each inode holds
  file,     \* per snapshot, the inode of each file
  status,   \* per snapshot: "none", "temp", "pending", "verified", "gone"
  sums,     \* checksums_sha256 of each manifest
  held,     \* save_query_files: what BDS announced (the code reads the lengths)
  \* The process that holds the repository lock
  place, cur, prev, stat, todo,
  \* The rehearsal's destination
  copy,     \* phase "none", "part" or "passed"; the snapshot; what each file holds
  \* Bound and observation
  faults, struck   \* struck: inodes damaged while a snapshot is made

world == <<source, clock>>
snapshots == <<file, status, sums, held>>
locals == <<place, cur, prev, stat, todo>>
vars == <<world, inode, snapshots, locals, copy, faults, struck>>

Places == {"idle", "hold", "stat", "link", "trim", "sum", "pending", "rehearse"}
NoStat == [len |-> 0, mtime |-> 0]

TypeOK ==
  /\ source \in [Files -> Stamped] /\ clock \in 0..MaxClock
  /\ inode \in [Inodes -> Stamped]
  /\ file \in [Slots -> [Files -> Inodes \cup {NoInode}]]
  /\ status \in [Slots -> {"none", "temp", "pending", "verified", "gone"}]
  /\ sums \in [Slots -> [Files -> Contents]]
  /\ held \in [Slots -> [Files -> Contents]]
  /\ place \in Places /\ cur \in Slots \cup {NoSlot} /\ prev \in Slots \cup {NoSlot}
  /\ stat \in [Files -> [len : 0..MaxLen, mtime : 0..MaxClock]]
  /\ todo \subseteq Files
  /\ copy \in [phase : {"none", "part", "passed"}, of : Slots \cup {NoSlot},
               holds : [Files -> Contents]]
  /\ faults \in Nat /\ struck \subseteq Inodes

Blank == [gen |-> 0, len |-> 0, mtime |-> 0]
Nothing == [f \in Files |-> Absent]
NoCopy == [phase |-> "none", of |-> NoSlot, holds |-> Nothing]

Init ==
  /\ source = [f \in Files |->
       IF f \in Whole THEN [gen |-> 1, len |-> 1, mtime |-> 0] ELSE Blank]
  /\ clock = 0
  /\ inode = [i \in Inodes |-> Blank]
  /\ file = [s \in Slots |-> [f \in Files |-> NoInode]]
  /\ status = [s \in Slots |-> "none"]
  /\ sums = [s \in Slots |-> Nothing] /\ held = [s \in Slots |-> Nothing]
  /\ place = "idle" /\ cur = NoSlot /\ prev = NoSlot
  /\ stat = [f \in Files |-> NoStat] /\ todo = {}
  /\ copy = NoCopy /\ faults = 0 /\ struck = {}

------------------------------------------------------------------------------
Content(x) == [gen |-> x.gen, len |-> x.len]
Listed(s) == {f \in Files : held[s][f] # Absent}

\* What a snapshot's directory holds, read through its links.
Payload(s) ==
  [f \in Files |-> IF file[s][f] = NoInode THEN Absent ELSE Content(inode[file[s][f]])]

\* SnapshotVerifier.verify: the checksums cover the payload exactly, the
\* required files are among them, and every file has its checksum.
Accepts(s) ==
  /\ \A f \in Files : (sums[s][f] # Absent) = (file[s][f] # NoInode)
  /\ \A f \in Required : sums[s][f] # Absent
  /\ \A f \in Files : sums[s][f] # Absent => Payload(s)[f] = sums[s][f]

Verified == {s \in Slots : status[s] = "verified"}

\* MUTANT: the manifest's state is believed.
Trusted_Unverified == Verified

\* complete_snapshots: those the verifier accepts.
Trusted == {s \in Verified : Accepts(s)}

Newest(S) == CHOOSE s \in S : \A t \in S : t <= s

\* The inodes some directory entry refers to.
Live(i) == \E s \in Slots, f \in Files : file[s][f] = i
Free == {i \in Inodes : ~Live(i)}

\* The directories of the snapshots in S are removed; an inode lives on as
\* long as another snapshot links to it.
Remove(S) ==
  /\ file' = [s \in Slots |-> IF s \in S THEN [f \in Files |-> NoInode] ELSE file[s]]
  /\ inode' = [i \in Inodes |->
       IF \E s \in Slots \ S, f \in Files : file[s][f] = i THEN inode[i] ELSE Blank]

------------------------------------------------------------------------------
(***************************************************************************)
(* BDS and the file system around the tool.                                *)
(***************************************************************************)
Copying == place \in {"stat", "link", "trim"}     \* saves are held

Tick ==
  /\ clock < MaxClock
  /\ clock' = clock + 1
  /\ UNCHANGED <<source, inode, snapshots, locals, copy, faults, struck>>

SetSource(f, gen, len) ==
  /\ source' = [source EXCEPT ![f] = [gen |-> gen, len |-> len, mtime |-> clock]]
  /\ UNCHANGED <<clock, inode, snapshots, locals, copy, struck>>

\* ASSUMED of BDS: it writes a file as a whole at most once in a second.
Rewrite(f) ==
  /\ ~Copying /\ clock > source[f].mtime /\ source[f].gen < MaxGen
  /\ \E len \in 1..MaxLen : SetSource(f, source[f].gen + 1, len)
  /\ UNCHANGED faults

\* A growing file is created while saves are not held; a hold lets it grow.
Append(f) ==
  /\ source[f].gen = 0 => ~Copying
  /\ source[f].len < MaxLen
  /\ SetSource(f, 1, source[f].len + 1)
  /\ UNCHANGED faults

\* A fault: while saves are held, a file loses its end or vanishes.
Cut(f) ==
  /\ Copying /\ faults < MaxFaults /\ source[f].gen > 0
  /\ \/ SetSource(f, 0, 0)
     \/ source[f].len > 1 /\ SetSource(f, source[f].gen, source[f].len - 1)
  /\ faults' = faults + 1

\* A fault: the medium damages what an inode holds.
Damage(i) ==
  /\ faults < MaxFaults /\ Live(i) /\ inode[i].gen # Rotten
  /\ inode' = [inode EXCEPT ![i].gen = Rotten]
  /\ struck' = IF cur = NoSlot THEN struck ELSE struck \cup {i}
  /\ faults' = faults + 1
  /\ UNCHANGED <<world, snapshots, locals, copy>>

------------------------------------------------------------------------------
(***************************************************************************)
(* SnapshotManager._create_locked, as far as it touches the payload.       *)
(***************************************************************************)
Idle == place' = "idle" /\ cur' = NoSlot /\ prev' = NoSlot
        /\ stat' = [f \in Files |-> NoStat] /\ todo' = {}

\* _latest_snapshot verifies every snapshot before it takes the newest.
Begin ==
  /\ place = "idle"
  /\ \E s \in Slots :
       /\ status[s] = "none" /\ \A t \in Slots : t < s => status[t] # "none"
       /\ status' = [status EXCEPT ![s] = "temp"]
       /\ cur' = s
  /\ prev' = IF Trusted = {} THEN NoSlot ELSE Newest(Trusted)
  /\ place' = "hold"
  /\ UNCHANGED <<world, inode, file, sums, held, stat, todo, copy, faults, struck>>

\* The candidate comes to nothing: an unpublished one is removed, a published
\* one becomes "failed" and serves neither as a link's source nor a reader.
GiveUp ==
  /\ status' = [status EXCEPT ![cur] = "gone"]
  /\ held' = [held EXCEPT ![cur] = Nothing]
  /\ sums' = [sums EXCEPT ![cur] = Nothing]
  /\ Remove({cur})
  /\ Idle
  /\ struck' = {}
  /\ UNCHANGED <<world, copy>>

\* What BDS may announce of f: a growing file may already be longer than the
\* length that is safe.
Announced(f) ==
  {[gen |-> source[f].gen, len |-> n] :
     n \in IF f \in Grown THEN 1..source[f].len ELSE {source[f].len}}

\* save query answers; _validate_save_files refuses a list that lacks a
\* required file.
Query ==
  /\ place = "hold"
  /\ \/ \E list \in [Files -> Contents] :
          /\ \A f \in Files : list[f] \in Announced(f) \cup {Absent}
          /\ \A f \in Required : list[f] # Absent
          /\ held' = [held EXCEPT ![cur] = list]
          /\ place' = "stat"
          /\ UNCHANGED <<world, inode, file, status, sums, cur, prev, stat, todo, copy, struck>>
     \/ GiveUp
  /\ UNCHANGED faults

\* rsync builds its file list: only listed database files pass the filter.
Stat ==
  /\ place = "stat"
  /\ stat' = [f \in Files |->
       IF f \in Listed(cur) /\ source[f].gen > 0
       THEN [len |-> source[f].len, mtime |-> source[f].mtime] ELSE NoStat]
  /\ todo' = {f \in Listed(cur) : source[f].gen > 0}
  /\ place' = "link"
  /\ UNCHANGED <<world, inode, snapshots, cur, prev, copy, faults, struck>>

\* MUTANT: files of the same length are taken for the same.
Same_Length(f) ==
  /\ prev # NoSlot /\ file[prev][f] # NoInode
  /\ inode[file[prev][f]].len = stat[f].len

\* rsync's quick check against --link-dest: length and time are what they were.
Same(f) ==
  /\ prev # NoSlot /\ file[prev][f] # NoInode
  /\ inode[file[prev][f]].len = stat[f].len
  /\ inode[file[prev][f]].mtime = stat[f].mtime

\* The candidate's entry f becomes a file of its own.
PutNew(f, gen, len, mtime) ==
  /\ Free # {}
  /\ LET i == CHOOSE i \in Free : TRUE
     IN  /\ inode' = [inode EXCEPT ![i] = [gen |-> gen, len |-> len, mtime |-> mtime]]
         /\ file' = [file EXCEPT ![cur][f] = i]
         /\ struck' = IF gen = Rotten THEN struck \cup {i} ELSE struck \ {i}

\* rsync handles one file: it links it or copies it; a vanished one is an error.
Transfer(f) ==
  /\ place = "link" /\ f \in todo /\ UNCHANGED faults
  /\ IF source[f].gen = 0 /\ ~Same(f)
     THEN GiveUp
     ELSE /\ IF Same(f)
             THEN file' = [file EXCEPT ![cur][f] = file[prev][f]] /\ UNCHANGED <<inode, struck>>
             ELSE PutNew(f, source[f].gen, source[f].len, stat[f].mtime)
          /\ todo' = todo \ {f}
          /\ UNCHANGED <<world, status, sums, held, place, cur, prev, stat, copy>>

Transferred ==
  /\ place = "link" /\ todo = {}
  /\ place' = "trim" /\ todo' = Listed(cur) /\ stat' = [f \in Files |-> NoStat]
  /\ UNCHANGED <<world, inode, snapshots, cur, prev, copy, faults, struck>>

\* MUTANT: the file is cut where it is, links and all.
Shorten_InPlace(f) ==
  /\ inode' = [inode EXCEPT ![file[cur][f]].len = held[cur][f].len]
  /\ UNCHANGED <<file, struck>>

\* A longer file is replaced by a private prefix of it, never truncated.
Shorten(f) ==
  PutNew(f, inode[file[cur][f]].gen, held[cur][f].len, clock)

\* "a save-query file was not copied"; "shorter than its snapshot length".
TooShort(f) ==
  file[cur][f] = NoInode \/ inode[file[cur][f]].len < held[cur][f].len

\* The loop over save_files at the end of _copy_payload.
Trim(f) ==
  /\ place = "trim" /\ f \in todo /\ UNCHANGED faults
  /\ IF TooShort(f)
     THEN GiveUp
     ELSE /\ IF inode[file[cur][f]].len > held[cur][f].len
             THEN Shorten(f) ELSE UNCHANGED <<inode, file, struck>>
          /\ todo' = todo \ {f}
          /\ UNCHANGED <<world, status, sums, held, place, cur, prev, stat, copy>>

\* The with block ends: saves resume.
Resumed ==
  /\ place = "trim" /\ todo = {}
  /\ place' = "sum"
  /\ UNCHANGED <<world, inode, snapshots, cur, prev, stat, todo, copy, faults, struck>>

\* _validate_and_describe, then the rename to the snapshot's name.
Describe ==
  /\ place = "sum"
  /\ sums' = [sums EXCEPT ![cur] = Payload(cur)]
  /\ status' = [status EXCEPT ![cur] = "pending"]
  /\ place' = "pending"
  /\ UNCHANGED <<world, inode, file, held, cur, prev, stat, todo, copy, faults, struck>>

\* What rotation leaves of S: the newest Keep (_prune_locked; the order and
\* the partial removals are SnapshotRepository's).
Kept(S) == {s \in S : Cardinality({t \in S : t > s}) < Keep}

\* The isolated server passed it: the checksums are verified again, the
\* snapshot is marked verified, and rotation follows unless maintenance fails.
Accept ==
  /\ place = "pending" /\ Accepts(cur)
  /\ \E S \in {{}, Trusted \ Kept(Trusted \cup {cur})} :
       /\ status' = [s \in Slots |->
            IF s = cur THEN "verified" ELSE IF s \in S THEN "gone" ELSE status[s]]
       /\ Remove(S)
  /\ Idle
  /\ struck' = {}
  /\ UNCHANGED <<world, sums, held, copy, faults>>

\* The isolated server rejects it, or the checksums no longer match.
Reject ==
  /\ place = "pending"
  /\ GiveUp /\ UNCHANGED faults

\* An error of the file system or a crash.
Abort ==
  /\ place \notin {"idle", "rehearse"} /\ faults < MaxFaults
  /\ GiveUp /\ faults' = faults + 1

------------------------------------------------------------------------------
(***************************************************************************)
(* SnapshotRehearsal._run_locked, with one destination.                    *)
(***************************************************************************)
\* The snapshot is verified; an existing destination is refused.
Rehearse(s) ==
  /\ place = "idle" /\ s \in Trusted /\ copy.phase = "none"
  /\ copy' = [phase |-> "part", of |-> s, holds |-> Nothing]
  /\ todo' = {f \in Files : file[s][f] # NoInode}
  /\ place' = "rehearse"
  /\ UNCHANGED <<world, inode, snapshots, cur, prev, stat, faults, struck>>

\* shutil.copytree, a file at a time.
CopyOut(f) ==
  /\ place = "rehearse" /\ f \in todo
  /\ copy' = [copy EXCEPT !.holds[f] = Payload(copy.of)[f]]
  /\ todo' = todo \ {f}
  /\ UNCHANGED <<world, inode, snapshots, place, cur, prev, stat, faults, struck>>

\* MUTANT: the copy is not checked again.
Matches_Unchecked == TRUE

\* Every copied file has the checksum of the manifest.
Matches == \A f \in Files : sums[copy.of][f] # Absent => copy.holds[f] = sums[copy.of][f]

\* The report says "passed", or the destination is removed.
EndRehearsal ==
  /\ place = "rehearse" /\ todo = {}
  /\ copy' = IF Matches THEN [copy EXCEPT !.phase = "passed"] ELSE NoCopy
  /\ Idle
  /\ UNCHANGED <<world, inode, snapshots, faults, struck>>

\* An error, or a crash: rmtree ignores its own errors, a crash removes nothing.
StopRehearsal ==
  /\ place = "rehearse" /\ faults < MaxFaults
  /\ copy' \in {copy, NoCopy}
  /\ faults' = faults + 1
  /\ Idle
  /\ UNCHANGED <<world, inode, snapshots, struck>>

\* The operator removes the destination.
ClearDestination ==
  /\ place = "idle" /\ copy.phase # "none"
  /\ copy' = NoCopy
  /\ UNCHANGED <<world, inode, snapshots, locals, faults, struck>>

------------------------------------------------------------------------------
Bds ==
  \/ \E f \in Whole : Rewrite(f)
  \/ \E f \in Grown : Append(f)
  \/ \E f \in Files : Cut(f)

Create ==
  \/ Begin \/ Query \/ Stat \/ Transferred \/ Resumed \/ Describe \/ Accept \/ Reject \/ Abort
  \/ \E f \in Files : Transfer(f) \/ Trim(f)

Rehearsal ==
  \/ EndRehearsal \/ StopRehearsal \/ ClearDestination
  \/ \E s \in Slots : Rehearse(s)
  \/ \E f \in Files : CopyOut(f)

Next == Tick \/ Bds \/ (\E i \in Inodes : Damage(i)) \/ Create \/ Rehearsal

Spec == Init /\ [][Next]_vars

------------------------------------------------------------------------------
(***************************************************************************)
(* Properties.                                                             *)
(***************************************************************************)
\* What a verified snapshot holds is changed by damage only: making later
\* snapshots that share its inodes, cutting their files and removing other
\* snapshots never touches it ("never truncate a shared inode").
OldSnapshotsUntouched ==
  [][\A s \in Verified : s \in Verified' =>
       \A f \in Files : Payload(s)'[f] = Payload(s)[f] \/ Payload(s)'[f].gen = Rotten]_vars

\* A published snapshot holds exactly the files BDS listed, each with the
\* content it had when BDS answered, whatever was appended during the copy and
\* whichever files were linked into older snapshots.
PublishedIsHeld ==
  \A s \in Slots : status[s] \in {"pending", "verified"} =>
    \A f \in Files : Payload(s)[f].gen # Rotten => Payload(s)[f] = held[s][f]

\* The verifier accepts every verified snapshot no damage struck since its
\* checksums were taken, and refuses the others: nothing the tool does later
\* makes a good snapshot fail, or a damaged one pass.
VerifierTellsDamage ==
  \A s \in Verified :
    Accepts(s) <=> \A f \in Files :
                     Payload(s)[f].gen = Rotten => sums[s][f].gen = Rotten

\* A candidate holds damage only if it struck after the candidate was begun,
\* or before the checksums of the snapshot it links into were taken: what the
\* checksums can tell is not linked into the next snapshot.
DamageIsNotInherited ==
  cur # NoSlot => \A f \in Files : Payload(cur)[f].gen = Rotten =>
    file[cur][f] \in struck \/ (prev # NoSlot /\ sums[prev][f].gen = Rotten)

\* A rehearsal that reports "passed" put into its destination what BDS had
\* announced, unless damage struck the snapshot before its checksums were taken.
RehearsalIsTruthful ==
  copy.phase = "passed" => \A f \in Files :
    copy.holds[f] = held[copy.of][f] \/ sums[copy.of][f].gen = Rotten
=============================================================================
