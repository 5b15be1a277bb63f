------------------------ MODULE SnapshotPayloadProofs ------------------------
(***************************************************************************)
(* Proofs about SnapshotPayload.  A snapshot's files are followed through  *)
(* Entry (is there one) and The (what its inode holds), so that a step is  *)
(* described by what it does to these: PutNewDoes, RemoveDoes.             *)
(***************************************************************************)
EXTENDS SnapshotPayload, WellFoundedInduction, TLAPS

(***************************************************************************)
(* The inductive invariant, in named parts.                                *)
(***************************************************************************)
Busy == place \in {"hold", "stat", "link", "trim", "sum", "pending"}
Entry(s, f) == file[s][f] # NoInode
The(s, f) == inode[file[s][f]]

\* Whose snapshot is under way.
Roles ==
  /\ Busy => cur \in Slots /\ status[cur] = IF place = "pending" THEN "pending" ELSE "temp"
  /\ ~Busy => cur = NoSlot /\ prev = NoSlot
  /\ \A s \in Slots : status[s] \in {"temp", "pending"} => s = cur
  /\ prev # NoSlot => status[prev] = "verified"

\* Which snapshots have files at all.
Entries ==
  /\ \A s \in Slots, f \in Files : status[s] \in {"none", "gone"} => ~Entry(s, f)
  /\ place \in {"hold", "stat"} => \A f \in Files : ~Entry(cur, f)

\* What the world's files can hold.
World ==
  \A f \in Files :
    /\ source[f].gen \in 0..MaxGen /\ source[f].mtime <= clock
    /\ source[f].gen = 0 => source[f].len = 0
    /\ f \in Grown => source[f].gen \in {0, 1}

\* An inode that bears the time of a whole file's last write bears its number
\* too: two writings are never a second apart from each other or less.
Times ==
  \A s \in Slots, f \in Files : Entry(s, f) =>
    /\ The(s, f).gen # 0
    /\ f \in Grown => The(s, f).gen \in {1, Rotten}
    /\ f \in Whole =>
         /\ The(s, f).mtime <= source[f].mtime
         /\ The(s, f).mtime = source[f].mtime /\ source[f].gen # 0
              => The(s, f).gen \in {source[f].gen, Rotten}

\* What was announced.
Announcements ==
  \A s \in Slots, f \in Files : held[s][f] # Absent =>
    /\ held[s][f].gen \in 1..MaxGen
    /\ f \in Grown => held[s][f].gen = 1

\* While the copy is made a whole file is what was announced, or a part of it.
StillHeld ==
  Copying => \A f \in Listed(cur) \cap Whole :
    /\ source[f].gen \in {0, held[cur][f].gen}
    /\ source[f].len <= held[cur][f].len

\* rsync's list: an older snapshot's inode it takes for the same is the same.
Stats ==
  place = "link" => \A f \in todo :
    /\ f \in Listed(cur) /\ ~Entry(cur, f)
    /\ f \in Whole =>
         /\ stat[f].mtime <= source[f].mtime
         /\ stat[f].len <= held[cur][f].len
         /\ \A s \in Slots : Entry(s, f) /\ The(s, f).mtime = stat[f].mtime
              => The(s, f).gen \in {held[cur][f].gen, Rotten}

\* What the candidate holds so far: prefixes of the right writing, or longer.
Candidate ==
  place \in {"link", "trim"} =>
    /\ \A f \in Files : Entry(cur, f) =>
         /\ held[cur][f] # Absent
         /\ The(cur, f).gen \in {held[cur][f].gen, Rotten}
         /\ f \in Whole => The(cur, f).len <= held[cur][f].len
    /\ place = "trim" => \A f \in Listed(cur) \ todo :
         Entry(cur, f) /\ The(cur, f).len = held[cur][f].len

\* A snapshot whose files are exactly the announced ones.
HoldsHeld(s) ==
  \A f \in Files :
    /\ Entry(s, f) <=> held[s][f] # Absent
    /\ Entry(s, f) => /\ The(s, f).len = held[s][f].len
                      /\ The(s, f).gen \in {held[s][f].gen, Rotten}

Complete ==
  /\ place = "sum" => HoldsHeld(cur)
  /\ \A s \in Slots : status[s] \in {"pending", "verified"} => HoldsHeld(s)
  /\ Busy /\ place # "hold" => \A f \in Required : held[cur][f] # Absent
  /\ \A s \in Slots : status[s] = "verified" => \A f \in Required : held[s][f] # Absent

\* The checksums are those of the files, unless damage struck since.
Summed ==
  /\ \A s \in Slots, f \in Files :
       /\ status[s] \in {"none", "temp"} => sums[s][f] = Absent
       /\ status[s] \in {"pending", "verified", "gone"} =>
            sums[s][f] = held[s][f] \/ sums[s][f].gen = Rotten
       /\ status[s] \in {"pending", "verified"} =>
            /\ Entry(s, f) <=> sums[s][f] # Absent
            /\ Entry(s, f) => /\ The(s, f).len = sums[s][f].len
                              /\ The(s, f).gen \in {sums[s][f].gen, Rotten}

\* The rehearsal: of a verified snapshot, and what is reported was compared.
Rehearsed ==
  /\ copy.phase # "none" => copy.of \in Slots /\ status[copy.of] \in {"verified", "gone"}
  /\ copy.phase = "passed" => \A f \in Files : copy.holds[f] = sums[copy.of][f]
  /\ place = "rehearse" =>
       /\ copy.phase = "part" /\ status[copy.of] = "verified"
       /\ \A f \in todo : Entry(copy.of, f)
       /\ \A f \in Files : ~Entry(copy.of, f) => copy.holds[f] = Absent

\* Damage in the candidate or in the snapshot it links into is known to have
\* struck since the candidate was begun, or before the sums were taken.
Known(s, f) ==
  Entry(s, f) /\ The(s, f).gen = Rotten =>
    file[s][f] \in struck \/ (prev # NoSlot /\ sums[prev][f].gen = Rotten)

DamageKnown ==
  cur # NoSlot => \A f \in Files :
    /\ Known(cur, f)
    /\ prev # NoSlot => Known(prev, f)

Inv ==
  /\ TypeOK /\ Roles /\ Entries /\ World /\ Times /\ Announcements /\ StillHeld
  /\ Stats /\ Candidate /\ Complete /\ Summed /\ Rehearsed /\ DamageKnown

------------------------------------------------------------------------------
\* What the assumption on the constants says of the derived ones.
LEMMA Bounds ==
  /\ MaxGen \in Nat \ {0} /\ MaxLen \in Nat \ {0} /\ MaxClock \in Nat /\ MaxFaults \in Nat
  /\ MaxSlots \in Nat
  /\ \A f \in Whole : f \notin Grown
  /\ Required \subseteq Files /\ Whole \subseteq Files /\ Grown \subseteq Files
  /\ NoInode \notin Inodes /\ NoSlot \notin Slots
  /\ Rotten = MaxGen + 1 /\ Rotten \in Gens /\ 0 \in Gens /\ 1 \in Gens /\ Rotten # 0
<1>1. /\ MaxGen \in Nat \ {0} /\ MaxLen \in Nat \ {0} /\ MaxClock \in Nat /\ MaxFaults \in Nat
      /\ MaxSlots \in Nat
  BY PayloadAssumption
<1>2. \A f \in Whole : f \notin Grown
  BY PayloadAssumption
<1>3. Required \subseteq Files /\ Whole \subseteq Files /\ Grown \subseteq Files
  BY PayloadAssumption DEF Files
<1>4. NoInode \notin Inodes /\ NoSlot \notin Slots
  BY <1>1, PayloadAssumption DEF NoSlot, Slots
<1>5. Rotten = MaxGen + 1 /\ Rotten \in Gens /\ 0 \in Gens /\ 1 \in Gens /\ Rotten # 0
  BY <1>1 DEF Rotten, Gens
<1>. QED  BY <1>1, <1>2, <1>3, <1>4, <1>5

\* An empty repository and a world just written.
LEMMA InitInv ==
  ASSUME Init
  PROVE  Inv
<1>1. TypeOK
  BY Bounds DEF Init, TypeOK, Places, Stamped, Contents, Gens, Nothing, Absent, Blank,
     NoCopy, NoStat
<1>2. Roles /\ Entries /\ Candidate /\ DamageKnown
  BY DEF Init, Roles, Busy, Entries, Entry, Candidate, DamageKnown
<1>3. World /\ Times
  BY Bounds DEF Init, World, Times, Entry, Blank
<1>4. Announcements /\ StillHeld /\ Stats
  BY DEF Init, Announcements, StillHeld, Copying, Stats, Nothing
<1>5. Complete /\ Summed
  BY DEF Init, Complete, Summed, Busy, Nothing
<1>6. Rehearsed
  BY DEF Init, Rehearsed, NoCopy
<1>. QED  BY <1>1, <1>2, <1>3, <1>4, <1>5, <1>6 DEF Inv

\* Time alone changes nothing the invariant speaks of but the bound on times.
LEMMA TickInv ==
  ASSUME Inv, Tick
  PROVE  Inv'
<1>1. /\ clock < MaxClock /\ clock' = clock + 1
      /\ source' = source /\ inode' = inode /\ file' = file /\ status' = status
      /\ sums' = sums /\ held' = held /\ place' = place /\ cur' = cur /\ prev' = prev
      /\ stat' = stat /\ todo' = todo /\ copy' = copy /\ faults' = faults /\ struck' = struck
  BY DEF Tick, snapshots, locals
<1>2. TypeOK'
  BY <1>1, Bounds DEF Inv, TypeOK
<1>3. Roles'
  BY <1>1 DEF Inv, Roles, Busy
<1>4. Entries'
  BY <1>1 DEF Inv, Entries, Entry
<1>5. World'
  BY <1>1, Bounds DEF Inv, World, TypeOK, Stamped
<1>6. Times'
  BY <1>1 DEF Inv, Times, Entry, The
<1>7. Announcements'
  BY <1>1 DEF Inv, Announcements
<1>8. StillHeld'
  BY <1>1 DEF Inv, StillHeld, Copying, Listed
<1>9. Stats'
  BY <1>1 DEF Inv, Stats, Entry, The, Listed
<1>10. Candidate'
  BY <1>1 DEF Inv, Candidate, Entry, The, Listed
<1>11. Complete'
  BY <1>1 DEF Inv, Complete, HoldsHeld, Entry, The, Busy
<1>12. Summed'
  BY <1>1 DEF Inv, Summed, Entry, The
<1>13. Rehearsed'
  BY <1>1 DEF Inv, Rehearsed, Entry
<1>14. DamageKnown'
  BY <1>1 DEF Inv, DamageKnown, Known, Entry, The
<1>. QED  BY <1>2, <1>3, <1>4, <1>5, <1>6, <1>7, <1>8, <1>9, <1>10, <1>11, <1>12, <1>13,
             <1>14 DEF Inv

\* A writing in a later second: no inode bears its time.
LEMMA RewriteInv ==
  ASSUME Inv, NEW f \in Whole, Rewrite(f)
  PROVE  Inv'
<1>1. /\ inode' = inode /\ file' = file /\ status' = status
      /\ sums' = sums /\ held' = held /\ place' = place /\ cur' = cur /\ prev' = prev
      /\ stat' = stat /\ todo' = todo /\ copy' = copy /\ struck' = struck /\ clock' = clock
  BY DEF Rewrite, SetSource, snapshots, locals
<1>2. /\ ~Copying /\ clock > source[f].mtime /\ source[f].gen < MaxGen /\ faults' = faults
      /\ \E len \in 1..MaxLen :
           source' = [source EXCEPT ![f] = [gen |-> source[f].gen + 1, len |-> len, mtime |-> clock]]
  BY DEF Rewrite, SetSource
<1>3. /\ \A g \in Files : g # f => source'[g] = source[g]
      /\ source'[f].mtime = clock /\ source'[f].gen = source[f].gen + 1
      /\ source' \in [Files -> Stamped] /\ source'[f].gen \in 1..MaxGen
  BY <1>2, Bounds DEF Inv, TypeOK, Stamped, Gens
<1>4. TypeOK'
  BY <1>1, <1>2, <1>3 DEF Inv, TypeOK
<1>5. Roles'
  BY <1>1, <1>2, <1>3 DEF Inv, Roles, Busy
<1>6. Entries'
  BY <1>1, <1>2, <1>3 DEF Inv, Entries, Entry
<1>7. World'
  <2>. SUFFICES ASSUME NEW g \in Files
                PROVE  /\ source'[g].gen \in 0..MaxGen /\ source'[g].mtime <= clock
                       /\ source'[g].gen = 0 => source'[g].len = 0
                       /\ g \in Grown => source'[g].gen \in {0, 1}
    BY <1>1 DEF World
  <2>1. CASE g = f
    BY <1>1, <1>3, <2>1, Bounds DEF Inv, TypeOK, World
  <2>2. CASE g # f
    BY <1>3, <2>2 DEF Inv, World
  <2>. QED  BY <2>1, <2>2
<1>8. Times'
  <2>. SUFFICES ASSUME NEW s \in Slots, NEW g \in Files, Entry(s, g)
               PROVE  /\ The(s, g).gen # 0
                      /\ g \in Grown => The(s, g).gen \in {1, Rotten}
                      /\ g \in Whole =>
                           /\ The(s, g).mtime <= source'[g].mtime
                           /\ The(s, g).mtime = source'[g].mtime /\ source'[g].gen # 0
                                => The(s, g).gen \in {source'[g].gen, Rotten}
    BY <1>1 DEF Times, Entry, The
  <2>1. CASE g # f
    BY <1>3, <2>1 DEF Inv, Times
  <2>2. CASE g = f
    <3>1. The(s, f).mtime <= source[f].mtime /\ The(s, f).gen # 0
      BY <2>2 DEF Inv, Times
    <3>2. The(s, f).mtime \in Int /\ source[f].mtime \in Int /\ clock \in Int
      BY <2>2 DEF Inv, TypeOK, Stamped, The, Entry
    <3>3. The(s, f).mtime < clock
      BY <1>2, <3>1, <3>2
    <3>. QED  BY <1>3, <2>2, <3>1, <3>2, <3>3, Bounds
  <2>. QED  BY <2>1, <2>2
<1>9. Announcements'
  BY <1>1, <1>2, <1>3 DEF Inv, Announcements
<1>10. StillHeld'
  BY <1>1, <1>2 DEF StillHeld, Copying
<1>11. Stats'
  BY <1>1, <1>2 DEF Stats, Copying
<1>12. Candidate'
  BY <1>1, <1>2, <1>3 DEF Inv, Candidate, Entry, The, Listed
<1>13. Complete'
  BY <1>1, <1>2, <1>3 DEF Inv, Complete, HoldsHeld, Entry, The, Busy
<1>14. Summed'
  BY <1>1, <1>2, <1>3 DEF Inv, Summed, Entry, The
<1>15. Rehearsed'
  BY <1>1, <1>2, <1>3 DEF Inv, Rehearsed, Entry
<1>16. DamageKnown'
  BY <1>1, <1>2, <1>3 DEF Inv, DamageKnown, Known, Entry, The
<1>. QED  BY <1>4, <1>5, <1>6, <1>7, <1>8, <1>9, <1>10, <1>11, <1>12, <1>13, <1>14,
             <1>15, <1>16 DEF Inv

\* A file that grows keeps its number.
LEMMA AppendInv ==
  ASSUME Inv, NEW f \in Grown, Append(f)
  PROVE  Inv'
<1>1. /\ inode' = inode /\ file' = file /\ status' = status
      /\ sums' = sums /\ held' = held /\ place' = place /\ cur' = cur /\ prev' = prev
      /\ stat' = stat /\ todo' = todo /\ copy' = copy /\ struck' = struck /\ clock' = clock
  BY DEF Append, SetSource, snapshots, locals
<1>2. /\ source[f].len < MaxLen /\ faults' = faults
      /\ source' = [source EXCEPT ![f] = [gen |-> 1, len |-> source[f].len + 1, mtime |-> clock]]
  BY DEF Append, SetSource
<1>3. /\ \A g \in Files : g # f => source'[g] = source[g]
      /\ source'[f].mtime = clock /\ source'[f].gen = 1
      /\ source' \in [Files -> Stamped]
  BY <1>2, Bounds DEF Inv, TypeOK, Stamped
<1>4. \A g \in Whole : source'[g] = source[g]
  BY <1>3, Bounds
<1>5. TypeOK'
  BY <1>1, <1>2, <1>3 DEF Inv, TypeOK
<1>6. Roles'
  BY <1>1, <1>2, <1>3, <1>4 DEF Inv, Roles, Busy
<1>7. Entries'
  BY <1>1, <1>2, <1>3, <1>4 DEF Inv, Entries, Entry
<1>8. World'
  <2>. SUFFICES ASSUME NEW g \in Files
                PROVE  /\ source'[g].gen \in 0..MaxGen /\ source'[g].mtime <= clock
                       /\ source'[g].gen = 0 => source'[g].len = 0
                       /\ g \in Grown => source'[g].gen \in {0, 1}
    BY <1>1 DEF World
  <2>1. CASE g = f
    BY <1>1, <1>3, <2>1, Bounds DEF Inv, TypeOK, World
  <2>2. CASE g # f
    BY <1>3, <2>2 DEF Inv, World
  <2>. QED  BY <2>1, <2>2
<1>9. Times'
  BY <1>1, <1>2, <1>3, <1>4 DEF Inv, Times, Entry, The
<1>10. Announcements'
  BY <1>1, <1>2, <1>3, <1>4 DEF Inv, Announcements
<1>11. StillHeld'
  BY <1>1, <1>2, <1>3, <1>4 DEF Inv, StillHeld, Copying, Listed
<1>12. Stats'
  BY <1>1, <1>2, <1>3, <1>4 DEF Inv, Stats, Entry, The, Listed
<1>13. Candidate'
  BY <1>1, <1>2, <1>3, <1>4 DEF Inv, Candidate, Entry, The, Listed
<1>14. Complete'
  BY <1>1, <1>2, <1>3, <1>4 DEF Inv, Complete, HoldsHeld, Entry, The, Busy
<1>15. Summed'
  BY <1>1, <1>2, <1>3, <1>4 DEF Inv, Summed, Entry, The
<1>16. Rehearsed'
  BY <1>1, <1>2, <1>3, <1>4 DEF Inv, Rehearsed, Entry
<1>17. DamageKnown'
  BY <1>1, <1>2, <1>3, <1>4 DEF Inv, DamageKnown, Known, Entry, The
<1>. QED  BY <1>5, <1>6, <1>7, <1>8, <1>9, <1>10, <1>11, <1>12, <1>13, <1>14, <1>15,
             <1>16, <1>17 DEF Inv

\* A file that lost its end in the same second still bears its number.
LEMMA CutInv ==
  ASSUME Inv, NEW f \in Files, Cut(f)
  PROVE  Inv'
<1>1. /\ inode' = inode /\ file' = file /\ status' = status
      /\ sums' = sums /\ held' = held /\ place' = place /\ cur' = cur /\ prev' = prev
      /\ stat' = stat /\ todo' = todo /\ copy' = copy /\ struck' = struck /\ clock' = clock
  BY DEF Cut, SetSource, snapshots, locals
<1>2. /\ Copying /\ faults' = faults + 1
      /\ \/ source' = [source EXCEPT ![f] = [gen |-> 0, len |-> 0, mtime |-> clock]]
         \/ /\ source[f].gen > 0 /\ source[f].len > 1
            /\ source' = [source EXCEPT ![f] =
                 [gen |-> source[f].gen, len |-> source[f].len - 1, mtime |-> clock]]
  BY DEF Cut, SetSource
<1>3. /\ \A g \in Files : g # f => source'[g] = source[g]
      /\ source'[f].mtime = clock /\ source'[f].gen \in {0, source[f].gen}
      /\ source'[f].len <= source[f].len /\ (source'[f].gen = 0 => source'[f].len = 0)
      /\ source' \in [Files -> Stamped]
  <2>1. source \in [Files -> Stamped] /\ clock \in 0..MaxClock /\ source[f].gen \in Gens
        /\ source[f].len \in 0..MaxLen
    BY DEF Inv, TypeOK, Stamped
  <2>2. CASE source' = [source EXCEPT ![f] = [gen |-> 0, len |-> 0, mtime |-> clock]]
    <3>1. [gen |-> 0, len |-> 0, mtime |-> clock] \in Stamped
      BY <2>1, Bounds DEF Stamped
    <3>. QED  BY <2>1, <2>2, <3>1
  <2>3. CASE /\ source[f].gen > 0 /\ source[f].len > 1
             /\ source' = [source EXCEPT ![f] =
                  [gen |-> source[f].gen, len |-> source[f].len - 1, mtime |-> clock]]
    <3>1. source[f].len - 1 \in 0..MaxLen /\ source[f].len - 1 <= source[f].len /\ source[f].gen # 0
      BY <2>1, <2>3, Bounds DEF Gens
    <3>2. [gen |-> source[f].gen, len |-> source[f].len - 1, mtime |-> clock] \in Stamped
      BY <2>1, <3>1 DEF Stamped
    <3>. QED  BY <2>1, <2>3, <3>1, <3>2
  <2>. QED  BY <1>2, <2>2, <2>3
<1>4. \A g \in Files : /\ source[g].mtime \in Int /\ source'[g].mtime \in Int
                       /\ source[g].mtime <= source'[g].mtime
  <2>. SUFFICES ASSUME NEW g \in Files
                PROVE  /\ source[g].mtime \in Int /\ source'[g].mtime \in Int
                       /\ source[g].mtime <= source'[g].mtime
    OBVIOUS
  <2>1. source[g].mtime \in Int /\ source'[g].mtime \in Int /\ clock \in Int
    BY <1>3 DEF Inv, TypeOK, Stamped
  <2>2. source[g].mtime <= clock
    BY DEF Inv, World
  <2>. QED  BY <1>3, <2>1, <2>2
<1>5. TypeOK'
  BY <1>1, <1>2, <1>3 DEF Inv, TypeOK
<1>6. Roles'
  BY <1>1, <1>2, <1>3, <1>4 DEF Inv, Roles, Busy
<1>7. Entries'
  BY <1>1, <1>2, <1>3, <1>4 DEF Inv, Entries, Entry
<1>8. World'
  <2>. SUFFICES ASSUME NEW g \in Files
                PROVE  /\ source'[g].gen \in 0..MaxGen /\ source'[g].mtime <= clock
                       /\ source'[g].gen = 0 => source'[g].len = 0
                       /\ g \in Grown => source'[g].gen \in {0, 1}
    BY <1>1 DEF World
  <2>1. CASE g = f
    BY <1>1, <1>3, <2>1, Bounds DEF Inv, TypeOK, World
  <2>2. CASE g # f
    BY <1>3, <2>2 DEF Inv, World
  <2>. QED  BY <2>1, <2>2
<1>9. Times'
  <2>. SUFFICES ASSUME NEW s \in Slots, NEW g \in Files, Entry(s, g)
               PROVE  /\ The(s, g).gen # 0
                      /\ g \in Grown => The(s, g).gen \in {1, Rotten}
                      /\ g \in Whole =>
                           /\ The(s, g).mtime <= source'[g].mtime
                           /\ The(s, g).mtime = source'[g].mtime /\ source'[g].gen # 0
                                => The(s, g).gen \in {source'[g].gen, Rotten}
    BY <1>1 DEF Times, Entry, The
  <2>1. CASE g # f
    BY <1>3, <2>1 DEF Inv, Times
  <2>2. CASE g = f
    <3>1. The(s, f).mtime \in Int
      BY <2>2 DEF Inv, TypeOK, Stamped, The, Entry
    <3>2. The(s, g).gen # 0 /\ (g \in Grown => The(s, g).gen \in {1, Rotten})
      BY DEF Inv, Times
    <3>3. ASSUME g \in Whole
          PROVE  /\ The(s, g).mtime <= source'[g].mtime
                 /\ The(s, g).mtime = source'[g].mtime /\ source'[g].gen # 0
                      => The(s, g).gen \in {source'[g].gen, Rotten}
      <4>1. /\ The(s, g).mtime <= source[g].mtime
            /\ The(s, g).mtime = source[g].mtime /\ source[g].gen # 0
                 => The(s, g).gen \in {source[g].gen, Rotten}
        BY <3>3 DEF Inv, Times
      <4>2. source'[g].gen # 0 => source'[g].gen = source[g].gen /\ source[g].gen # 0
        BY <1>3, <2>2
      <4>3. The(s, g).mtime <= source'[g].mtime
        BY <1>4, <2>2, <3>1, <4>1
      <4>4. The(s, g).mtime = source'[g].mtime => The(s, g).mtime = source[g].mtime
        BY <1>4, <2>2, <3>1, <4>1
      <4>. QED  BY <4>1, <4>2, <4>3, <4>4
    <3>. QED  BY <3>2, <3>3
  <2>. QED  BY <2>1, <2>2
<1>10. Announcements'
  BY <1>1, <1>2, <1>3, <1>4 DEF Inv, Announcements
<1>11. StillHeld'
  <2>1. \A s \in Slots, g \in Files : held[s][g].len \in Int
    BY DEF Inv, TypeOK, Contents
  <2>2. \A g \in Files : source[g].len \in Int /\ source'[g].len \in Int
    BY <1>3 DEF Inv, TypeOK, Stamped
  <2>3. cur \in Slots
    BY <1>2 DEF Inv, Roles, Busy, Copying
  <2>. QED  BY <1>1, <1>3, <2>1, <2>2, <2>3, Bounds DEF Inv, StillHeld, Copying, Listed
<1>12. Stats'
  <2>1. \A g \in Files : stat[g].mtime \in Int
    BY DEF Inv, TypeOK
  <2>2. todo \subseteq Files
    BY DEF Inv, TypeOK
  <2>. QED  BY <1>1, <1>4, <2>1, <2>2 DEF Inv, Stats, Entry, The, Listed
<1>13. Candidate'
  BY <1>1, <1>2, <1>3, <1>4 DEF Inv, Candidate, Entry, The, Listed
<1>14. Complete'
  BY <1>1, <1>2, <1>3, <1>4 DEF Inv, Complete, HoldsHeld, Entry, The, Busy
<1>15. Summed'
  BY <1>1, <1>2, <1>3, <1>4 DEF Inv, Summed, Entry, The
<1>16. Rehearsed'
  BY <1>1, <1>2, <1>3, <1>4 DEF Inv, Rehearsed, Entry
<1>17. DamageKnown'
  BY <1>1, <1>2, <1>3, <1>4 DEF Inv, DamageKnown, Known, Entry, The
<1>. QED  BY <1>5, <1>6, <1>7, <1>8, <1>9, <1>10, <1>11, <1>12, <1>13, <1>14, <1>15,
             <1>16, <1>17 DEF Inv

\* Damage keeps lengths and times, and is recorded in struck while a snapshot is made.
LEMMA DamageInv ==
  ASSUME Inv, NEW i \in Inodes, Damage(i)
  PROVE  Inv'
<1>1. /\ source' = source /\ clock' = clock /\ file' = file /\ status' = status
      /\ sums' = sums /\ held' = held /\ place' = place /\ cur' = cur /\ prev' = prev
      /\ stat' = stat /\ todo' = todo /\ copy' = copy /\ faults' = faults + 1
  BY DEF Damage, snapshots, locals, world
<1>2. /\ inode' = [inode EXCEPT ![i].gen = Rotten]
      /\ struck' = IF cur = NoSlot THEN struck ELSE struck \cup {i}
  BY DEF Damage
<1>3. /\ inode' \in [Inodes -> Stamped]
      /\ \A j \in Inodes : /\ inode'[j].len = inode[j].len /\ inode'[j].mtime = inode[j].mtime
                           /\ inode'[j].gen \in {inode[j].gen, Rotten}
                           /\ inode'[j].gen # inode[j].gen => j = i
  <2>1. inode \in [Inodes -> Stamped]
    BY DEF Inv, TypeOK
  <2>2. [inode[i] EXCEPT !.gen = Rotten] \in Stamped
    BY <2>1, Bounds DEF Stamped
  <2>3. /\ inode'[i] = [inode[i] EXCEPT !.gen = Rotten]
        /\ \A j \in Inodes : j # i => inode'[j] = inode[j]
        /\ inode' \in [Inodes -> Stamped]
    BY <1>2, <2>1, <2>2
  <2>4. /\ inode'[i].len = inode[i].len /\ inode'[i].mtime = inode[i].mtime
        /\ inode'[i].gen = Rotten
    BY <2>1, <2>3 DEF Stamped
  <2>. QED  BY <2>3, <2>4
<1>4. \A s \in Slots, f \in Files :
        /\ Entry(s, f)' <=> Entry(s, f)
        /\ Entry(s, f) => /\ The(s, f)'.len = The(s, f).len /\ The(s, f)'.mtime = The(s, f).mtime
                          /\ The(s, f)'.gen \in {The(s, f).gen, Rotten}
                          /\ The(s, f)'.gen # The(s, f).gen => file[s][f] = i
  BY <1>1, <1>3 DEF Inv, TypeOK, Entry, The
<1>5. TypeOK'
  BY <1>1, <1>2, <1>3 DEF Inv, TypeOK
<1>6. Roles'
  BY <1>1, <1>2, <1>3, <1>4 DEF Inv, Roles, Busy
<1>7. Entries'
  BY <1>1, <1>2, <1>3, <1>4 DEF Inv, Entries, Entry
<1>8. World'
  BY <1>1, <1>2, <1>3, <1>4 DEF Inv, World
<1>9. Times'
  BY <1>1, <1>4, Bounds DEF Inv, Times
<1>10. Announcements'
  BY <1>1, <1>2, <1>3, <1>4 DEF Inv, Announcements
<1>11. StillHeld'
  BY <1>1, <1>2, <1>3, <1>4 DEF Inv, StillHeld, Copying, Listed
<1>12. Stats'
  <2>1. todo \subseteq Files /\ (place = "link" => cur \in Slots)
    BY DEF Inv, TypeOK, Roles, Busy
  <2>. QED  BY <1>1, <1>4, <2>1 DEF Inv, Stats, Listed
<1>13. Candidate'
  <2>1. place \in {"link", "trim"} => cur \in Slots
    BY DEF Inv, Roles, Busy
  <2>. QED  BY <1>1, <1>4, <2>1 DEF Inv, Candidate, Listed
<1>14. Complete'
  <2>1. place = "sum" => cur \in Slots
    BY DEF Inv, Roles, Busy
  <2>2. \A s \in Slots : HoldsHeld(s) => HoldsHeld(s)'
    BY <1>1, <1>4 DEF HoldsHeld
  <2>. QED  BY <1>1, <2>1, <2>2 DEF Inv, Complete, Busy
<1>15. Summed'
  BY <1>1, <1>4 DEF Inv, Summed
<1>16. Rehearsed'
  <2>1. copy.phase # "none" => copy.of \in Slots
    BY DEF Inv, Rehearsed
  <2>. QED  BY <1>1, <2>1 DEF Inv, Rehearsed, Entry
<1>17. DamageKnown'
  <2>. SUFFICES ASSUME cur # NoSlot
               PROVE  \A f \in Files : Known(cur, f)' /\ (prev # NoSlot => Known(prev, f)')
    BY <1>1 DEF DamageKnown
  <2>1. cur \in Slots /\ (prev # NoSlot => prev \in Slots)
    BY DEF Inv, TypeOK
  <2>2. struck' = struck \cup {i}
    BY <1>2
  <2>3. ASSUME NEW s \in Slots, NEW f \in Files, Known(s, f)
        PROVE  Known(s, f)'
    <3>1. Entry(s, f)' => Entry(s, f)
      BY <1>4
    <3>2. The(s, f)'.gen = Rotten /\ Entry(s, f) => The(s, f).gen = Rotten \/ file[s][f] = i
      BY <1>4
    <3>3. CASE Entry(s, f) /\ The(s, f).gen = Rotten
      BY <1>1, <2>2, <2>3, <3>3 DEF Known
    <3>4. CASE file[s][f] = i
      BY <1>1, <2>2, <3>4 DEF Known
    <3>5. CASE ~(Entry(s, f)' /\ The(s, f)'.gen = Rotten)
      BY ONLY <3>5 DEF Known
    <3>. QED  BY ONLY <3>1, <3>2, <3>3, <3>4, <3>5
  <2>. QED  BY <1>1, <2>1, <2>3 DEF Inv, DamageKnown
<1>. QED  BY <1>5, <1>6, <1>7, <1>8, <1>9, <1>10, <1>11, <1>12, <1>13, <1>14, <1>15,
             <1>16, <1>17 DEF Inv

------------------------------------------------------------------------------
(***************************************************************************)
(* What the repository's directories are after each kind of change.        *)
(***************************************************************************)
\* The slots the lock's holder works with.
LEMMA Owners ==
  ASSUME Inv
  PROVE  /\ todo \subseteq Files /\ (Busy => cur \in Slots)
         /\ (cur # NoSlot => cur \in Slots) /\ (prev # NoSlot => prev \in Slots)
<1>1. TypeOK /\ Roles
  BY DEF Inv
<1>. QED  BY <1>1 DEF TypeOK, Roles

\* A new file takes an inode nobody refers to: every other file stays as it is.
LEMMA PutNewDoes ==
  ASSUME Inv, cur \in Slots, NEW f \in Files, NEW gen \in Gens, NEW len \in 0..MaxLen,
         NEW mtime \in 0..MaxClock, PutNew(f, gen, len, mtime)
  PROVE  /\ file' \in [Slots -> [Files -> Inodes \cup {NoInode}]] /\ inode' \in [Inodes -> Stamped]
         /\ struck' \subseteq Inodes
         /\ file'[cur][f] # NoInode
         /\ inode'[file'[cur][f]] = [gen |-> gen, len |-> len, mtime |-> mtime]
         /\ gen = Rotten => file'[cur][f] \in struck'
         /\ \A s \in Slots, g \in Files : s # cur \/ g # f =>
              /\ file'[s][g] = file[s][g]
              /\ Entry(s, g) => inode'[file[s][g]] = inode[file[s][g]]
         /\ \A s \in Slots, g \in Files :
              Entry(s, g) /\ file[s][g] \in struck => file[s][g] \in struck'
<1>. DEFINE i == CHOOSE j \in Free : TRUE
            new == [gen |-> gen, len |-> len, mtime |-> mtime]
<1>1. i \in Free
  BY DEF PutNew
<1>2. /\ inode' = [inode EXCEPT ![i] = new]
      /\ file' = [file EXCEPT ![cur][f] = i]
      /\ struck' = IF gen = Rotten THEN struck \cup {i} ELSE struck \ {i}
  BY DEF PutNew
<1>3. new \in Stamped
  BY DEF Stamped
<1>. HIDE DEF i, new
<1>4. i \in Inodes /\ i # NoInode /\ \A s \in Slots, g \in Files : file[s][g] # i
  BY <1>1, Bounds DEF Free, Live
<1>5. /\ file \in [Slots -> [Files -> Inodes \cup {NoInode}]] /\ inode \in [Inodes -> Stamped]
      /\ struck \subseteq Inodes
  BY DEF Inv, TypeOK
<1>6. /\ file' \in [Slots -> [Files -> Inodes \cup {NoInode}]] /\ inode' \in [Inodes -> Stamped]
      /\ struck' \subseteq Inodes
  BY <1>2, <1>3, <1>4, <1>5
<1>7. file'[cur][f] = i /\ inode'[i] = new
  BY <1>2, <1>4, <1>5
<1>8. \A s \in Slots, g \in Files : s # cur \/ g # f => file'[s][g] = file[s][g]
  BY <1>2, <1>5
<1>9. \A s \in Slots, g \in Files : Entry(s, g) => inode'[file[s][g]] = inode[file[s][g]]
  BY <1>2, <1>4, <1>5 DEF Entry
<1>10. /\ gen = Rotten => i \in struck'
       /\ \A s \in Slots, g \in Files : file[s][g] \in struck => file[s][g] \in struck'
  BY <1>2, <1>4
<1>. QED  BY <1>4, <1>6, <1>7, <1>8, <1>9, <1>10 DEF new

\* An inode is freed only once no other snapshot refers to it.
LEMMA RemoveDoes ==
  ASSUME Inv, NEW S \in SUBSET Slots, Remove(S)
  PROVE  /\ file' \in [Slots -> [Files -> Inodes \cup {NoInode}]] /\ inode' \in [Inodes -> Stamped]
         /\ \A s \in Slots, f \in Files :
              /\ Entry(s, f)' <=> s \notin S /\ Entry(s, f)
              /\ Entry(s, f)' => file'[s][f] = file[s][f] /\ The(s, f)' = The(s, f)
<1>1. /\ file' = [s \in Slots |-> IF s \in S THEN [f \in Files |-> NoInode] ELSE file[s]]
      /\ inode' = [i \in Inodes |->
           IF \E s \in Slots \ S, f \in Files : file[s][f] = i THEN inode[i] ELSE Blank]
  BY DEF Remove
<1>2. /\ file \in [Slots -> [Files -> Inodes \cup {NoInode}]] /\ inode \in [Inodes -> Stamped]
  BY DEF Inv, TypeOK
<1>3. Blank \in Stamped
  BY Bounds DEF Blank, Stamped
<1>4. file' \in [Slots -> [Files -> Inodes \cup {NoInode}]] /\ inode' \in [Inodes -> Stamped]
  BY <1>1, <1>2, <1>3
<1>5. \A s \in Slots, f \in Files : file'[s][f] = IF s \in S THEN NoInode ELSE file[s][f]
  BY <1>1, <1>2
<1>6. ASSUME NEW s \in Slots, NEW f \in Files, s \notin S, file[s][f] # NoInode
      PROVE  inode'[file[s][f]] = inode[file[s][f]]
  <2>1. file[s][f] \in Inodes
    BY <1>2, <1>6
  <2>2. \E t \in Slots \ S, g \in Files : file[t][g] = file[s][f]
    BY <1>6
  <2>. QED  BY <1>1, <2>1, <2>2
<1>. QED  BY <1>4, <1>5, <1>6 DEF Entry, The

------------------------------------------------------------------------------
(***************************************************************************)
(* The steps of a snapshot.                                                *)
(***************************************************************************)
\* A new entry of the candidate, by a link, a copy or a cut, is what the list
\* allows; the other files are as they were.
LEMMA EntryAdded ==
  ASSUME Inv, place \in {"link", "trim"}, NEW f \in todo,
         file' \in [Slots -> [Files -> Inodes \cup {NoInode}]], inode' \in [Inodes -> Stamped],
         struck' \subseteq Inodes,
         NEW x \in Stamped, file'[cur][f] # NoInode, inode'[file'[cur][f]] = x,
         \A s \in Slots, g \in Files : s # cur \/ g # f =>
           /\ file'[s][g] = file[s][g]
           /\ Entry(s, g) => inode'[file[s][g]] = inode[file[s][g]],
         \A s \in Slots, g \in Files :
           Entry(s, g) /\ file[s][g] \in struck => file[s][g] \in struck',
         held[cur][f] # Absent, x.gen # 0, x.gen \in {held[cur][f].gen, Rotten},
         f \in Grown => x.gen \in {1, Rotten},
         f \in Whole =>
           /\ x.len <= held[cur][f].len /\ x.mtime <= source[f].mtime
           /\ x.mtime = source[f].mtime /\ source[f].gen # 0 => x.gen \in {source[f].gen, Rotten},
         place = "trim" => x.len = held[cur][f].len,
         x.gen = Rotten =>
           file'[cur][f] \in struck' \/ (prev # NoSlot /\ sums[prev][f].gen = Rotten),
         todo' = todo \ {f},
         UNCHANGED <<world, status, sums, held, place, cur, prev, stat, copy, faults>>
  PROVE  Inv'
<1>1. /\ source' = source /\ clock' = clock /\ status' = status /\ sums' = sums /\ held' = held
      /\ place' = place /\ cur' = cur /\ prev' = prev /\ stat' = stat /\ copy' = copy
      /\ faults' = faults
  BY DEF world
<1>2. cur \in Slots /\ f \in Files /\ status[cur] = "temp" /\ (prev # NoSlot => prev \in Slots)
      /\ todo \subseteq Files /\ (prev # NoSlot => prev # cur)
  <2>1. Busy /\ place # "pending"
    BY DEF Busy
  <2>. QED  BY <2>1, Owners DEF Inv, Roles
<1>3. /\ Entry(cur, f)' /\ The(cur, f)' = x
      /\ \A s \in Slots, g \in Files : s # cur \/ g # f =>
           /\ file'[s][g] = file[s][g] /\ (Entry(s, g)' <=> Entry(s, g))
           /\ Entry(s, g) => The(s, g)' = The(s, g)
  BY <1>1, <1>2 DEF Entry, The
<1>4. TypeOK'
  BY <1>1, <1>2 DEF Inv, TypeOK
<1>5. Roles'
  BY <1>1 DEF Inv, Roles, Busy
<1>6. Entries'
  <2>1. \A s \in Slots : status'[s] \in {"none", "gone"} => s # cur
    BY <1>1, <1>2
  <2>. QED  BY <1>1, <1>3, <2>1 DEF Inv, Entries
<1>7. World'
  BY <1>1 DEF Inv, World
<1>8. Times'
  <2>. SUFFICES ASSUME NEW s \in Slots, NEW g \in Files, Entry(s, g)'
                PROVE  /\ The(s, g)'.gen # 0
                       /\ g \in Grown => The(s, g)'.gen \in {1, Rotten}
                       /\ g \in Whole =>
                            /\ The(s, g)'.mtime <= source[g].mtime
                            /\ The(s, g)'.mtime = source[g].mtime /\ source[g].gen # 0
                                 => The(s, g)'.gen \in {source[g].gen, Rotten}
    BY <1>1 DEF Times
  <2>1. CASE s = cur /\ g = f
    BY <1>3, <2>1
  <2>2. CASE s # cur \/ g # f
    BY <1>3, <2>2 DEF Inv, Times
  <2>. QED  BY <2>1, <2>2
<1>9. Announcements'
  BY <1>1 DEF Inv, Announcements
<1>10. StillHeld'
  BY <1>1 DEF Inv, StillHeld, Copying, Listed
<1>11. Stats'
  BY <1>1, <1>2, <1>3 DEF Inv, Stats, Listed
<1>12. Candidate'
  <2>1. /\ \A g \in Files : Entry(cur, g)' =>
             /\ held[cur][g] # Absent
             /\ The(cur, g)'.gen \in {held[cur][g].gen, Rotten}
             /\ g \in Whole => The(cur, g)'.len <= held[cur][g].len
    <3>. SUFFICES ASSUME NEW g \in Files, Entry(cur, g)'
                  PROVE  /\ held[cur][g] # Absent
                         /\ The(cur, g)'.gen \in {held[cur][g].gen, Rotten}
                         /\ g \in Whole => The(cur, g)'.len <= held[cur][g].len
      OBVIOUS
    <3>1. CASE g = f
      BY <1>3, <3>1
    <3>2. CASE g # f
      BY <1>2, <1>3, <3>2 DEF Inv, Candidate
    <3>. QED  BY <3>1, <3>2
  <2>2. ASSUME place = "trim", NEW g \in Listed(cur) \ todo'
        PROVE  Entry(cur, g)' /\ The(cur, g)'.len = held[cur][g].len
    <3>1. g \in Files
      BY DEF Listed
    <3>2. CASE g = f
      BY <1>3, <2>2, <3>2
    <3>3. CASE g # f
      BY <1>2, <1>3, <2>2, <3>1, <3>3 DEF Inv, Candidate
    <3>. QED  BY <3>2, <3>3
  <2>. QED  BY <1>1, <2>1, <2>2 DEF Candidate, Listed
<1>13. Complete'
  <2>1. \A s \in Slots : s # cur /\ HoldsHeld(s) => HoldsHeld(s)'
    BY <1>1, <1>3 DEF HoldsHeld
  <2>2. \A s \in Slots : status'[s] \in {"pending", "verified"} => s # cur
    BY <1>1, <1>2
  <2>. QED  BY <1>1, <2>1, <2>2 DEF Inv, Complete, Busy
<1>14. Summed'
  <2>1. \A s \in Slots : status'[s] \in {"pending", "verified"} => s # cur
    BY <1>1, <1>2
  <2>. QED  BY <1>1, <1>3, <2>1 DEF Inv, Summed
<1>15. Rehearsed'
  BY <1>1 DEF Inv, Rehearsed
<1>16. DamageKnown'
  <2>. SUFFICES ASSUME NEW g \in Files
                PROVE  Known(cur, g)' /\ (prev # NoSlot => Known(prev, g)')
    BY <1>1 DEF DamageKnown
  <2>1. ASSUME NEW s \in Slots, s # cur \/ g # f, Known(s, g) PROVE Known(s, g)'
    BY <1>1, <1>3, <2>1 DEF Known, Entry
  <2>2. Known(cur, g) /\ (prev # NoSlot => Known(prev, g))
    <3>1. cur # NoSlot
      BY <1>2, Bounds
    <3>. QED  BY <3>1 DEF Inv, DamageKnown
  <2>3. prev # NoSlot => Known(prev, g)'
    BY <1>2, <2>1, <2>2
  <2>4. CASE g = f
    BY <1>1, <1>3, <2>3, <2>4 DEF Known
  <2>5. CASE g # f
    BY <1>2, <2>1, <2>2, <2>3, <2>5
  <2>. QED  BY <2>4, <2>5
<1>. QED  BY <1>4, <1>5, <1>6, <1>7, <1>8, <1>9, <1>10, <1>11, <1>12, <1>13, <1>14,
             <1>15, <1>16 DEF Inv

\* The candidate and its entries are gone; the others keep theirs.
LEMMA GiveUpInv ==
  ASSUME Inv, Busy, GiveUp, faults' \in Nat
  PROVE  Inv'
<1>1. /\ status' = [status EXCEPT ![cur] = "gone"]
      /\ held' = [held EXCEPT ![cur] = Nothing] /\ sums' = [sums EXCEPT ![cur] = Nothing]
      /\ place' = "idle" /\ cur' = NoSlot /\ prev' = NoSlot
      /\ stat' = [f \in Files |-> NoStat] /\ todo' = {} /\ struck' = {}
      /\ source' = source /\ clock' = clock /\ copy' = copy
  BY DEF GiveUp, Idle, world
<1>2. cur \in Slots /\ status[cur] \in {"temp", "pending"}
  BY DEF Inv, Roles
<1>3. /\ file' \in [Slots -> [Files -> Inodes \cup {NoInode}]] /\ inode' \in [Inodes -> Stamped]
      /\ \A s \in Slots, f \in Files :
           /\ Entry(s, f)' <=> s # cur /\ Entry(s, f)
           /\ Entry(s, f)' => The(s, f)' = The(s, f)
  BY <1>2, RemoveDoes DEF GiveUp
<1>4. /\ \A s \in Slots : s # cur => status'[s] = status[s] /\ held'[s] = held[s] /\ sums'[s] = sums[s]
      /\ status'[cur] = "gone"
      /\ \A f \in Files : held'[cur][f] = Absent /\ sums'[cur][f] = Absent
  BY <1>1, <1>2 DEF Inv, TypeOK, Nothing
<1>5. TypeOK'
  <2>1. Nothing \in [Files -> Contents] /\ NoStat \in [len : 0..MaxLen, mtime : 0..MaxClock]
    BY Bounds DEF Nothing, Absent, Contents, NoStat
  <2>. QED  BY <1>1, <1>2, <1>3, <2>1 DEF Inv, TypeOK, Places
<1>6. Roles'
  BY <1>1, <1>2, <1>4 DEF Inv, Roles, Busy
<1>7. Entries'
  BY <1>1, <1>3, <1>4 DEF Inv, Entries
<1>8. World'
  BY <1>1 DEF Inv, World
<1>9. Times'
  BY <1>1, <1>3 DEF Inv, Times
<1>10. Announcements'
  BY <1>4 DEF Inv, Announcements
<1>11. StillHeld' /\ Stats' /\ Candidate'
  BY <1>1 DEF StillHeld, Copying, Stats, Candidate
<1>12. Complete'
  <2>1. \A s \in Slots : s # cur /\ HoldsHeld(s) => HoldsHeld(s)'
    BY <1>3, <1>4 DEF HoldsHeld
  <2>. QED  BY <1>1, <1>4, <2>1 DEF Inv, Complete, Busy
<1>13. Summed'
  <2>. SUFFICES ASSUME NEW s \in Slots, NEW f \in Files
                PROVE  /\ status'[s] \in {"none", "temp"} => sums'[s][f] = Absent
                       /\ status'[s] \in {"pending", "verified", "gone"} =>
                            sums'[s][f] = held'[s][f] \/ sums'[s][f].gen = Rotten
                       /\ status'[s] \in {"pending", "verified"} =>
                            /\ Entry(s, f)' <=> sums'[s][f] # Absent
                            /\ Entry(s, f)' => /\ The(s, f)'.len = sums'[s][f].len
                                               /\ The(s, f)'.gen \in {sums'[s][f].gen, Rotten}
    BY DEF Summed
  <2>1. CASE s = cur
    BY <1>4, <2>1
  <2>2. CASE s # cur
    BY <1>3, <1>4, <2>2 DEF Inv, Summed
  <2>. QED  BY <2>1, <2>2
<1>14. Rehearsed'
  BY <1>1, <1>2, <1>4 DEF Inv, Rehearsed
<1>15. DamageKnown'
  BY <1>1 DEF DamageKnown
<1>. QED  BY <1>5, <1>6, <1>7, <1>8, <1>9, <1>10, <1>11, <1>12, <1>13, <1>14, <1>15 DEF Inv

\* What BDS announces is what the world holds, or a prefix of it.
LEMMA QueryInv ==
  ASSUME Inv, Query
  PROVE  Inv'
<1>1. CASE GiveUp
  <2>1. Busy /\ faults' \in Nat
    BY DEF Query, Busy, Inv, TypeOK
  <2>. QED  BY <1>1, <2>1, GiveUpInv
<1>2. ASSUME NEW list \in [Files -> Contents],
             \A f \in Files : list[f] \in Announced(f) \cup {Absent},
             \A f \in Required : list[f] # Absent,
             held' = [held EXCEPT ![cur] = list], place' = "stat",
             UNCHANGED <<world, inode, file, status, sums, cur, prev, stat, todo, copy, struck>>
      PROVE  Inv'
  <2>1. /\ source' = source /\ clock' = clock /\ inode' = inode /\ file' = file
        /\ status' = status /\ sums' = sums /\ cur' = cur /\ prev' = prev /\ stat' = stat
        /\ todo' = todo /\ copy' = copy /\ struck' = struck /\ faults' = faults /\ place = "hold"
    BY <1>2 DEF Query, world
  <2>2. cur \in Slots /\ status[cur] = "temp"
    BY <2>1, Owners DEF Inv, Roles, Busy
  <2>3. held'[cur] = list /\ \A s \in Slots : s # cur => held'[s] = held[s]
    BY <1>2, <2>2 DEF Inv, TypeOK
  <2>4. \A f \in Files : list[f] # Absent =>
          /\ list[f].gen = source[f].gen /\ source[f].gen \in 1..MaxGen
          /\ f \in Grown => list[f].gen = 1
          /\ f \in Whole => list[f].len = source[f].len
    <3>. SUFFICES ASSUME NEW f \in Files, list[f] # Absent
                  PROVE  /\ list[f].gen = source[f].gen /\ source[f].gen \in 1..MaxGen
                         /\ f \in Grown => list[f].gen = 1
                         /\ f \in Whole => list[f].len = source[f].len
      OBVIOUS
    <3>1. /\ source[f].gen \in 0..MaxGen /\ source[f].len \in 0..MaxLen
          /\ source[f].gen = 0 => source[f].len = 0
          /\ f \in Grown => source[f].gen \in {0, 1}
      BY DEF Inv, World, TypeOK, Stamped
    <3>2. list[f] \in Announced(f)
      BY <1>2
    <3>3. PICK n : /\ n \in IF f \in Grown THEN 1..source[f].len ELSE {source[f].len}
                   /\ list[f] = [gen |-> source[f].gen, len |-> n]
      BY <3>2 DEF Announced
    <3>4. list[f].gen = source[f].gen /\ list[f].len = n
      BY <3>3
    <3>5. f \notin Grown => n = source[f].len
      BY <3>3
    <3>6. source[f].gen # 0
      <4>1. CASE f \in Grown
        <5>1. n \in 1..source[f].len
          BY <3>3, <4>1
        <5>. QED  BY <3>1, <5>1
      <4>2. CASE f \notin Grown
        BY <3>1, <3>3, <3>5, <4>2 DEF Absent
      <4>. QED  BY <4>1, <4>2
    <3>. QED  BY <3>1, <3>4, <3>5, <3>6, Bounds
  <2>5. TypeOK'
    BY <1>2, <2>1, <2>2 DEF Inv, TypeOK, Places
  <2>6. Roles'
    BY <1>2, <2>1 DEF Inv, Roles, Busy
  <2>7. Entries'
    BY <1>2, <2>1 DEF Inv, Entries, Entry
  <2>8. World' /\ Times'
    BY <2>1 DEF Inv, World, Times, Entry, The
  <2>9. Announcements'
    <3>. SUFFICES ASSUME NEW s \in Slots, NEW f \in Files, held'[s][f] # Absent
                  PROVE  held'[s][f].gen \in 1..MaxGen /\ (f \in Grown => held'[s][f].gen = 1)
      BY DEF Announcements
    <3>1. CASE s = cur
      BY <2>3, <2>4, <3>1
    <3>2. CASE s # cur
      BY <2>3, <3>2 DEF Inv, Announcements
    <3>. QED  BY <3>1, <3>2
  <2>10. StillHeld'
    <3>. SUFFICES ASSUME NEW f \in Files, f \in Whole, list[f] # Absent
                  PROVE  source[f].gen \in {0, list[f].gen} /\ source[f].len <= list[f].len
      BY <2>1, <2>3 DEF StillHeld, Listed
    <3>1. source[f].len \in Int
      BY DEF Inv, TypeOK, Stamped
    <3>. QED  BY <2>4, <3>1
  <2>11. Stats' /\ Candidate'
    BY <1>2 DEF Stats, Candidate
  <2>12. Complete'
    <3>1. \A s \in Slots : s # cur /\ HoldsHeld(s) => HoldsHeld(s)'
      BY <2>1, <2>3 DEF HoldsHeld, Entry, The
    <3>2. \A s \in Slots : status'[s] \in {"pending", "verified"} => s # cur
      BY <2>1, <2>2
    <3>3. \A f \in Required : held'[cur'][f] # Absent
      BY <1>2, <2>1, <2>3
    <3>. QED  BY <1>2, <2>1, <2>3, <3>1, <3>2, <3>3 DEF Inv, Complete
  <2>13. Summed'
    <3>1. \A s \in Slots : status'[s] \in {"pending", "verified", "gone"} => s # cur
      BY <2>1, <2>2
    <3>. QED  BY <2>1, <2>3, <3>1 DEF Inv, Summed, Entry, The
  <2>14. Rehearsed'
    BY <1>2, <2>1 DEF Inv, Rehearsed
  <2>15. DamageKnown'
    BY <2>1 DEF Inv, DamageKnown, Known, Entry, The
  <2>. QED  BY <2>5, <2>6, <2>7, <2>8, <2>9, <2>10, <2>11, <2>12, <2>13, <2>14,
               <2>15 DEF Inv
<1>. QED  BY <1>1, <1>2 DEF Query

\* The list rsync works from: a whole file with a time seen before has that writing.
LEMMA StatInv ==
  ASSUME Inv, Stat
  PROVE  Inv'
<1>1. /\ place = "stat" /\ place' = "link"
      /\ stat' = [f \in Files |->
           IF f \in Listed(cur) /\ source[f].gen > 0
           THEN [len |-> source[f].len, mtime |-> source[f].mtime] ELSE NoStat]
      /\ todo' = {f \in Listed(cur) : source[f].gen > 0}
  BY DEF Stat
<1>2. /\ source' = source /\ clock' = clock /\ inode' = inode /\ file' = file
      /\ status' = status /\ sums' = sums /\ held' = held /\ cur' = cur /\ prev' = prev
      /\ copy' = copy /\ struck' = struck /\ faults' = faults
  BY DEF Stat, world, snapshots
<1>3. cur \in Slots /\ Listed(cur) \subseteq Files /\ \A f \in Files : ~Entry(cur, f)
  BY <1>1, Owners DEF Inv, Entries, Busy, Listed
<1>4. \A f \in Files : source[f].gen \in Int /\ source[f].len \in 0..MaxLen
                       /\ source[f].mtime \in 0..MaxClock
  BY Bounds DEF Inv, TypeOK, Stamped, Gens
<1>5. \A f \in todo' : /\ f \in Files /\ f \in Listed(cur) /\ source[f].gen # 0
                       /\ stat'[f].len = source[f].len /\ stat'[f].mtime = source[f].mtime
  BY <1>1, <1>3, <1>4
<1>6. TypeOK'
  <2>1. \A f \in Files : stat'[f] \in [len : 0..MaxLen, mtime : 0..MaxClock]
    BY <1>1, <1>4, Bounds DEF NoStat
  <2>2. stat' \in [Files -> [len : 0..MaxLen, mtime : 0..MaxClock]]
    BY <1>1, <2>1
  <2>3. todo' \subseteq Files
    BY <1>5
  <2>. QED  BY <1>1, <1>2, <2>2, <2>3 DEF Inv, TypeOK, Places
<1>7. Roles'
  BY <1>1, <1>2 DEF Inv, Roles, Busy
<1>8. Entries'
  BY <1>1, <1>2 DEF Inv, Entries, Entry
<1>9. World' /\ Times' /\ Announcements'
  BY <1>2 DEF Inv, World, Times, Entry, The, Announcements
<1>10. StillHeld'
  BY <1>1, <1>2 DEF Inv, StillHeld, Copying, Listed
<1>11. Stats'
  <2>. SUFFICES ASSUME NEW f \in todo'
                PROVE  /\ f \in Listed(cur) /\ ~Entry(cur, f)
                       /\ f \in Whole =>
                            /\ stat'[f].mtime <= source[f].mtime
                            /\ stat'[f].len <= held[cur][f].len
                            /\ \A s \in Slots : Entry(s, f) /\ The(s, f).mtime = stat'[f].mtime
                                 => The(s, f).gen \in {held[cur][f].gen, Rotten}
    BY <1>2 DEF Stats, Entry, The, Listed
  <2>1. f \in Listed(cur) /\ ~Entry(cur, f)
    BY <1>3, <1>5
  <2>2. ASSUME f \in Whole
        PROVE  /\ stat'[f].mtime <= source[f].mtime
               /\ stat'[f].len <= held[cur][f].len
               /\ \A s \in Slots : Entry(s, f) /\ The(s, f).mtime = stat'[f].mtime
                    => The(s, f).gen \in {held[cur][f].gen, Rotten}
    <3>1. source[f].gen = held[cur][f].gen /\ source[f].len <= held[cur][f].len
      BY <1>1, <1>5, <2>1, <2>2 DEF Inv, StillHeld, Copying
    <3>2. \A s \in Slots : Entry(s, f) /\ The(s, f).mtime = source[f].mtime
                    => The(s, f).gen \in {source[f].gen, Rotten}
      BY <1>5, <2>2 DEF Inv, Times
    <3>. QED  BY <1>4, <1>5, <3>1, <3>2
  <2>. QED  BY <2>1, <2>2
<1>12. Candidate'
  <2>1. \A f \in Files : ~Entry(cur, f)'
    BY <1>2, <1>3 DEF Entry
  <2>. QED  BY <1>1, <1>2, <2>1 DEF Candidate
<1>13. Complete'
  <2>1. \A s \in Slots : HoldsHeld(s) => HoldsHeld(s)'
    BY <1>2 DEF HoldsHeld, Entry, The
  <2>. QED  BY <1>1, <1>2, <2>1 DEF Inv, Complete, Busy
<1>14. Summed'
  BY <1>2 DEF Inv, Summed, Entry, The
<1>15. Rehearsed'
  BY <1>1, <1>2 DEF Inv, Rehearsed
<1>16. DamageKnown'
  BY <1>2 DEF Inv, DamageKnown, Known, Entry, The
<1>. QED  BY <1>6, <1>7, <1>8, <1>9, <1>10, <1>11, <1>12, <1>13, <1>14, <1>15, <1>16 DEF Inv

\* A file is linked if length and time are the same, and copied otherwise.
LEMMA TransferInv ==
  ASSUME Inv, NEW f \in Files, Transfer(f)
  PROVE  Inv'
<1>1. /\ place = "link" /\ f \in todo /\ Busy /\ faults' \in Nat /\ faults' = faults
      /\ cur \in Slots /\ (prev # NoSlot => prev \in Slots)
  <2>1. place = "link" /\ f \in todo /\ faults' = faults
    BY DEF Transfer
  <2>. QED  BY <2>1, Owners DEF Busy, Inv, TypeOK
<1>2. CASE source[f].gen = 0 /\ ~Same(f)
  BY <1>1, <1>2, GiveUpInv DEF Transfer
<1>3. CASE ~(source[f].gen = 0 /\ ~Same(f))
  <2>1. /\ todo' = todo \ {f}
        /\ UNCHANGED <<world, status, sums, held, place, cur, prev, stat, copy, faults>>
    BY <1>1, <1>3 DEF Transfer
  <2>2. /\ f \in Listed(cur) /\ held[cur][f] # Absent /\ ~Entry(cur, f)
        /\ held[cur][f].gen \in 1..MaxGen /\ (f \in Grown => held[cur][f].gen = 1)
        /\ f \in Whole =>
             /\ stat[f].mtime <= source[f].mtime
             /\ stat[f].len <= held[cur][f].len
             /\ \A s \in Slots : Entry(s, f) /\ The(s, f).mtime = stat[f].mtime
                  => The(s, f).gen \in {held[cur][f].gen, Rotten}
    BY <1>1 DEF Inv, Stats, Announcements, Listed
  <2>3. CASE Same(f)
    <3>1. /\ file' = [file EXCEPT ![cur][f] = file[prev][f]] /\ inode' = inode /\ struck' = struck
      BY <1>3, <2>3 DEF Transfer
    <3>2. /\ prev \in Slots /\ Entry(prev, f)
          /\ The(prev, f).len = stat[f].len /\ The(prev, f).mtime = stat[f].mtime
      BY <1>1, <2>3 DEF Same, Entry, The
    <3>3. /\ file \in [Slots -> [Files -> Inodes \cup {NoInode}]] /\ inode \in [Inodes -> Stamped]
          /\ struck \subseteq Inodes
      BY DEF Inv, TypeOK
    <3>4. file' \in [Slots -> [Files -> Inodes \cup {NoInode}]] /\ inode' \in [Inodes -> Stamped]
          /\ struck' \subseteq Inodes
      BY <3>1, <3>2, <3>3
    <3>5. /\ file'[cur][f] = file[prev][f] /\ file'[cur][f] # NoInode
          /\ The(prev, f) \in Stamped /\ inode'[file'[cur][f]] = The(prev, f)
      BY <1>1, <3>1, <3>2, <3>3 DEF Entry, The
    <3>6. \A s \in Slots, g \in Files : s # cur \/ g # f =>
            /\ file'[s][g] = file[s][g]
            /\ Entry(s, g) => inode'[file[s][g]] = inode[file[s][g]]
      BY <1>1, <3>1, <3>3
    <3>7. /\ The(prev, f).gen # 0
          /\ f \in Grown => The(prev, f).gen \in {1, Rotten}
          /\ f \in Whole =>
               /\ The(prev, f).mtime <= source[f].mtime
               /\ The(prev, f).mtime = source[f].mtime /\ source[f].gen # 0
                    => The(prev, f).gen \in {source[f].gen, Rotten}
      BY <3>2 DEF Inv, Times
    <3>8. /\ The(prev, f).gen \in {held[cur][f].gen, Rotten}
          /\ f \in Whole => The(prev, f).len <= held[cur][f].len
      BY <2>2, <3>2, <3>7 DEF Files
    <3>9. The(prev, f).gen = Rotten =>
            file'[cur][f] \in struck' \/ (prev # NoSlot /\ sums[prev][f].gen = Rotten)
      <4>1. Known(prev, f)
        BY <1>1, <3>2, Bounds DEF Inv, DamageKnown
      <4>. QED  BY <3>1, <3>2, <3>5, <4>1 DEF Known
    <3>. QED  BY <1>1, <2>1, <2>2, <3>1, <3>4, <3>5, <3>6, <3>7, <3>8, <3>9, EntryAdded
  <2>4. CASE ~Same(f)
    <3>1. source[f].gen # 0 /\ PutNew(f, source[f].gen, source[f].len, stat[f].mtime)
      BY <1>3, <2>4 DEF Transfer
    <3>2. /\ source[f].gen \in Gens /\ source[f].len \in 0..MaxLen /\ stat[f].mtime \in 0..MaxClock
          /\ source[f].gen # Rotten /\ (f \in Grown => source[f].gen = 1)
      <4>1. source[f].gen \in 0..MaxGen /\ (f \in Grown => source[f].gen \in {0, 1})
        BY DEF Inv, World
      <4>. QED  BY <3>1, <4>1, Bounds DEF Inv, TypeOK, Stamped
    <3>. DEFINE x == [gen |-> source[f].gen, len |-> source[f].len, mtime |-> stat[f].mtime]
    <3>3. x \in Stamped /\ x.gen = source[f].gen /\ x.len = source[f].len /\ x.mtime = stat[f].mtime
      BY <3>2 DEF Stamped
    <3>4. /\ file' \in [Slots -> [Files -> Inodes \cup {NoInode}]] /\ inode' \in [Inodes -> Stamped]
          /\ struck' \subseteq Inodes
          /\ file'[cur][f] # NoInode
          /\ inode'[file'[cur][f]] = x
          /\ \A s \in Slots, g \in Files : s # cur \/ g # f =>
               /\ file'[s][g] = file[s][g]
               /\ Entry(s, g) => inode'[file[s][g]] = inode[file[s][g]]
          /\ \A s \in Slots, g \in Files :
               Entry(s, g) /\ file[s][g] \in struck => file[s][g] \in struck'
      BY <1>1, <3>1, <3>2, PutNewDoes
    <3>5. f \in Whole => source[f].gen = held[cur][f].gen /\ source[f].len <= held[cur][f].len
      BY <1>1, <2>2, <3>1 DEF Inv, StillHeld, Copying
    <3>6. x.gen \in {held[cur][f].gen, Rotten} /\ x.gen # 0 /\ x.gen # Rotten
      BY <2>2, <3>1, <3>2, <3>3, <3>5 DEF Files
    <3>7. f \in Grown => x.gen \in {1, Rotten}
      BY <3>2, <3>3
    <3>8. f \in Whole =>
            /\ x.len <= held[cur][f].len /\ x.mtime <= source[f].mtime
            /\ x.mtime = source[f].mtime /\ source[f].gen # 0 => x.gen \in {source[f].gen, Rotten}
      BY <2>2, <3>3, <3>5
    <3>. HIDE DEF x
    <3>. QED  BY <1>1, <2>1, <2>2, <3>3, <3>4, <3>6, <3>7, <3>8, EntryAdded
  <2>. QED  BY <2>3, <2>4
<1>. QED  BY <1>2, <1>3

\* rsync is done: every listed file is still to be seen to.
LEMMA TransferredInv ==
  ASSUME Inv, Transferred
  PROVE  Inv'
<1>1. /\ place = "link" /\ todo = {} /\ place' = "trim"
      /\ todo' = Listed(cur) /\ stat' = [f \in Files |-> NoStat]
  BY DEF Transferred
<1>2. /\ source' = source /\ clock' = clock /\ inode' = inode /\ file' = file
      /\ status' = status /\ sums' = sums /\ held' = held /\ cur' = cur /\ prev' = prev
      /\ copy' = copy /\ struck' = struck /\ faults' = faults
  BY DEF Transferred, world, snapshots
<1>3. TypeOK'
  <2>1. NoStat \in [len : 0..MaxLen, mtime : 0..MaxClock]
    BY Bounds DEF NoStat
  <2>2. todo' \subseteq Files /\ stat' \in [Files -> [len : 0..MaxLen, mtime : 0..MaxClock]]
    BY <1>1, <2>1 DEF Listed
  <2>. QED  BY <1>1, <1>2, <2>2 DEF Inv, TypeOK, Places
<1>4. Roles'
  BY <1>1, <1>2 DEF Inv, Roles, Busy
<1>5. Entries'
  BY <1>1, <1>2 DEF Inv, Entries, Entry
<1>6. World' /\ Times' /\ Announcements'
  BY <1>2 DEF Inv, World, Times, Entry, The, Announcements
<1>7. StillHeld'
  BY <1>1, <1>2 DEF Inv, StillHeld, Copying, Listed
<1>8. Stats'
  BY <1>1 DEF Stats
<1>9. Candidate'
  BY <1>1, <1>2 DEF Inv, Candidate, Entry, The, Listed
<1>10. Complete'
  <2>1. \A s \in Slots : HoldsHeld(s) => HoldsHeld(s)'
    BY <1>2 DEF HoldsHeld, Entry, The
  <2>. QED  BY <1>1, <1>2, <2>1 DEF Inv, Complete, Busy
<1>11. Summed'
  BY <1>2 DEF Inv, Summed, Entry, The
<1>12. Rehearsed'
  BY <1>1, <1>2 DEF Inv, Rehearsed
<1>13. DamageKnown'
  BY <1>2 DEF Inv, DamageKnown, Known, Entry, The
<1>. QED  BY <1>3, <1>4, <1>5, <1>6, <1>7, <1>8, <1>9, <1>10, <1>11, <1>12, <1>13 DEF Inv

\* A file that is longer than announced is cut by a private copy; a file BDS
\* writes as a whole never is longer.
LEMMA TrimInv ==
  ASSUME Inv, NEW f \in Files, Trim(f)
  PROVE  Inv'
<1>1. /\ place = "trim" /\ f \in todo /\ Busy /\ faults' \in Nat /\ faults' = faults
      /\ cur \in Slots
  <2>1. place = "trim" /\ f \in todo /\ faults' = faults
    BY DEF Trim
  <2>. QED  BY <2>1, Owners DEF Busy, Inv, TypeOK
<1>2. CASE TooShort(f)
  BY <1>1, <1>2, GiveUpInv DEF Trim
<1>3. CASE ~TooShort(f)
  <2>1. /\ todo' = todo \ {f}
        /\ UNCHANGED <<world, status, sums, held, place, cur, prev, stat, copy, faults>>
    BY <1>1, <1>3 DEF Trim
  <2>2. /\ file \in [Slots -> [Files -> Inodes \cup {NoInode}]] /\ inode \in [Inodes -> Stamped]
        /\ struck \subseteq Inodes
    BY DEF Inv, TypeOK
  <2>3. Entry(cur, f) /\ file[cur][f] \in Inodes /\ The(cur, f) \in Stamped
    BY <1>1, <1>3, <2>2 DEF TooShort, Entry, The
  <2>4. The(cur, f).len \in 0..MaxLen /\ held[cur][f].len \in 0..MaxLen /\ clock \in 0..MaxClock
        /\ The(cur, f).gen \in Gens
    BY <1>1, <2>3 DEF Inv, TypeOK, Contents, Stamped
  <2>5. The(cur, f).len >= held[cur][f].len
    BY <1>3, <2>3, <2>4 DEF TooShort, Entry, The
  <2>6. /\ The(cur, f).gen # 0
        /\ f \in Grown => The(cur, f).gen \in {1, Rotten}
        /\ f \in Whole =>
             /\ The(cur, f).mtime <= source[f].mtime
             /\ The(cur, f).mtime = source[f].mtime /\ source[f].gen # 0
                  => The(cur, f).gen \in {source[f].gen, Rotten}
    BY <1>1, <2>3 DEF Inv, Times
  <2>7. /\ held[cur][f] # Absent
        /\ The(cur, f).gen \in {held[cur][f].gen, Rotten}
        /\ f \in Whole => The(cur, f).len <= held[cur][f].len
    BY <1>1, <2>3 DEF Inv, Candidate
  <2>8. The(cur, f).gen = Rotten =>
          file[cur][f] \in struck \/ (prev # NoSlot /\ sums[prev][f].gen = Rotten)
    <3>1. cur # NoSlot
      BY <1>1, Bounds
    <3>2. Known(cur, f)
      BY <3>1 DEF Inv, DamageKnown
    <3>. QED  BY <2>3, <3>2 DEF Known
  <2>9. CASE The(cur, f).len > held[cur][f].len
    <3>1. PutNew(f, The(cur, f).gen, held[cur][f].len, clock)
      BY <1>1, <1>3, <2>9 DEF Trim, Shorten, The
    <3>2. f \in Grown
      BY <2>4, <2>7, <2>9 DEF Files
    <3>. DEFINE x == [gen |-> The(cur, f).gen, len |-> held[cur][f].len, mtime |-> clock]
    <3>3. x \in Stamped /\ x.gen = The(cur, f).gen /\ x.len = held[cur][f].len
      BY <2>4 DEF Stamped
    <3>4. /\ file' \in [Slots -> [Files -> Inodes \cup {NoInode}]] /\ inode' \in [Inodes -> Stamped]
          /\ struck' \subseteq Inodes
          /\ file'[cur][f] # NoInode
          /\ inode'[file'[cur][f]] = x
          /\ The(cur, f).gen = Rotten => file'[cur][f] \in struck'
          /\ \A s \in Slots, g \in Files : s # cur \/ g # f =>
               /\ file'[s][g] = file[s][g]
               /\ Entry(s, g) => inode'[file[s][g]] = inode[file[s][g]]
          /\ \A s \in Slots, g \in Files :
               Entry(s, g) /\ file[s][g] \in struck => file[s][g] \in struck'
      BY <1>1, <2>4, <3>1, PutNewDoes
    <3>5. f \notin Whole
      BY <3>2, Bounds
    <3>. HIDE DEF x
    <3>. QED  BY <1>1, <2>1, <2>6, <2>7, <3>3, <3>4, <3>5, EntryAdded
  <2>10. CASE ~(The(cur, f).len > held[cur][f].len)
    <3>1. file' = file /\ inode' = inode /\ struck' = struck
      BY <1>1, <1>3, <2>10 DEF Trim, The
    <3>2. The(cur, f).len = held[cur][f].len
      BY <2>4, <2>5, <2>10
    <3>3. /\ file'[cur][f] # NoInode /\ inode'[file'[cur][f]] = The(cur, f)
          /\ file'[cur][f] = file[cur][f]
      BY <2>3, <3>1 DEF Entry, The
    <3>. QED  BY <1>1, <2>1, <2>2, <2>3, <2>6, <2>7, <2>8, <3>1, <3>2, <3>3, EntryAdded
  <2>. QED  BY <2>9, <2>10
<1>. QED  BY <1>2, <1>3

\* Every listed file has been seen to: the candidate holds what was announced.
LEMMA ResumedInv ==
  ASSUME Inv, Resumed
  PROVE  Inv'
<1>1. place = "trim" /\ todo = {} /\ place' = "sum"
  BY DEF Resumed
<1>2. /\ source' = source /\ clock' = clock /\ inode' = inode /\ file' = file
      /\ status' = status /\ sums' = sums /\ held' = held /\ cur' = cur /\ prev' = prev
      /\ copy' = copy /\ struck' = struck /\ faults' = faults /\ stat' = stat /\ todo' = todo
  BY DEF Resumed, world, snapshots
<1>3. cur \in Slots
  BY <1>1, Owners DEF Busy
<1>4. TypeOK'
  BY <1>1, <1>2 DEF Inv, TypeOK, Places
<1>5. Roles'
  BY <1>1, <1>2 DEF Inv, Roles, Busy
<1>6. Entries'
  BY <1>1, <1>2 DEF Inv, Entries, Entry
<1>7. World' /\ Times' /\ Announcements'
  BY <1>2 DEF Inv, World, Times, Entry, The, Announcements
<1>8. StillHeld' /\ Stats' /\ Candidate'
  BY <1>1 DEF StillHeld, Copying, Stats, Candidate
<1>9. Complete'
  <2>1. \A s \in Slots : HoldsHeld(s) => HoldsHeld(s)'
    BY <1>2 DEF HoldsHeld, Entry, The
  <2>2. HoldsHeld(cur)
    <3>. SUFFICES ASSUME NEW f \in Files
                  PROVE  /\ Entry(cur, f) <=> held[cur][f] # Absent
                         /\ Entry(cur, f) => /\ The(cur, f).len = held[cur][f].len
                                             /\ The(cur, f).gen \in {held[cur][f].gen, Rotten}
      BY DEF HoldsHeld
    <3>1. Entry(cur, f) => held[cur][f] # Absent /\ The(cur, f).gen \in {held[cur][f].gen, Rotten}
      BY <1>1 DEF Inv, Candidate
    <3>2. held[cur][f] # Absent => Entry(cur, f) /\ The(cur, f).len = held[cur][f].len
      BY <1>1 DEF Inv, Candidate, Listed
    <3>. QED  BY <3>1, <3>2
  <2>. QED  BY <1>1, <1>2, <1>3, <2>1, <2>2 DEF Inv, Complete, Busy
<1>10. Summed'
  BY <1>2 DEF Inv, Summed, Entry, The
<1>11. Rehearsed'
  BY <1>1, <1>2 DEF Inv, Rehearsed
<1>12. DamageKnown'
  BY <1>2 DEF Inv, DamageKnown, Known, Entry, The
<1>. QED  BY <1>4, <1>5, <1>6, <1>7, <1>8, <1>9, <1>10, <1>11, <1>12 DEF Inv

\* The checksums of what the files hold now.
LEMMA DescribeInv ==
  ASSUME Inv, Describe
  PROVE  Inv'
<1>1. /\ place = "sum" /\ place' = "pending"
      /\ sums' = [sums EXCEPT ![cur] = Payload(cur)]
      /\ status' = [status EXCEPT ![cur] = "pending"]
  BY DEF Describe
<1>2. /\ source' = source /\ clock' = clock /\ inode' = inode /\ file' = file
      /\ held' = held /\ cur' = cur /\ prev' = prev
      /\ copy' = copy /\ struck' = struck /\ faults' = faults /\ stat' = stat /\ todo' = todo
  BY DEF Describe, world
<1>3. cur \in Slots /\ status[cur] = "temp" /\ HoldsHeld(cur)
  BY <1>1, Owners DEF Busy, Inv, Roles, Complete
<1>4. \A f \in Files : /\ ~Entry(cur, f) => Payload(cur)[f] = Absent
                       /\ Entry(cur, f) => /\ Payload(cur)[f].gen = The(cur, f).gen
                                           /\ Payload(cur)[f].len = The(cur, f).len
                                           /\ The(cur, f) \in Stamped
  BY <1>3 DEF Payload, Entry, The, Content, Inv, TypeOK
<1>5. Payload(cur) \in [Files -> Contents]
  <2>1. Absent \in Contents
    BY Bounds DEF Absent, Contents
  <2>2. \A f \in Files : Payload(cur)[f] \in Contents
    BY <1>3, <2>1 DEF Payload, Content, Contents, Stamped, Inv, TypeOK
  <2>. QED  BY <2>2 DEF Payload
<1>6. /\ sums'[cur] = Payload(cur) /\ status'[cur] = "pending"
      /\ \A s \in Slots : s # cur => sums'[s] = sums[s] /\ status'[s] = status[s]
  BY <1>1, <1>3 DEF Inv, TypeOK
<1>7. TypeOK'
  BY <1>1, <1>2, <1>3, <1>5 DEF Inv, TypeOK, Places
<1>8. Roles'
  BY <1>1, <1>2, <1>3, <1>6 DEF Inv, Roles, Busy
<1>9. Entries'
  BY <1>1, <1>2, <1>6 DEF Inv, Entries, Entry
<1>10. World' /\ Times' /\ Announcements'
  BY <1>2 DEF Inv, World, Times, Entry, The, Announcements
<1>11. StillHeld' /\ Stats' /\ Candidate'
  BY <1>1 DEF StillHeld, Copying, Stats, Candidate
<1>12. Complete'
  <2>1. \A s \in Slots : HoldsHeld(s) => HoldsHeld(s)'
    BY <1>2 DEF HoldsHeld, Entry, The
  <2>. QED  BY <1>1, <1>2, <1>3, <1>6, <2>1 DEF Inv, Complete, Busy
<1>13. Summed'
  <2>. SUFFICES ASSUME NEW s \in Slots, NEW f \in Files
                PROVE  /\ status'[s] \in {"none", "temp"} => sums'[s][f] = Absent
                       /\ status'[s] \in {"pending", "verified", "gone"} =>
                            sums'[s][f] = held[s][f] \/ sums'[s][f].gen = Rotten
                       /\ status'[s] \in {"pending", "verified"} =>
                            /\ Entry(s, f) <=> sums'[s][f] # Absent
                            /\ Entry(s, f) => /\ The(s, f).len = sums'[s][f].len
                                              /\ The(s, f).gen \in {sums'[s][f].gen, Rotten}
    BY <1>2 DEF Summed, Entry, The
  <2>1. CASE s # cur
    BY <1>6, <2>1 DEF Inv, Summed
  <2>2. CASE s = cur /\ Entry(cur, f)
    <3>1. /\ sums'[cur][f].gen = The(cur, f).gen /\ sums'[cur][f].len = The(cur, f).len
          /\ The(cur, f).gen # 0
      BY <1>3, <1>4, <1>6, <2>2 DEF Inv, Times
    <3>2. sums'[cur][f] # Absent
      BY <3>1 DEF Absent
    <3>3. /\ held[cur][f].len = The(cur, f).len
          /\ The(cur, f).gen \in {held[cur][f].gen, Rotten}
      BY <1>3, <2>2 DEF HoldsHeld
    <3>4. sums'[cur][f] = held[cur][f] \/ sums'[cur][f].gen = Rotten
      <4>1. sums'[cur][f] \in Contents /\ held[cur][f] \in Contents
        BY <1>3, <1>5, <1>6 DEF Inv, TypeOK
      <4>. QED  BY <3>1, <3>3, <4>1 DEF Contents
    <3>. QED  BY <1>6, <2>2, <3>1, <3>2, <3>4
  <2>3. CASE s = cur /\ ~Entry(cur, f)
    <3>1. sums'[cur][f] = Absent
      BY <1>4, <1>6, <2>3
    <3>2. held[cur][f] = Absent
      BY <1>3, <2>3 DEF HoldsHeld
    <3>. QED  BY <1>6, <2>3, <3>1, <3>2
  <2>. QED  BY <2>1, <2>2, <2>3
<1>14. Rehearsed'
  <2>1. copy.phase # "none" => copy.of \in Slots /\ status[copy.of] \in {"verified", "gone"}
    BY DEF Inv, Rehearsed
  <2>2. copy.phase # "none" => copy.of # cur
    BY <1>3, <2>1
  <2>. QED  BY <1>1, <1>2, <1>6, <2>1, <2>2 DEF Inv, Rehearsed
<1>15. DamageKnown'
  <2>1. prev # NoSlot => prev \in Slots /\ prev # cur
    BY <1>3, Owners DEF Inv, Roles
  <2>. QED  BY <1>2, <1>6, <2>1 DEF Inv, DamageKnown, Known, Entry, The
<1>. QED  BY <1>7, <1>8, <1>9, <1>10, <1>11, <1>12, <1>13, <1>14, <1>15 DEF Inv

\* Rejected, or struck by an error: the candidate comes to nothing.
LEMMA RejectInv ==
  ASSUME Inv, Reject \/ Abort
  PROVE  Inv'
<1>1. GiveUp /\ faults' \in Nat
  BY DEF Reject, Abort, Inv, TypeOK
<1>2. Busy
  BY DEF Reject, Abort, Busy, Inv, TypeOK, Places
<1>. QED  BY <1>1, <1>2, GiveUpInv

\* Published; of the older ones only those the verifier accepts are removed.
LEMMA AcceptInv ==
  ASSUME Inv, Accept
  PROVE  Inv'
<1>1. /\ place = "pending" /\ place' = "idle" /\ cur' = NoSlot /\ prev' = NoSlot
      /\ stat' = [f \in Files |-> NoStat] /\ todo' = {} /\ struck' = {}
      /\ source' = source /\ clock' = clock /\ sums' = sums /\ held' = held /\ copy' = copy
      /\ faults' = faults
  BY DEF Accept, Idle, world
<1>2. PICK S \in {{}, Trusted \ Kept(Trusted \cup {cur})} :
        /\ status' = [s \in Slots |->
             IF s = cur THEN "verified" ELSE IF s \in S THEN "gone" ELSE status[s]]
        /\ Remove(S)
  BY DEF Accept
<1>3. cur \in Slots /\ status[cur] = "pending"
  BY <1>1, Owners DEF Busy, Inv, Roles
<1>4. S \in SUBSET Slots /\ cur \notin S /\ \A s \in S : status[s] = "verified"
  BY <1>2, <1>3 DEF Trusted, Verified
<1>5. /\ file' \in [Slots -> [Files -> Inodes \cup {NoInode}]] /\ inode' \in [Inodes -> Stamped]
      /\ \A s \in Slots, f \in Files :
           /\ Entry(s, f)' <=> s \notin S /\ Entry(s, f)
           /\ Entry(s, f)' => The(s, f)' = The(s, f)
  BY <1>2, <1>4, RemoveDoes
<1>6. /\ status'[cur] = "verified"
      /\ \A s \in S : status'[s] = "gone"
      /\ \A s \in Slots : s # cur /\ s \notin S => status'[s] = status[s]
  BY <1>2, <1>3, <1>4
<1>7. TypeOK'
  <2>1. NoStat \in [len : 0..MaxLen, mtime : 0..MaxClock]
    BY Bounds DEF NoStat
  <2>2. status' \in [Slots -> {"none", "temp", "pending", "verified", "gone"}]
    BY <1>2 DEF Inv, TypeOK
  <2>. QED  BY <1>1, <1>5, <2>1, <2>2 DEF Inv, TypeOK, Places
<1>8. Roles'
  <2>1. \A s \in Slots : status'[s] \notin {"temp", "pending"}
    BY <1>3, <1>4, <1>6 DEF Inv, Roles
  <2>. QED  BY <1>1, <2>1 DEF Roles, Busy
<1>9. Entries'
  <2>1. \A s \in Slots : status'[s] \in {"none", "gone"} =>
          s \in S \/ status[s] \in {"none", "gone"}
    BY <1>3, <1>6
  <2>. QED  BY <1>1, <1>5, <2>1 DEF Inv, Entries
<1>10. World' /\ Announcements'
  BY <1>1 DEF Inv, World, Announcements
<1>11. Times'
  BY <1>1, <1>5 DEF Inv, Times
<1>12. StillHeld' /\ Stats' /\ Candidate'
  BY <1>1 DEF StillHeld, Copying, Stats, Candidate
<1>13. Complete'
  <2>1. \A s \in Slots : s \notin S /\ HoldsHeld(s) => HoldsHeld(s)'
    BY <1>1, <1>5 DEF HoldsHeld
  <2>2. \A s \in Slots : status'[s] \in {"pending", "verified"} =>
          s \notin S /\ status[s] \in {"pending", "verified"}
    BY <1>3, <1>4, <1>6
  <2>3. \A s \in Slots : status'[s] = "verified" =>
          \A f \in Required : held[s][f] # Absent
    <3>1. \A f \in Required : held[cur][f] # Absent
      BY <1>1 DEF Inv, Complete, Busy
    <3>2. \A s \in Slots : status'[s] = "verified" => s = cur \/ status[s] = "verified"
      BY <1>6
    <3>. QED  BY <3>1, <3>2 DEF Inv, Complete
  <2>. QED  BY <1>1, <2>1, <2>2, <2>3 DEF Inv, Complete, Busy
<1>14. Summed'
  <2>. SUFFICES ASSUME NEW s \in Slots, NEW f \in Files
                PROVE  /\ status'[s] \in {"none", "temp"} => sums[s][f] = Absent
                       /\ status'[s] \in {"pending", "verified", "gone"} =>
                            sums[s][f] = held[s][f] \/ sums[s][f].gen = Rotten
                       /\ status'[s] \in {"pending", "verified"} =>
                            /\ Entry(s, f)' <=> sums[s][f] # Absent
                            /\ Entry(s, f)' => /\ The(s, f)'.len = sums[s][f].len
                                               /\ The(s, f)'.gen \in {sums[s][f].gen, Rotten}
    BY <1>1 DEF Summed
  <2>1. CASE s \in S
    BY <1>4, <1>6, <2>1 DEF Inv, Summed
  <2>2. CASE s = cur
    BY <1>3, <1>4, <1>5, <1>6, <2>2 DEF Inv, Summed
  <2>3. CASE s \notin S /\ s # cur
    BY <1>5, <1>6, <2>3 DEF Inv, Summed
  <2>. QED  BY <2>1, <2>2, <2>3
<1>15. Rehearsed'
  <2>1. \A s \in Slots : status[s] \in {"verified", "gone"} => status'[s] \in {"verified", "gone"}
    BY <1>6
  <2>2. /\ copy.phase # "none" => copy.of \in Slots /\ status[copy.of] \in {"verified", "gone"}
        /\ copy.phase = "passed" => \A f \in Files : copy.holds[f] = sums[copy.of][f]
    BY DEF Inv, Rehearsed
  <2>. QED  BY <1>1, <2>1, <2>2 DEF Rehearsed
<1>16. DamageKnown'
  BY <1>1 DEF DamageKnown
<1>. QED  BY <1>7, <1>8, <1>9, <1>10, <1>11, <1>12, <1>13, <1>14, <1>15, <1>16 DEF Inv

\* The newest of some slots is one of them.
LEMMA NewestIsMember ==
  ASSUME NEW S \in SUBSET Slots, S # {}
  PROVE  Newest(S) \in S
<1>. DEFINE T == {MaxSlots - n : n \in S}
            Less == OpToRel(<, Nat)
<1>1. \A n \in S : n \in Nat /\ n <= MaxSlots
  BY Bounds DEF Slots
<1>2. T \subseteq Nat /\ T # {}
  BY <1>1, Bounds
<1>3. PICK t \in T : \A u \in T : ~ (<<u, t>> \in Less)
  <2>. HIDE DEF T, Less
  <2>1. IsWellFoundedOn(OpToRel(<, Nat), Nat)
    BY NatLessThanWellFounded
  <2>. QED  BY <1>2, <2>1, WFMin DEF Less
<1>4. \A u \in T : ~ (u < t)
  <2>. SUFFICES ASSUME NEW u \in T, u < t PROVE FALSE
    OBVIOUS
  <2>1. u \in Nat /\ t \in Nat
    BY <1>2
  <2>2. <<u, t>> \in Less
    BY <2>1 DEF OpToRel
  <2>. QED  BY <1>3, <2>2
<1>5. PICK n \in S : t = MaxSlots - n
  OBVIOUS
<1>6. \A m \in S : m <= n
  <2>. SUFFICES ASSUME NEW m \in S PROVE m <= n
    OBVIOUS
  <2>1. MaxSlots - m \in T
    OBVIOUS
  <2>2. ~ (MaxSlots - m < MaxSlots - n)
    <3>. HIDE DEF T
    <3>. QED  BY <1>4, <1>5, <2>1
  <2>3. m \in Nat /\ n \in Nat /\ MaxSlots \in Nat
    BY <1>1, Bounds
  <2>. QED  BY ONLY <2>2, <2>3
<1>. QED  BY <1>6 DEF Newest

\* The snapshot linked into is one the verifier has just accepted: what it
\* holds of damage its checksums hold too.
LEMMA BeginInv ==
  ASSUME Inv, Begin
  PROVE  Inv'
<1>1. PICK s \in Slots : /\ status[s] = "none"
                         /\ status' = [status EXCEPT ![s] = "temp"] /\ cur' = s
  BY DEF Begin
<1>2. /\ place = "idle" /\ place' = "hold"
      /\ prev' = IF Trusted = {} THEN NoSlot ELSE Newest(Trusted)
      /\ source' = source /\ clock' = clock /\ inode' = inode /\ file' = file
      /\ sums' = sums /\ held' = held /\ stat' = stat /\ todo' = todo /\ copy' = copy
      /\ faults' = faults /\ struck' = struck
  BY DEF Begin, world
<1>3. prev' = NoSlot \/ prev' \in Trusted
  <2>1. Trusted \in SUBSET Slots
    BY DEF Trusted, Verified
  <2>. QED  BY <1>2, <2>1, NewestIsMember
<1>4. prev' # NoSlot => /\ prev' \in Slots /\ status[prev'] = "verified" /\ Accepts(prev')
                        /\ prev' # s
  BY <1>1, <1>3 DEF Trusted, Verified
<1>5. /\ status'[s] = "temp" /\ \A t \in Slots : t # s => status'[t] = status[t]
      /\ \A t \in Slots : status[t] \notin {"temp", "pending"}
  <2>1. cur = NoSlot
    BY <1>2 DEF Inv, Roles, Busy
  <2>2. \A t \in Slots : status[t] \notin {"temp", "pending"}
    BY <2>1, Bounds DEF Inv, Roles
  <2>. QED  BY <1>1, <2>2 DEF Inv, TypeOK
<1>6. TypeOK'
  <2>1. status' \in [Slots -> {"none", "temp", "pending", "verified", "gone"}]
    BY <1>1 DEF Inv, TypeOK
  <2>2. prev' \in Slots \cup {NoSlot} /\ cur' \in Slots \cup {NoSlot}
    BY <1>1, <1>4
  <2>. QED  BY <1>2, <2>1, <2>2 DEF Inv, TypeOK, Places
<1>7. Roles'
  <2>1. prev' # NoSlot => status'[prev'] = "verified"
    BY <1>4, <1>5
  <2>. QED  BY <1>1, <1>2, <1>5, <2>1 DEF Roles, Busy
<1>8. Entries'
  <2>1. \A f \in Files : ~Entry(s, f)
    BY <1>1 DEF Inv, Entries
  <2>. QED  BY <1>1, <1>2, <1>5, <2>1 DEF Inv, Entries, Entry
<1>9. World' /\ Times' /\ Announcements'
  BY <1>2 DEF Inv, World, Times, Entry, The, Announcements
<1>10. StillHeld' /\ Stats' /\ Candidate'
  BY <1>2 DEF StillHeld, Copying, Stats, Candidate
<1>11. Complete'
  <2>1. \A t \in Slots : HoldsHeld(t) => HoldsHeld(t)'
    BY <1>2 DEF HoldsHeld, Entry, The
  <2>. QED  BY <1>2, <1>5, <2>1 DEF Inv, Complete, Busy
<1>12. Summed'
  <2>1. \A t \in Slots : status'[t] = status[t] \/ (status[t] = "none" /\ status'[t] = "temp")
    BY <1>1, <1>5
  <2>. QED  BY <1>2, <2>1 DEF Inv, Summed, Entry, The
<1>13. Rehearsed'
  <2>1. copy.phase # "none" => copy.of \in Slots /\ status'[copy.of] = status[copy.of]
    BY <1>1, <1>5 DEF Inv, Rehearsed
  <2>. QED  BY <1>2, <2>1 DEF Inv, Rehearsed
<1>14. DamageKnown'
  <2>. SUFFICES ASSUME NEW f \in Files
                PROVE  Known(cur, f)' /\ (prev' # NoSlot => Known(prev, f)')
    BY DEF DamageKnown
  <2>1. ~Entry(s, f)
    BY <1>1 DEF Inv, Entries
  <2>2. Known(cur, f)'
    BY <1>1, <1>2, <2>1 DEF Known, Entry
  <2>3. ASSUME prev' # NoSlot, file[prev'][f] # NoInode, inode[file[prev'][f]].gen = Rotten
        PROVE  sums[prev'][f].gen = Rotten
    <3>1. PICK p \in Slots : p = prev' /\ Accepts(p)
      BY <1>4, <2>3
    <3>2. file[p][f] # NoInode /\ inode[file[p][f]].gen = Rotten
      BY <2>3, <3>1
    <3>3. Payload(p)[f] = sums[p][f]
      BY <3>1, <3>2 DEF Accepts
    <3>4. Payload(p)[f].gen = Rotten
      BY <3>2 DEF Payload, Content
    <3>. QED  BY <3>1, <3>3, <3>4
  <2>4. prev' # NoSlot => Known(prev, f)'
    BY <1>2, <2>3 DEF Known, Entry, The
  <2>. QED  BY <2>2, <2>4
<1>. QED  BY <1>6, <1>7, <1>8, <1>9, <1>10, <1>11, <1>12, <1>13, <1>14 DEF Inv

------------------------------------------------------------------------------
(***************************************************************************)
(* The steps of a rehearsal.                                               *)
(***************************************************************************)
\* Whatever a rehearsal does, the repository stays as it is.
LEMMA RehearsalInv ==
  ASSUME Inv, ~Busy, ~Busy', TypeOK', Rehearsed',
         UNCHANGED <<world, inode, snapshots, struck, cur, prev>>
  PROVE  Inv'
<1>1. /\ source' = source /\ clock' = clock /\ inode' = inode /\ file' = file
      /\ status' = status /\ sums' = sums /\ held' = held /\ struck' = struck
      /\ cur' = cur /\ prev' = prev
  BY DEF world, snapshots
<1>2. place' \notin {"hold", "stat", "link", "trim", "sum", "pending"}
  BY DEF Busy
<1>3. Roles' /\ Entries'
  BY <1>1, <1>2 DEF Inv, Roles, Entries, Entry
<1>4. World' /\ Times' /\ Announcements'
  BY <1>1 DEF Inv, World, Times, Entry, The, Announcements
<1>5. StillHeld' /\ Stats' /\ Candidate'
  BY <1>2 DEF StillHeld, Copying, Stats, Candidate
<1>6. Complete'
  <2>1. \A s \in Slots : HoldsHeld(s) => HoldsHeld(s)'
    BY <1>1 DEF HoldsHeld, Entry, The
  <2>. QED  BY <1>1, <1>2, <2>1 DEF Inv, Complete
<1>7. Summed'
  BY <1>1 DEF Inv, Summed, Entry, The
<1>8. DamageKnown'
  BY <1>1 DEF Inv, DamageKnown, Known, Entry, The
<1>. QED  BY <1>3, <1>4, <1>5, <1>6, <1>7, <1>8 DEF Inv

\* A fresh destination, or none.
LEMMA NothingIsTyped ==
  /\ Nothing \in [Files -> Contents] /\ NoStat \in [len : 0..MaxLen, mtime : 0..MaxClock]
  /\ NoCopy.phase = "none"
  /\ NoCopy \in [phase : {"none", "part", "passed"}, of : Slots \cup {NoSlot},
                 holds : [Files -> Contents]]
BY Bounds DEF Nothing, Absent, Contents, NoStat, NoCopy

\* A destination for a verified snapshot, still empty.
LEMMA RehearseInv ==
  ASSUME Inv, NEW s \in Slots, Rehearse(s)
  PROVE  Inv'
<1>1. /\ place = "idle" /\ place' = "rehearse" /\ status[s] = "verified"
      /\ copy' = [phase |-> "part", of |-> s, holds |-> Nothing]
      /\ todo' = {f \in Files : file[s][f] # NoInode}
      /\ UNCHANGED <<world, inode, snapshots, struck, cur, prev, stat, faults>>
  BY DEF Rehearse, Trusted, Verified
<1>2. /\ file' = file /\ status' = status /\ ~Busy /\ ~Busy'
  BY <1>1 DEF snapshots, Busy
<1>3. TypeOK'
  <2>1. copy' \in [phase : {"none", "part", "passed"}, of : Slots \cup {NoSlot},
                   holds : [Files -> Contents]]
    BY <1>1, NothingIsTyped
  <2>. QED  BY <1>1, <2>1 DEF Inv, TypeOK, Places, snapshots, world
<1>4. Rehearsed'
  <2>1. copy'.phase = "part" /\ copy'.of = s /\ copy'.holds = Nothing
    BY <1>1
  <2>2. \A f \in todo' : Entry(s, f)'
    BY <1>1, <1>2 DEF Entry
  <2>3. \A f \in Files : copy'.holds[f] = Absent
    BY <2>1 DEF Nothing
  <2>. QED  BY <1>1, <1>2, <2>1, <2>2, <2>3 DEF Rehearsed, Entry
<1>. QED  BY <1>1, <1>2, <1>3, <1>4, RehearsalInv

\* One file is copied out.
LEMMA CopyOutInv ==
  ASSUME Inv, NEW f \in Files, CopyOut(f)
  PROVE  Inv'
<1>1. /\ place = "rehearse" /\ f \in todo /\ place' = place
      /\ copy' = [copy EXCEPT !.holds[f] = Payload(copy.of)[f]]
      /\ todo' = todo \ {f}
      /\ UNCHANGED <<world, inode, snapshots, struck, cur, prev, stat, faults>>
  BY DEF CopyOut
<1>2. /\ file' = file /\ status' = status /\ sums' = sums /\ ~Busy /\ ~Busy'
  BY <1>1 DEF snapshots, Busy
<1>3. /\ copy.phase = "part" /\ copy.of \in Slots /\ status[copy.of] = "verified"
      /\ \A g \in todo : Entry(copy.of, g)
      /\ \A g \in Files : ~Entry(copy.of, g) => copy.holds[g] = Absent
  BY <1>1 DEF Inv, Rehearsed
<1>4. Payload(copy.of)[f] \in Contents
  <2>1. Entry(copy.of, f)
    BY <1>1, <1>3
  <2>2. file[copy.of][f] \in Inodes /\ inode[file[copy.of][f]] \in Stamped
    BY <1>3, <2>1 DEF Inv, TypeOK, Entry
  <2>. QED  BY <2>1, <2>2 DEF Payload, Content, Contents, Stamped, Entry
<1>5. /\ copy'.phase = copy.phase /\ copy'.of = copy.of
      /\ copy' \in [phase : {"none", "part", "passed"}, of : Slots \cup {NoSlot},
                    holds : [Files -> Contents]]
      /\ \A g \in Files : g # f => copy'.holds[g] = copy.holds[g]
  BY <1>1, <1>4 DEF Inv, TypeOK
<1>6. TypeOK'
  BY <1>1, <1>5 DEF Inv, TypeOK, snapshots, world
<1>7. Rehearsed'
  <2>1. \A g \in Files : ~Entry(copy.of, g) => copy'.holds[g] = Absent
    BY <1>1, <1>3, <1>5
  <2>. QED  BY <1>1, <1>2, <1>3, <1>5, <2>1 DEF Rehearsed, Entry
<1>. QED  BY <1>1, <1>2, <1>6, <1>7, RehearsalInv

\* What is reported was compared; what has no checksum was not copied.
LEMMA EndRehearsalInv ==
  ASSUME Inv, EndRehearsal
  PROVE  Inv'
<1>1. /\ place = "rehearse" /\ place' = "idle" /\ cur' = NoSlot /\ prev' = NoSlot
      /\ stat' = [f \in Files |-> NoStat] /\ todo' = {}
      /\ copy' = IF Matches THEN [copy EXCEPT !.phase = "passed"] ELSE NoCopy
      /\ UNCHANGED <<world, inode, snapshots, faults, struck>>
  BY DEF EndRehearsal, Idle
<1>2. /\ status' = status /\ sums' = sums /\ ~Busy /\ ~Busy' /\ cur = NoSlot /\ prev = NoSlot
  <2>1. ~Busy /\ ~Busy'
    BY <1>1 DEF Busy
  <2>. QED  BY <1>1, <2>1 DEF snapshots, Inv, Roles
<1>3. TypeOK'
  <2>1. copy' \in [phase : {"none", "part", "passed"}, of : Slots \cup {NoSlot},
                   holds : [Files -> Contents]]
    BY <1>1, NothingIsTyped DEF Inv, TypeOK
  <2>. QED  BY <1>1, <2>1, NothingIsTyped DEF Inv, TypeOK, Places, snapshots, world
<1>4. Rehearsed'
  <2>1. CASE Matches
    <3>1. /\ copy'.phase = "passed" /\ copy'.of = copy.of /\ copy'.holds = copy.holds
      BY <1>1, <2>1 DEF Inv, TypeOK
    <3>2. /\ copy.of \in Slots /\ status[copy.of] = "verified"
          /\ \A f \in Files : ~Entry(copy.of, f) => copy.holds[f] = Absent
      BY <1>1 DEF Inv, Rehearsed
    <3>3. \A f \in Files : copy.holds[f] = sums[copy.of][f]
      <4>. SUFFICES ASSUME NEW f \in Files PROVE copy.holds[f] = sums[copy.of][f]
        OBVIOUS
      <4>1. CASE sums[copy.of][f] # Absent
        BY <2>1, <4>1 DEF Matches
      <4>2. CASE sums[copy.of][f] = Absent
        <5>1. ~Entry(copy.of, f)
          BY <3>2, <4>2 DEF Inv, Summed
        <5>. QED  BY <3>2, <4>2, <5>1
      <4>. QED  BY <4>1, <4>2
    <3>. QED  BY <1>1, <1>2, <3>1, <3>2, <3>3 DEF Rehearsed
  <2>2. CASE ~Matches
    BY <1>1, <2>2, NothingIsTyped DEF Rehearsed
  <2>. QED  BY <2>1, <2>2
<1>. QED  BY <1>1, <1>2, <1>3, <1>4, RehearsalInv

\* An error or a crash leaves the destination unreported, or removes it.
LEMMA StopRehearsalInv ==
  ASSUME Inv, StopRehearsal
  PROVE  Inv'
<1>1. /\ place = "rehearse" /\ place' = "idle" /\ cur' = NoSlot /\ prev' = NoSlot
      /\ stat' = [f \in Files |-> NoStat] /\ todo' = {}
      /\ copy' \in {copy, NoCopy} /\ faults' = faults + 1
      /\ UNCHANGED <<world, inode, snapshots, struck>>
  BY DEF StopRehearsal, Idle
<1>2. /\ status' = status /\ sums' = sums /\ ~Busy /\ ~Busy' /\ cur = NoSlot /\ prev = NoSlot
  <2>1. ~Busy /\ ~Busy'
    BY <1>1 DEF Busy
  <2>. QED  BY <1>1, <2>1 DEF snapshots, Inv, Roles
<1>3. TypeOK'
  BY <1>1, NothingIsTyped DEF Inv, TypeOK, Places, snapshots, world
<1>4. Rehearsed'
  <2>1. CASE copy' = copy
    BY <1>1, <1>2, <2>1 DEF Inv, Rehearsed
  <2>2. CASE copy' = NoCopy
    BY <1>1, <2>2, NothingIsTyped DEF Rehearsed
  <2>. QED  BY <1>1, <2>1, <2>2
<1>. QED  BY <1>1, <1>2, <1>3, <1>4, RehearsalInv

\* The operator removes it.
LEMMA ClearDestinationInv ==
  ASSUME Inv, ClearDestination
  PROVE  Inv'
<1>1. /\ place = "idle" /\ place' = place /\ copy' = NoCopy
      /\ UNCHANGED <<world, inode, snapshots, struck, cur, prev, stat, todo, faults>>
  BY DEF ClearDestination, locals
<1>2. ~Busy /\ ~Busy'
  BY <1>1 DEF Busy
<1>3. TypeOK'
  BY <1>1, NothingIsTyped DEF Inv, TypeOK, snapshots, world
<1>4. Rehearsed'
  BY <1>1, NothingIsTyped DEF Rehearsed
<1>. QED  BY <1>1, <1>2, <1>3, <1>4, RehearsalInv

------------------------------------------------------------------------------
(***************************************************************************)
(* The theorems.                                                           *)
(***************************************************************************)
\* A step of something else.
LEMMA StutterInv ==
  ASSUME Inv, UNCHANGED vars
  PROVE  Inv'
<1>1. /\ source' = source /\ clock' = clock /\ inode' = inode /\ file' = file
      /\ status' = status /\ sums' = sums /\ held' = held /\ place' = place /\ cur' = cur
      /\ prev' = prev /\ stat' = stat /\ todo' = todo /\ copy' = copy /\ faults' = faults
      /\ struck' = struck
  BY DEF vars, world, snapshots, locals
<1>2. TypeOK' /\ Roles' /\ Entries' /\ World' /\ Times' /\ Announcements'
  BY <1>1 DEF Inv, TypeOK, Roles, Busy, Entries, World, Times, Announcements, Entry, The
<1>3. StillHeld' /\ Stats' /\ Candidate'
  BY <1>1 DEF Inv, StillHeld, Copying, Stats, Candidate, Listed, Entry, The
<1>4. Complete' /\ Summed'
  BY <1>1 DEF Inv, Complete, HoldsHeld, Busy, Summed, Entry, The
<1>5. Rehearsed' /\ DamageKnown'
  BY <1>1 DEF Inv, Rehearsed, DamageKnown, Known, Entry, The
<1>. QED  BY <1>2, <1>3, <1>4, <1>5 DEF Inv

\* One lemma per action.
LEMMA NextInv ==
  ASSUME Inv, [Next]_vars
  PROVE  Inv'
<1>1. CASE Tick \/ \E i \in Inodes : Damage(i)
  BY <1>1, TickInv, DamageInv
<1>2. CASE Bds
  BY <1>2, RewriteInv, AppendInv, CutInv DEF Bds
<1>3. CASE Create
  <2>1. CASE Begin \/ Query \/ Stat
    BY <2>1, BeginInv, QueryInv, StatInv
  <2>2. CASE \E f \in Files : Transfer(f) \/ Trim(f)
    BY <2>2, TransferInv, TrimInv
  <2>3. CASE Transferred \/ Resumed \/ Describe
    BY <2>3, TransferredInv, ResumedInv, DescribeInv
  <2>4. CASE Accept \/ Reject \/ Abort
    BY <2>4, AcceptInv, RejectInv
  <2>. QED  BY <1>3, <2>1, <2>2, <2>3, <2>4 DEF Create
<1>4. CASE Rehearsal
  BY <1>4, RehearseInv, CopyOutInv, EndRehearsalInv, StopRehearsalInv, ClearDestinationInv
     DEF Rehearsal
<1>5. CASE UNCHANGED vars
  BY <1>5, StutterInv
<1>. QED  BY <1>1, <1>2, <1>3, <1>4, <1>5 DEF Next

\* The inductive invariant holds.
LEMMA InvHolds == Spec => []Inv
<1>1. Init => Inv
  BY InitInv
<1>2. Inv /\ [Next]_vars => Inv'
  BY NextInv
<1>. QED  BY <1>1, <1>2, PTL DEF Spec

\* What is read through an entry.
LEMMA ReadThrough ==
  ASSUME Inv, NEW s \in Slots, NEW f \in Files
  PROVE  /\ ~Entry(s, f) => Payload(s)[f] = Absent /\ Payload(s)[f].gen # Rotten
         /\ Entry(s, f) => /\ Payload(s)[f].gen = The(s, f).gen
                           /\ Payload(s)[f].len = The(s, f).len
         /\ Payload(s)[f] \in Contents
<1>1. Absent \in Contents /\ Absent.gen # Rotten
  BY Bounds DEF Absent, Contents
<1>2. ASSUME Entry(s, f)
      PROVE  /\ Payload(s)[f] = [gen |-> The(s, f).gen, len |-> The(s, f).len]
             /\ The(s, f) \in Stamped
  BY <1>2 DEF Inv, TypeOK, Payload, Content, Entry, The
<1>3. ~Entry(s, f) => Payload(s)[f] = Absent
  BY DEF Payload, Entry
<1>4. Entry(s, f) => Payload(s)[f] \in Contents
  BY <1>2 DEF Stamped, Contents
<1>. QED  BY <1>1, <1>2, <1>3, <1>4

\* Every variable keeps its type: in particular what a snapshot's entries
\* refer to are inodes, and a cut or a copied length is one a file can have.
THEOREM TypeCorrect == Spec => []TypeOK
<1>1. Inv => TypeOK
  BY DEF Inv
<1>. QED  BY <1>1, InvHolds, PTL

\* A published snapshot is what BDS announced, whatever was appended, linked
\* or cut on the way (_copy_payload), for any number of files and snapshots.
THEOREM PublishedIsWhatWasHeld == Spec => []PublishedIsHeld
<1>1. ASSUME Inv PROVE PublishedIsHeld
  <2>. SUFFICES ASSUME NEW s \in Slots, status[s] \in {"pending", "verified"},
                       NEW f \in Files, Payload(s)[f].gen # Rotten
                PROVE  Payload(s)[f] = held[s][f]
    BY DEF PublishedIsHeld
  <2>1. /\ Entry(s, f) <=> held[s][f] # Absent
        /\ Entry(s, f) => /\ The(s, f).len = held[s][f].len
                          /\ The(s, f).gen \in {held[s][f].gen, Rotten}
    BY <1>1 DEF Inv, Complete, HoldsHeld
  <2>2. Payload(s)[f] \in Contents /\ held[s][f] \in Contents
    BY <1>1, ReadThrough DEF Inv, TypeOK
  <2>3. CASE Entry(s, f)
    <3>1. /\ Payload(s)[f].gen = held[s][f].gen
          /\ Payload(s)[f].len = held[s][f].len
      BY <1>1, <2>1, <2>3, ReadThrough
    <3>. QED  BY <2>2, <3>1 DEF Contents
  <2>4. CASE ~Entry(s, f)
    BY <1>1, <2>1, <2>4, ReadThrough
  <2>. QED  BY <2>3, <2>4
<1>. QED  BY <1>1, InvHolds, PTL

\* The verifier's verdict on a verified snapshot says whether damage struck it
\* since its checksums were taken, and nothing else makes it fail.
THEOREM VerifierIsRight == Spec => []VerifierTellsDamage
<1>1. ASSUME Inv PROVE VerifierTellsDamage
  <2>. SUFFICES ASSUME NEW s \in Slots, status[s] = "verified"
                PROVE  Accepts(s) <=> \A f \in Files :
                         Payload(s)[f].gen = Rotten => sums[s][f].gen = Rotten
    BY DEF VerifierTellsDamage, Verified
  <2>1. \A f \in Files :
          /\ Entry(s, f) <=> sums[s][f] # Absent
          /\ Entry(s, f) => /\ The(s, f).len = sums[s][f].len
                            /\ The(s, f).gen \in {sums[s][f].gen, Rotten}
    BY <1>1 DEF Inv, Summed
  <2>2. \A f \in Required : sums[s][f] # Absent
    <3>1. HoldsHeld(s) /\ \A f \in Required : held[s][f] # Absent
      BY <1>1 DEF Inv, Complete
    <3>. QED  BY <2>1, <3>1, Bounds DEF HoldsHeld
  <2>3. Accepts(s) <=> \A f \in Files : sums[s][f] # Absent => Payload(s)[f] = sums[s][f]
    BY <2>1, <2>2 DEF Accepts, Entry
  <2>4. ASSUME NEW f \in Files
        PROVE  (sums[s][f] # Absent => Payload(s)[f] = sums[s][f])
                 <=> (Payload(s)[f].gen = Rotten => sums[s][f].gen = Rotten)
    <3>1. Payload(s)[f] \in Contents /\ sums[s][f] \in Contents
      BY <1>1, ReadThrough DEF Inv, TypeOK
    <3>2. CASE Entry(s, f)
      <4>1. /\ Payload(s)[f].len = sums[s][f].len
            /\ Payload(s)[f].gen \in {sums[s][f].gen, Rotten}
            /\ sums[s][f] # Absent
        BY <1>1, <2>1, <3>2, ReadThrough
      <4>2. Payload(s)[f] = sums[s][f] <=> Payload(s)[f].gen = sums[s][f].gen
        BY <3>1, <4>1 DEF Contents
      <4>. QED  BY <4>1, <4>2
    <3>3. CASE ~Entry(s, f)
      BY <1>1, <2>1, <3>3, ReadThrough
    <3>. QED  BY <3>2, <3>3
  <2>. QED  BY <2>3, <2>4
<1>. QED  BY <1>1, InvHolds, PTL

\* The next snapshot links into no damage the checksums can tell: the snapshot
\* it links into was verified when it was chosen (_latest_snapshot).
THEOREM DamageStaysBehind == Spec => []DamageIsNotInherited
<1>1. ASSUME Inv PROVE DamageIsNotInherited
  <2>. SUFFICES ASSUME cur # NoSlot, NEW f \in Files, Payload(cur)[f].gen = Rotten
                PROVE  file[cur][f] \in struck \/ (prev # NoSlot /\ sums[prev][f].gen = Rotten)
    BY DEF DamageIsNotInherited
  <2>1. Entry(cur, f) /\ The(cur, f).gen = Rotten
    BY <1>1, Owners, ReadThrough
  <2>2. Known(cur, f)
    BY <1>1 DEF Inv, DamageKnown
  <2>. QED  BY <2>1, <2>2 DEF Known
<1>. QED  BY <1>1, InvHolds, PTL

\* A rehearsal's "passed" is about the copy: it is what BDS announced, or the
\* damage was there before the checksums (SnapshotRehearsal).
THEOREM RehearsalTellsTheTruth == Spec => []RehearsalIsTruthful
<1>1. ASSUME Inv PROVE RehearsalIsTruthful
  <2>. SUFFICES ASSUME copy.phase = "passed", NEW f \in Files
                PROVE  copy.holds[f] = held[copy.of][f] \/ sums[copy.of][f].gen = Rotten
    BY DEF RehearsalIsTruthful
  <2>1. /\ copy.of \in Slots /\ status[copy.of] \in {"verified", "gone"}
        /\ copy.holds[f] = sums[copy.of][f]
    BY <1>1 DEF Inv, Rehearsed
  <2>2. sums[copy.of][f] = held[copy.of][f] \/ sums[copy.of][f].gen = Rotten
    BY <1>1, <2>1 DEF Inv, Summed
  <2>. QED  BY <2>1, <2>2
<1>. QED  BY <1>1, InvHolds, PTL

\* An entry that stays, to an inode that stays, reads the same.
LEMMA ReadsTheSame ==
  ASSUME NEW s \in Slots, NEW f \in Files, file'[s][f] = file[s][f],
         Entry(s, f) => inode'[file[s][f]] = inode[file[s][f]]
  PROVE  Payload(s)'[f] = Payload(s)[f]
BY DEF Payload, Content, Entry

\* A removal takes no inode another snapshot links to.
LEMMA RemovalSpares ==
  ASSUME Inv, NEW S \in SUBSET Slots, Remove(S), NEW s \in Slots, s \notin S, NEW f \in Files
  PROVE  Payload(s)'[f] = Payload(s)[f]
<1>1. Entry(s, f) => file'[s][f] = file[s][f] /\ The(s, f)' = The(s, f)
  BY RemoveDoes
<1>2. file'[s][f] = file[s][f]
  BY DEF Remove, Inv, TypeOK
<1>3. Entry(s, f) => inode'[file[s][f]] = inode[file[s][f]]
  BY <1>1, <1>2 DEF The
<1>. QED  BY <1>2, <1>3, ReadsTheSame

\* A verified snapshot is changed by damage only: neither a cut nor a removal
\* reaches an inode it shares ("never truncate a shared inode").
THEOREM OldSnapshotsAreUntouched == Spec => OldSnapshotsUntouched
<1>1. ASSUME Inv, [Next]_vars, NEW s \in Slots, status[s] = "verified", status'[s] = "verified",
             NEW f \in Files
      PROVE  Payload(s)'[f] = Payload(s)[f] \/ Payload(s)'[f].gen = Rotten
  <2>1. CASE file' = file /\ inode' = inode
    BY <2>1, ReadsTheSame
  <2>2. ASSUME NEW i \in Inodes, Damage(i)
        PROVE  Payload(s)'[f] = Payload(s)[f] \/ Payload(s)'[f].gen = Rotten
    <3>1. file' = file /\ inode' = [inode EXCEPT ![i].gen = Rotten]
      BY <2>2 DEF Damage, snapshots
    <3>2. inode \in [Inodes -> Stamped]
      BY <1>1 DEF Inv, TypeOK
    <3>3. CASE file[s][f] = i
      <4>1. inode'[file[s][f]].gen = Rotten
        BY <3>1, <3>2, <3>3 DEF Stamped
      <4>. QED  BY <3>1, <3>3, <4>1, Bounds DEF Payload, Content
    <3>4. CASE file[s][f] # i
      <4>1. inode'[file[s][f]] = inode[file[s][f]] \/ ~Entry(s, f)
        BY <1>1, <3>1, <3>2, <3>4 DEF Inv, TypeOK, Entry
      <4>. QED  BY <3>1, <4>1, ReadsTheSame
    <3>. QED  BY <3>3, <3>4
  <2>3. ASSUME Busy, GiveUp
        PROVE  Payload(s)'[f] = Payload(s)[f]
    <3>1. cur \in Slots /\ s # cur
      BY <1>1, <2>3, Owners DEF Inv, Roles
    <3>2. Remove({cur})
      BY <2>3 DEF GiveUp
    <3>. QED  BY <1>1, <3>1, <3>2, RemovalSpares
  <2>4. CASE Accept
    <3>1. PICK S \in {{}, Trusted \ Kept(Trusted \cup {cur})} :
            /\ status' = [t \in Slots |->
                 IF t = cur THEN "verified" ELSE IF t \in S THEN "gone" ELSE status[t]]
            /\ Remove(S)
      BY <2>4 DEF Accept
    <3>2. cur \in Slots /\ status[cur] = "pending"
      BY <1>1, <2>4, Owners DEF Accept, Busy, Inv, Roles
    <3>3. S \in SUBSET Slots /\ cur \notin S
      BY <3>1, <3>2 DEF Trusted, Verified
    <3>4. s \notin S
      BY <1>1, <3>1, <3>2
    <3>. QED  BY <1>1, <3>1, <3>3, <3>4, RemovalSpares
  <2>5. ASSUME cur \in Slots, s # cur, NEW g \in Files, NEW gen \in Gens, NEW len \in 0..MaxLen,
               NEW mtime \in 0..MaxClock, PutNew(g, gen, len, mtime)
        PROVE  Payload(s)'[f] = Payload(s)[f]
    <3>1. /\ file'[s][f] = file[s][f]
          /\ Entry(s, f) => inode'[file[s][f]] = inode[file[s][f]]
      BY <1>1, <2>5, PutNewDoes
    <3>. QED  BY <3>1, ReadsTheSame
  <2>6. ASSUME NEW g \in Files, Transfer(g)
        PROVE  Payload(s)'[f] = Payload(s)[f]
    <3>1. place = "link"
      BY <2>6 DEF Transfer
    <3>2. Busy /\ cur \in Slots /\ s # cur
      BY <1>1, <3>1, Owners DEF Busy, Inv, Roles
    <3>3. CASE GiveUp
      BY <2>3, <3>2, <3>3
    <3>4. CASE file' = [file EXCEPT ![cur][g] = file[prev][g]] /\ inode' = inode
      <4>1. file'[s][f] = file[s][f]
        BY <1>1, <3>2, <3>4 DEF Inv, TypeOK
      <4>. QED  BY <3>4, <4>1, ReadsTheSame
    <3>5. CASE PutNew(g, source[g].gen, source[g].len, stat[g].mtime)
      <4>1. source[g].gen \in Gens /\ source[g].len \in 0..MaxLen /\ stat[g].mtime \in 0..MaxClock
        BY <1>1 DEF Inv, TypeOK, Stamped
      <4>. QED  BY <2>5, <3>2, <3>5, <4>1
    <3>. QED  BY <2>6, <3>3, <3>4, <3>5 DEF Transfer
  <2>7. ASSUME NEW g \in Files, Trim(g)
        PROVE  Payload(s)'[f] = Payload(s)[f]
    <3>1. place = "trim"
      BY <2>7 DEF Trim
    <3>2. Busy /\ cur \in Slots /\ s # cur
      BY <1>1, <3>1, Owners DEF Busy, Inv, Roles
    <3>3. CASE GiveUp
      BY <2>3, <3>2, <3>3
    <3>4. CASE file' = file /\ inode' = inode
      BY <3>4, ReadsTheSame
    <3>5. CASE ~TooShort(g) /\ Shorten(g)
      <4>1. file[cur][g] \in Inodes
        BY <1>1, <3>2, <3>5 DEF TooShort, Inv, TypeOK
      <4>2. inode[file[cur][g]].gen \in Gens /\ held[cur][g].len \in 0..MaxLen
            /\ clock \in 0..MaxClock
        BY <1>1, <3>2, <4>1 DEF Inv, TypeOK, Stamped, Contents
      <4>. QED  BY <2>5, <3>2, <3>5, <4>2 DEF Shorten
    <3>. QED  BY <2>7, <3>3, <3>4, <3>5 DEF Trim
  <2>8. CASE Bds \/ Tick \/ UNCHANGED vars
    <3>1. file' = file /\ inode' = inode
      BY <2>8 DEF Bds, Rewrite, Append, Cut, SetSource, Tick, vars, snapshots
    <3>. QED  BY <2>1, <3>1
  <2>9. CASE Rehearsal
    <3>1. file' = file /\ inode' = inode
      BY <2>9 DEF Rehearsal, Rehearse, CopyOut, EndRehearsal, StopRehearsal,
         ClearDestination,
                  snapshots
    <3>. QED  BY <2>1, <3>1
  <2>10. CASE Begin \/ Stat \/ Transferred \/ Resumed \/ Describe
    <3>1. file' = file /\ inode' = inode
      BY <2>10 DEF Begin, Stat, Transferred, Resumed, Describe, snapshots
    <3>. QED  BY <2>1, <3>1
  <2>11. CASE Query
    <3>1. Busy
      BY <2>11 DEF Query, Busy
    <3>2. GiveUp \/ (file' = file /\ inode' = inode)
      BY <2>11 DEF Query
    <3>. QED  BY <2>1, <2>3, <3>1, <3>2
  <2>12. CASE Reject \/ Abort
    <3>1. Busy /\ GiveUp
      BY <1>1, <2>12 DEF Reject, Abort, Busy, Inv, TypeOK, Places
    <3>. QED  BY <2>3, <3>1
  <2>. QED
    BY <1>1, <2>2, <2>4, <2>6, <2>7, <2>8, <2>9, <2>10, <2>11, <2>12 DEF Next, Create
<1>2. Inv /\ [Next]_vars => [\A s \in Verified : s \in Verified' =>
        \A f \in Files : Payload(s)'[f] = Payload(s)[f] \/ Payload(s)'[f].gen = Rotten]_vars
  BY <1>1 DEF Verified
<1>. QED  BY <1>2, InvHolds, PTL DEF Spec, OldSnapshotsUntouched
=============================================================================
