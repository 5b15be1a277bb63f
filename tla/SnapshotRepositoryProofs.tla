----------------------- MODULE SnapshotRepositoryProofs ------------------------
(***************************************************************************)
(* What the repository guarantees for any number of processes, snapshots,  *)
(* attempts, crashes and I/O errors, and whatever the clock does.  Inv     *)
(* ties each process's place to the state of the snapshot it works on;     *)
(* CapInv bounds the failed samples; OrderInv says what the names, the     *)
(* chain and the true order have to do with one another; BoundInv, on top  *)
(* of it, bounds the accepted snapshots.                                   *)
(***************************************************************************)
EXTENDS SnapshotRepository, FiniteSetTheorems, WellFoundedInduction, TLAPS

\* Of finitely many sets one has no other strictly inside it.
LEMMA MinimalExists ==
  ASSUME NEW S, IsFiniteSet(S), S # {}, NEW F \in [S -> SUBSET S]
  PROVE  \E n \in S : \A m \in S : ~ (F[m] \subseteq F[n] /\ F[m] # F[n])
<1> DEFINE T == {F[n] : n \in S}
           Order == StrictSubsetOrdering(S)
<1>1. IsWellFoundedOn(Order, FiniteSubsetsOf(S))
  BY FS_StrictSubsetOrderingWellFounded
<1>2. FiniteSubsetsOf(S) = SUBSET S
  BY FS_FiniteSubsetsOfFinite
<1>3. T \subseteq SUBSET S /\ T # {}
  OBVIOUS
<1>4. PICK U \in T : \A V \in T : ~ (<<V, U>> \in Order)
  <2> HIDE DEF T, Order
  <2> QED
    BY <1>1, <1>2, <1>3, WFMin
<1>5. \A V \in T : ~ (V \subseteq U /\ V # U)
  <2> SUFFICES ASSUME NEW V \in T, V \subseteq U, V # U PROVE FALSE
    OBVIOUS
  <2>1. <<V, U>> \in (SUBSET S) \X (SUBSET S)
    BY <1>3
  <2>2. <<V, U>>[1] = V /\ <<V, U>>[2] = U
    OBVIOUS
  <2>3. <<V, U>> \in Order
    <3> HIDE DEF T
    <3> QED BY <2>1, <2>2, Zenon DEF StrictSubsetOrdering
  <2> QED
    BY <1>4, <2>3
<1> QED
  BY <1>5

\* Sets of names are finite and can be counted.
LEMMA NamesAreFinite ==
  ASSUME NEW S \in SUBSET Names
  PROVE  IsFiniteSet(S) /\ Cardinality(S) \in Nat
<1>1. IsFiniteSet(Names)
  BY FS_Interval, RepositoryAssumption DEF Names
<1>2. IsFiniteSet(S)
  BY <1>1, FS_Subset
<1> QED
  BY <1>2, FS_CardinalityType

LEMMA FewerIsLess ==
  ASSUME NEW T \in SUBSET Names, NEW S \in SUBSET T
  PROVE  Cardinality(S) <= Cardinality(T)
BY NamesAreFinite, FS_Subset

LEMMA OneMore ==
  ASSUME NEW T \in SUBSET Names, NEW x \in Names, NEW S \in SUBSET (T \cup {x})
  PROVE  Cardinality(S) <= Cardinality(T) + 1
<1>1. Cardinality(T \cup {x}) <= Cardinality(T) + 1
  <2>1. IsFiniteSet(T) /\ Cardinality(T) \in Nat
    BY NamesAreFinite
  <2>2. Cardinality(T \cup {x}) = IF x \in T THEN Cardinality(T) ELSE Cardinality(T) + 1
    BY <2>1, FS_AddElement
  <2> QED
    BY <2>1, <2>2
<1>2. Cardinality(S) <= Cardinality(T \cup {x})
  BY FewerIsLess
<1>3. Cardinality(S) \in Nat /\ Cardinality(T) \in Nat /\ Cardinality(T \cup {x}) \in Nat
  BY NamesAreFinite
<1> QED
  BY <1>1, <1>2, <1>3

\* A non-empty set of names has a greatest member that none exceeds.
LEMMA LargestIsLast ==
  ASSUME NEW S \in SUBSET Names, S # {}
  PROVE  \E n \in S : \A m \in S : m <= n
<1>1. IsFiniteSet(S)
  BY NamesAreFinite
<1>2. S \subseteq Int
  BY RepositoryAssumption DEF Names
<1> DEFINE Above == [n \in S |-> {m \in S : m > n}]
<1>3. Above \in [S -> SUBSET S] /\ \A n, m \in S : m \in Above[n] <=> m > n
  OBVIOUS
<1>4. PICK n \in S : \A m \in S : ~ (Above[m] \subseteq Above[n] /\ Above[m] # Above[n])
  <2> HIDE DEF Above
  <2> QED
    BY <1>1, <1>3, MinimalExists
<1>5. ASSUME NEW m \in S, m > n PROVE FALSE
  <2> HIDE DEF Above
  <2>1. m \in Int /\ n \in Int /\ \A x \in S : x \in Int
    BY <1>2
  <2>2. m \in Above[n] /\ m \notin Above[m]
    BY <1>3, <1>5, <2>1
  <2>3. \A x \in S : x \in Above[m] => x \in Above[n]
    BY <1>3, <1>5, <2>1
  <2>4. Above[m] \subseteq S
    BY <1>3
  <2> QED
    BY <1>4, <2>2, <2>3, <2>4
<1> QED
  BY <1>2, <1>5

\* A non-empty set of names has a greatest and a least member.
LEMMA ExtremesExist ==
  ASSUME NEW S \in SUBSET Names, S # {}
  PROVE  Largest(S) \in S /\ Smallest(S) \in S
<1>1. IsFiniteSet(S)
  BY NamesAreFinite
<1>2. S \subseteq Int
  BY RepositoryAssumption DEF Names
<1>3. \E n \in S : \A m \in S : m <= n
  BY LargestIsLast
<1>4. \E n \in S : \A m \in S : n <= m
  <2> DEFINE Below == [n \in S |-> {m \in S : m < n}]
  <2>1. Below \in [S -> SUBSET S] /\ \A n, m \in S : m \in Below[n] <=> m < n
    OBVIOUS
  <2>2. PICK n \in S : \A m \in S : ~ (Below[m] \subseteq Below[n] /\ Below[m] # Below[n])
    <3> HIDE DEF Below
    <3> QED
      BY <1>1, <2>1, MinimalExists
  <2>3. ASSUME NEW m \in S, m < n PROVE FALSE
    <3> HIDE DEF Below
    <3>1. m \in Int /\ n \in Int /\ \A x \in S : x \in Int
      BY <1>2
    <3>2. m \in Below[n] /\ m \notin Below[m]
      BY <2>1, <2>3, <3>1
    <3>3. \A x \in S : x \in Below[m] => x \in Below[n]
      BY <2>1, <2>3, <3>1
    <3>4. Below[m] \subseteq S
      BY <2>1
    <3> QED
      BY <2>2, <3>2, <3>3, <3>4
  <2> QED
    BY <1>2, <2>3
<1> QED
  BY <1>3, <1>4 DEF Largest, Smallest

\* The head is one of the snapshots, if there is any.
LEMMA HeadIsMember ==
  ASSUME NEW S \in SUBSET Names
  PROVE  Head(S) \in S \cup {NoSnap} /\ (S # {} => Head(S) \in S)
<1> DEFINE heads == {n \in S : \A m \in S : prev[m] # n}
<1>1. heads \in SUBSET Names
  OBVIOUS
<1>2. CASE S = {}
  BY <1>2 DEF Head
<1>3. CASE S # {} /\ heads = {}
  BY <1>3, ExtremesExist DEF Head
<1>4. CASE S # {} /\ heads # {}
  <2>1. Largest(heads) \in heads
    BY <1>1, <1>4, ExtremesExist
  <2> QED
    BY <1>4, <2>1 DEF Head
<1> QED
  BY <1>2, <1>3, <1>4

------------------------------------------------------------------------------
\* The state of the snapshot a process works on, at each of its places.
StateAt ==
  [copy |-> "temp", validate |-> "pending", accept |-> "pending",
   reject |-> "pending", diagnose |-> "failed", discard |-> "failed",
   sync |-> "verified", latest |-> "verified"]

\* A process inside an operation has the lock; its place says what its snapshot is,
\* what is known of it, and what the rotation may still remove.
ProcInv(p) ==
  /\ pc[p] # "idle" => lock = p
  /\ pc[p] \in {"idle", "preflight", "relink", "reading"} => cur[p] = NoSnap
  /\ pc[p] \in DOMAIN StateAt => cur[p] \in Names /\ state[cur[p]] = StateAt[pc[p]]
  /\ pc[p] \in {"rotate", "remove", "returned"} /\ cur[p] # NoSnap
       => state[cur[p]] = "verified"
  /\ pc[p] = "accept" => cur[p] \in passed
  /\ pc[p] = "discard" => cur[p] \in diags
  /\ pc[p] # "remove" => doomed[p] = {}
  /\ doomed[p] \subseteq Complete \ {latest, cur[p]}

Inv ==
  /\ TypeOK
  /\ \A p \in Procs : ProcInv(p)
  /\ OnlyValidatedAreTrusted
  /\ LatestNeverDangles

LEMMA InitEstablishesInv == Init => Inv
<1> SUFFICES ASSUME Init PROVE Inv
  OBVIOUS
<1> USE RepositoryAssumption DEF Init, NoSnap
<1>1. TypeOK
  BY DEF TypeOK, States, Places
<1>2. \A p \in Procs : ProcInv(p)
  BY DEF ProcInv, StateAt
<1>3. OnlyValidatedAreTrusted
  BY DEF OnlyValidatedAreTrusted, Trusted, Complete, In
<1>4. LatestNeverDangles
  BY DEF LatestNeverDangles
<1> QED
  BY <1>1, <1>2, <1>3, <1>4 DEF Inv

\* One process at a time: while one is inside an operation the others are idle, and
\* while the lock is free all are.
LEMMA OnlyOneWorks ==
  ASSUME Inv
  PROVE  /\ \A p, q \in Procs : pc[p] # "idle" /\ q # p => pc[q] = "idle"
         /\ lock = Nobody => \A p \in Procs : pc[p] = "idle"
BY RepositoryAssumption DEF Inv, ProcInv

\* A step of p leaves the others as they are, outside every operation.
LEMMA OthersStayIdle ==
  ASSUME Inv, NEW p \in Procs, Step(p), NEW q \in Procs \ {p}
  PROVE  /\ pc[q] = "idle" /\ pc'[q] = pc[q] /\ cur'[q] = cur[q]
         /\ doomed'[q] = doomed[q]
<1>1. pc[q] = "idle"
  <2>1. pc[p] # "idle" \/ lock = Nobody
    BY DEF Step, BeginCreate, Prepare, PreflightRaises, PublishPending, CopyRaises,
           ValidationPasses, ValidationFails, Accept, Reject, Diagnose, Discard,
           RecordRaises, Sync, PointLatest, BeginMaintain, Relink, RelinkRaises,
           BeginPrune, Rotate, Remove, RemoveRaises, Rotated, BeginRead, EndRead,
           Return, Crash, Acquire
  <2> QED
    BY <2>1, OnlyOneWorks
<1>2. pc'[q] = pc[q] /\ cur'[q] = cur[q] /\ doomed'[q] = doomed[q]
  <2> USE DEF Inv, TypeOK, Goto, locals
  <2>1. CASE Finish(p)
    BY <2>1 DEF Finish
  <2>2. CASE RetryOrRaise(p)
    BY <2>2 DEF RetryOrRaise, Finish
  <2>3. CASE \/ BeginCreate(p) \/ BeginMaintain(p) \/ BeginPrune(p) \/ BeginRead(p) \/ Prepare(p)
             \/ PublishPending(p) \/ ValidationPasses(p) \/ ValidationFails(p)
             \/ Accept(p) \/ Diagnose(p)
    BY <2>3 DEF BeginCreate, BeginMaintain, BeginPrune, BeginRead, Prepare, PublishPending,
                ValidationPasses, ValidationFails, Accept, Diagnose
  <2>4. CASE \/ Sync(p) \/ PointLatest(p) \/ Relink(p) \/ Rotate(p) \/ Remove(p)
             \/ RemoveRaises(p) \/ Rotated(p)
    BY <2>4 DEF Sync, PointLatest, Relink, Rotate, Remove, RemoveRaises, Rotated
  <2>5. CASE Reject(p) \/ Discard(p)
    BY <2>2, <2>5 DEF Reject, Discard
  <2> QED
    BY <2>1, <2>3, <2>4, <2>5 DEF Step, PreflightRaises, CopyRaises, RecordRaises,
       RelinkRaises, EndRead, Return, Crash
<1> QED
  BY <1>1, <1>2

LEMMA OthersKeepProcInv ==
  ASSUME Inv, NEW p \in Procs, Step(p)
  PROVE  \A q \in Procs \ {p} : ProcInv(q)'
<1> SUFFICES ASSUME NEW q \in Procs \ {p} PROVE ProcInv(q)'
  OBVIOUS
<1>1. pc[q] = "idle" /\ pc'[q] = pc[q] /\ cur'[q] = cur[q] /\ doomed'[q] = doomed[q]
  BY OthersStayIdle
<1>2. doomed[q] = {} /\ cur[q] = NoSnap
  BY <1>1 DEF Inv, ProcInv
<1> QED
  BY <1>1, <1>2 DEF ProcInv, StateAt

\* Trust and the link hold on as long as a snapshot becomes verified only if it
\* passed, and the link's target is never removed.
LEMMA ChangeKeepsTrust ==
  ASSUME Inv, NEW n \in Names, NEW what \in States,
         state' = [state EXCEPT ![n] = what], UNCHANGED <<prev, latest, passed>>,
         what = "verified" => n \in passed,
         n = latest => what \in {"verified", "broken"}
  PROVE  OnlyValidatedAreTrusted' /\ LatestNeverDangles'
<1>1. Complete' \subseteq Complete \cup {m \in {n} : what = "verified"}
  BY DEF Inv, TypeOK, Complete, In
<1>2. OnlyValidatedAreTrusted'
  BY <1>1 DEF Inv, OnlyValidatedAreTrusted, Trusted
<1>3. LatestNeverDangles'
  BY DEF Inv, TypeOK, LatestNeverDangles
<1> QED
  BY <1>2, <1>3

LEMMA NoChangeKeepsTrust ==
  ASSUME Inv, UNCHANGED <<state, prev, latest>>, passed \subseteq passed'
  PROVE  OnlyValidatedAreTrusted' /\ LatestNeverDangles'
BY DEF Inv, OnlyValidatedAreTrusted, Trusted, Complete, In, LatestNeverDangles

\* What a step cut short leaves is typed and trusted.
LEMMA CutShortIsSafe ==
  ASSUME Inv, NEW p \in Procs, CutShort(p), UNCHANGED <<prev, latest, passed>>
  PROVE  /\ state' \in [Names -> States]
         /\ OnlyValidatedAreTrusted' /\ LatestNeverDangles'
<1> USE DEF Inv
<1>1. CASE UNCHANGED state
  BY <1>1, NoChangeKeepsTrust DEF TypeOK
<1>2. ASSUME NEW n \in Names, NEW what \in States,
             state' = [state EXCEPT ![n] = what],
             what = "verified" => n \in passed,
             n = latest => what \in {"verified", "broken"}
      PROVE  /\ state' \in [Names -> States]
             /\ OnlyValidatedAreTrusted' /\ LatestNeverDangles'
  BY <1>2, ChangeKeepsTrust DEF TypeOK
<1>3. ProcInv(p)
  OBVIOUS
<1>4. CASE pc[p] = "accept" /\ state' = [state EXCEPT ![cur[p]] = "verified"]
  <2>1. cur[p] \in Names /\ cur[p] \in passed
    BY <1>3, <1>4 DEF ProcInv, StateAt
  <2> QED
    BY <1>2, <1>4, <2>1 DEF States
<1>5. CASE pc[p] = "reject" /\ state' = [state EXCEPT ![cur[p]] = "failed"]
  <2>1. cur[p] \in Names /\ cur[p] # latest
    BY <1>3, <1>5 DEF ProcInv, StateAt, LatestNeverDangles, Names, NoSnap
  <2> QED
    BY <1>2, <1>5, <2>1 DEF States
<1>6. CASE /\ pc[p] = "discard"
           /\ \E what \in {"broken", "gone"} : state' = [state EXCEPT ![cur[p]] = what]
  <2>1. cur[p] \in Names /\ cur[p] # latest
    BY <1>3, <1>6 DEF ProcInv, StateAt, LatestNeverDangles, Names, NoSnap
  <2> QED
    BY <1>2, <1>6, <2>1 DEF States
<1>7. CASE /\ pc[p] = "remove" /\ doomed[p] # {}
           /\ state' = [state EXCEPT ![Smallest(doomed[p])] = "broken"]
  <2>1. Smallest(doomed[p]) \in Names
    BY <1>7, ExtremesExist DEF TypeOK
  <2> QED
    BY <1>2, <1>7, <2>1 DEF States
<1> QED
  BY <1>1, <1>4, <1>5, <1>6, <1>7 DEF CutShort
\* An operation that ends, whatever it leaves on disk, leaves its process idle.
LEMMA FinishIsSafe ==
  ASSUME Inv, NEW p \in Procs, Finish(p)
  PROVE  /\ ProcInv(p)'
         /\ lock' \in Procs \cup {Nobody} /\ pc' \in [Procs -> Places]
         /\ cur' \in [Procs -> Names \cup {NoSnap}]
         /\ attempt' \in [Procs -> 0..Attempts] /\ retain' \in [Procs -> BOOLEAN]
         /\ doomed' \in [Procs -> SUBSET Names]
<1>1. /\ pc'[p] = "idle" /\ cur'[p] = NoSnap /\ doomed'[p] = {}
      /\ lock' \in Procs \cup {Nobody} /\ pc' \in [Procs -> Places]
      /\ cur' \in [Procs -> Names \cup {NoSnap}]
      /\ retain' \in [Procs -> BOOLEAN]
      /\ doomed' \in [Procs -> SUBSET Names]
  BY DEF Inv, TypeOK, Finish, Goto, Places
<1>2. attempt' \in [Procs -> 0..Attempts]
  BY RepositoryAssumption DEF Inv, TypeOK, Finish
<1>3. ProcInv(p)'
  BY <1>1 DEF ProcInv, StateAt
<1> QED
  BY <1>1, <1>2, <1>3

\* What every step of the operations keeps, for the process that takes it.
Kept(p) ==
  TypeOK' /\ ProcInv(p)' /\ OnlyValidatedAreTrusted' /\ LatestNeverDangles'

\* Steps that touch no snapshot.
LEMMA BeginCreateKeeps ==
  ASSUME Inv, NEW p \in Procs, BeginCreate(p)
  PROVE  Kept(p)
<1> USE DEF Inv
<1>1. ProcInv(p)
  OBVIOUS
<1>2. TypeOK'
  BY <1>1, RepositoryAssumption
     DEF TypeOK, BeginCreate, Goto, Acquire, Places, States, Fault, ProcInv, StateAt,
         disk, locals
<1>3. ProcInv(p)'
  BY <1>1, RepositoryAssumption
     DEF TypeOK, ProcInv, StateAt, BeginCreate, Goto, Acquire, NoSnap, Names,
         Complete, In, disk, locals
<1>4. OnlyValidatedAreTrusted' /\ LatestNeverDangles'
  BY NoChangeKeepsTrust DEF BeginCreate, disk
<1> QED
  BY <1>2, <1>3, <1>4 DEF Kept

LEMMA BeginMaintainKeeps ==
  ASSUME Inv, NEW p \in Procs, BeginMaintain(p)
  PROVE  Kept(p)
<1> USE DEF Inv
<1>1. ProcInv(p)
  OBVIOUS
<1>2. TypeOK'
  BY <1>1, RepositoryAssumption
     DEF TypeOK, BeginMaintain, Goto, Acquire, Places, States, Fault, ProcInv,
         StateAt, disk, locals
<1>3. ProcInv(p)'
  BY <1>1, RepositoryAssumption
     DEF TypeOK, ProcInv, StateAt, BeginMaintain, Goto, Acquire, NoSnap, Names,
         Complete, In, disk, locals
<1>4. OnlyValidatedAreTrusted' /\ LatestNeverDangles'
  BY NoChangeKeepsTrust DEF BeginMaintain, disk
<1> QED
  BY <1>2, <1>3, <1>4 DEF Kept

LEMMA BeginPruneKeeps ==
  ASSUME Inv, NEW p \in Procs, BeginPrune(p)
  PROVE  Kept(p)
<1> USE DEF Inv
<1>1. ProcInv(p)
  OBVIOUS
<1>2. TypeOK'
  BY <1>1, RepositoryAssumption
     DEF TypeOK, BeginPrune, Goto, Acquire, Places, States, Fault, ProcInv, StateAt,
         disk, locals
<1>3. ProcInv(p)'
  BY <1>1, RepositoryAssumption
     DEF TypeOK, ProcInv, StateAt, BeginPrune, Goto, Acquire, NoSnap, Names,
         Complete, In, disk, locals
<1>4. OnlyValidatedAreTrusted' /\ LatestNeverDangles'
  BY NoChangeKeepsTrust DEF BeginPrune, disk
<1> QED
  BY <1>2, <1>3, <1>4 DEF Kept

LEMMA BeginReadKeeps ==
  ASSUME Inv, NEW p \in Procs, BeginRead(p)
  PROVE  Kept(p)
<1> USE DEF Inv
<1>1. ProcInv(p)
  OBVIOUS
<1>2. TypeOK'
  BY <1>1, RepositoryAssumption
     DEF TypeOK, BeginRead, Goto, Acquire, Places, States, Fault, ProcInv, StateAt,
         disk, locals
<1>3. ProcInv(p)'
  BY <1>1, RepositoryAssumption
     DEF TypeOK, ProcInv, StateAt, BeginRead, Goto, Acquire, NoSnap, Names,
         Complete, In, disk, locals
<1>4. OnlyValidatedAreTrusted' /\ LatestNeverDangles'
  BY NoChangeKeepsTrust DEF BeginRead, disk
<1> QED
  BY <1>2, <1>3, <1>4 DEF Kept

LEMMA ValidationPassesKeeps ==
  ASSUME Inv, NEW p \in Procs, ValidationPasses(p)
  PROVE  Kept(p)
<1> USE DEF Inv
<1>1. ProcInv(p)
  OBVIOUS
<1>2. TypeOK'
  BY <1>1, RepositoryAssumption
     DEF TypeOK, ValidationPasses, Goto, Acquire, Places, States, Fault, ProcInv,
         StateAt, disk, locals
<1>3. ProcInv(p)'
  BY <1>1, RepositoryAssumption
     DEF TypeOK, ProcInv, StateAt, ValidationPasses, Goto, Acquire, NoSnap, Names,
         Complete, In, disk, locals
<1>4. OnlyValidatedAreTrusted' /\ LatestNeverDangles'
  BY NoChangeKeepsTrust DEF ValidationPasses, disk
<1> QED
  BY <1>2, <1>3, <1>4 DEF Kept

LEMMA ValidationFailsKeeps ==
  ASSUME Inv, NEW p \in Procs, ValidationFails(p)
  PROVE  Kept(p)
<1> USE DEF Inv
<1>1. ProcInv(p)
  OBVIOUS
<1>2. TypeOK'
  BY <1>1, RepositoryAssumption
     DEF TypeOK, ValidationFails, Goto, Acquire, Places, States, Fault, ProcInv,
         StateAt, disk, locals
<1>3. ProcInv(p)'
  BY <1>1, RepositoryAssumption
     DEF TypeOK, ProcInv, StateAt, ValidationFails, Goto, Acquire, NoSnap, Names,
         Complete, In, disk, locals
<1>4. OnlyValidatedAreTrusted' /\ LatestNeverDangles'
  BY NoChangeKeepsTrust DEF ValidationFails, disk
<1> QED
  BY <1>2, <1>3, <1>4 DEF Kept

LEMMA SyncKeeps ==
  ASSUME Inv, NEW p \in Procs, Sync(p)
  PROVE  Kept(p)
<1> USE DEF Inv
<1>1. ProcInv(p)
  OBVIOUS
<1>2. TypeOK'
  BY <1>1, RepositoryAssumption
     DEF TypeOK, Sync, Goto, Acquire, Places, States, Fault, ProcInv, StateAt, disk,
         locals
<1>3. ProcInv(p)'
  BY <1>1, RepositoryAssumption
     DEF TypeOK, ProcInv, StateAt, Sync, Goto, Acquire, NoSnap, Names, Complete, In,
         disk, locals
<1>4. OnlyValidatedAreTrusted' /\ LatestNeverDangles'
  BY NoChangeKeepsTrust DEF Sync, disk
<1> QED
  BY <1>2, <1>3, <1>4 DEF Kept

LEMMA RotatedKeeps ==
  ASSUME Inv, NEW p \in Procs, Rotated(p)
  PROVE  Kept(p)
<1> USE DEF Inv
<1>1. ProcInv(p)
  OBVIOUS
<1>2. TypeOK'
  BY <1>1, RepositoryAssumption
     DEF TypeOK, Rotated, Goto, Acquire, Places, States, Fault, ProcInv, StateAt,
         disk, locals
<1>3. ProcInv(p)'
  BY <1>1, RepositoryAssumption
     DEF TypeOK, ProcInv, StateAt, Rotated, Goto, Acquire, NoSnap, Names, Complete,
         In, disk, locals
<1>4. OnlyValidatedAreTrusted' /\ LatestNeverDangles'
  BY NoChangeKeepsTrust DEF Rotated, disk
<1> QED
  BY <1>2, <1>3, <1>4 DEF Kept

LEMMA DiagnoseKeeps ==
  ASSUME Inv, NEW p \in Procs, Diagnose(p)
  PROVE  Kept(p)
<1> USE DEF Inv
<1>1. ProcInv(p)
  OBVIOUS
<1>2. TypeOK'
  BY <1>1, RepositoryAssumption
     DEF TypeOK, Diagnose, Goto, Acquire, Places, States, Fault, ProcInv, StateAt,
         disk, locals
<1>3. ProcInv(p)'
  BY <1>1, RepositoryAssumption
     DEF TypeOK, ProcInv, StateAt, Diagnose, Goto, Acquire, NoSnap, Names, Complete,
         In, disk, locals
<1>4. OnlyValidatedAreTrusted' /\ LatestNeverDangles'
  BY NoChangeKeepsTrust DEF Diagnose, disk
<1> QED
  BY <1>2, <1>3, <1>4 DEF Kept

\* The steps of create that change its own snapshot.
LEMMA AcceptKeeps ==
  ASSUME Inv, NEW p \in Procs, Accept(p)
  PROVE  Kept(p)
<1> USE DEF Inv
<1>1. ProcInv(p)
  OBVIOUS
<1>2. TypeOK'
  BY <1>1, RepositoryAssumption
     DEF TypeOK, Accept, Goto, Acquire, Places, States, Fault, ProcInv, StateAt
<1>3. ProcInv(p)'
  BY <1>1, RepositoryAssumption
     DEF TypeOK, ProcInv, StateAt, Accept, Goto, Acquire, NoSnap, Names, Complete,
         In, disk, locals
<1>4. OnlyValidatedAreTrusted' /\ LatestNeverDangles'
  <2>1. cur[p] \in Names /\ cur[p] # NoSnap /\ state[cur[p]] = StateAt[pc[p]]
    BY <1>1 DEF Accept, ProcInv, StateAt, Names, NoSnap
  <2> QED
    BY <1>1, <2>1, ChangeKeepsTrust
       DEF Accept, States, StateAt, ProcInv, LatestNeverDangles
<1> QED
  BY <1>2, <1>3, <1>4 DEF Kept

LEMMA OwnSnapshotChanges ==
  ASSUME Inv, NEW p \in Procs, NEW what \in States,
         pc[p] \in DOMAIN StateAt \ {"sync", "latest"}, what # "verified",
         state' = [state EXCEPT ![cur[p]] = what], UNCHANGED <<prev, latest, passed>>
  PROVE  /\ state' \in [Names -> States]
         /\ OnlyValidatedAreTrusted' /\ LatestNeverDangles'
<1>1. cur[p] \in Names /\ cur[p] # latest
  BY DEF Inv, ProcInv, StateAt, LatestNeverDangles, Names, NoSnap
<1> QED
  BY <1>1, ChangeKeepsTrust DEF Inv, TypeOK

LEMMA RetryOrRaiseIsSafe ==
  ASSUME Inv, NEW p \in Procs, RetryOrRaise(p),
         pc[p] \in DOMAIN StateAt, UNCHANGED <<prev, latest, diags, passed>>
  PROVE  /\ ProcInv(p)'
         /\ lock' \in Procs \cup {Nobody} /\ pc' \in [Procs -> Places]
         /\ cur' \in [Procs -> Names \cup {NoSnap}]
         /\ attempt' \in [Procs -> 0..Attempts] /\ retain' \in [Procs -> BOOLEAN]
         /\ doomed' \in [Procs -> SUBSET Names]
<1>1. CASE Finish(p)
  BY <1>1, FinishIsSafe
<1>2. CASE ~ Finish(p)
  <2>1. /\ attempt[p] < Attempts /\ Goto(p, "preflight")
        /\ attempt' = [attempt EXCEPT ![p] = @ + 1]
        /\ cur' = [cur EXCEPT ![p] = NoSnap]
        /\ UNCHANGED <<lock, retain, doomed>>
    BY <1>2 DEF RetryOrRaise
  <2>2. ProcInv(p) /\ TypeOK
    BY DEF Inv
  <2>3. attempt' \in [Procs -> 0..Attempts]
    BY <2>1, <2>2, RepositoryAssumption DEF TypeOK
  <2>4. pc' \in [Procs -> Places] /\ pc'[p] = "preflight" /\ cur'[p] = NoSnap
    BY <2>1, <2>2 DEF TypeOK, Goto, Places
  <2>5. doomed[p] = {} /\ lock = p
    BY <2>2 DEF ProcInv, StateAt
  <2>6. ProcInv(p)'
    BY <2>1, <2>4, <2>5 DEF ProcInv, StateAt
  <2> QED
    BY <2>1, <2>2, <2>3, <2>4, <2>6 DEF TypeOK
<1> QED
  BY <1>1, <1>2

LEMMA PublishPendingKeeps ==
  ASSUME Inv, NEW p \in Procs, PublishPending(p)
  PROVE  Kept(p)
<1> USE DEF Inv
<1>1. ProcInv(p)
  OBVIOUS
<1>2. TypeOK'
  BY <1>1, RepositoryAssumption
     DEF TypeOK, PublishPending, Goto, Acquire, Places, States, Fault, ProcInv,
         StateAt
<1>3. ProcInv(p)'
  BY <1>1, RepositoryAssumption
     DEF TypeOK, ProcInv, StateAt, PublishPending, Goto, Acquire, NoSnap, Names,
         Complete, In, disk, locals
<1>4. OnlyValidatedAreTrusted' /\ LatestNeverDangles'
  BY OwnSnapshotChanges DEF PublishPending, States, StateAt
<1> QED
  BY <1>2, <1>3, <1>4 DEF Kept

LEMMA RejectKeeps ==
  ASSUME Inv, NEW p \in Procs, Reject(p)
  PROVE  Kept(p)
<1> USE DEF Inv
<1>1. ProcInv(p)
  OBVIOUS
<1>2. /\ state' \in [Names -> States]
      /\ OnlyValidatedAreTrusted' /\ LatestNeverDangles'
  BY OwnSnapshotChanges DEF Reject, States, StateAt
<1>3. CASE RetryOrRaise(p)
  <2>1. ProcInv(p)' /\ TypeOK'
    BY <1>2, <1>3, RetryOrRaiseIsSafe DEF Reject, TypeOK, StateAt
  <2> QED
    BY <1>2, <2>1 DEF Kept
<1>4. CASE Goto(p, "diagnose") /\ UNCHANGED <<lock, cur, attempt, retain, doomed>>
  <2>1. TypeOK'
    BY <1>2, <1>4 DEF Reject, TypeOK, Goto, Places
  <2>2. ProcInv(p)'
    BY <1>1, <1>4 DEF Reject, TypeOK, ProcInv, StateAt, Goto, Names, NoSnap
  <2> QED
    BY <1>2, <2>1, <2>2 DEF Kept
<1> QED
  BY <1>3, <1>4 DEF Reject

LEMMA DiscardKeeps ==
  ASSUME Inv, NEW p \in Procs, Discard(p)
  PROVE  Kept(p)
<1>1. /\ state' \in [Names -> States]
      /\ OnlyValidatedAreTrusted' /\ LatestNeverDangles'
  BY OwnSnapshotChanges DEF Discard, States, StateAt
<1>2. ProcInv(p)' /\ TypeOK'
  BY <1>1, RetryOrRaiseIsSafe DEF Discard, Inv, TypeOK, StateAt
<1> QED
  BY <1>1, <1>2 DEF Kept

\* The operations that end.
LEMMA CopyRaisesKeeps ==
  ASSUME Inv, NEW p \in Procs, CopyRaises(p)
  PROVE  Kept(p)
<1> USE DEF Inv
<1>1. /\ state' \in [Names -> States]
      /\ OnlyValidatedAreTrusted' /\ LatestNeverDangles'
  <2>1. CASE UNCHANGED state
    BY <2>1, NoChangeKeepsTrust DEF CopyRaises, TypeOK
  <2>2. CASE state' = [state EXCEPT ![cur[p]] = "gone"]
    BY <2>2, OwnSnapshotChanges DEF CopyRaises, States, StateAt
  <2> QED
    BY <2>1, <2>2 DEF CopyRaises
<1>2. TypeOK'
  BY <1>1, FinishIsSafe DEF CopyRaises, TypeOK, Fault
<1> QED
  BY <1>1, <1>2, FinishIsSafe DEF Kept, CopyRaises

LEMMA PreflightRaisesKeeps ==
  ASSUME Inv, NEW p \in Procs, PreflightRaises(p)
  PROVE  Kept(p)
<1> USE DEF Inv
<1>1. /\ state' \in [Names -> States]
      /\ OnlyValidatedAreTrusted' /\ LatestNeverDangles'
  BY CutShortIsSafe, NoChangeKeepsTrust DEF PreflightRaises, disk, CutShort, TypeOK
<1>2. TypeOK'
  BY <1>1, FinishIsSafe DEF PreflightRaises, disk, TypeOK, Fault
<1> QED
  BY <1>1, <1>2, FinishIsSafe DEF Kept, PreflightRaises

LEMMA RecordRaisesKeeps ==
  ASSUME Inv, NEW p \in Procs, RecordRaises(p)
  PROVE  Kept(p)
<1> USE DEF Inv
<1>1. /\ state' \in [Names -> States]
      /\ OnlyValidatedAreTrusted' /\ LatestNeverDangles'
  BY CutShortIsSafe, NoChangeKeepsTrust DEF RecordRaises, disk, CutShort, TypeOK
<1>2. TypeOK'
  BY <1>1, FinishIsSafe DEF RecordRaises, disk, TypeOK, Fault
<1> QED
  BY <1>1, <1>2, FinishIsSafe DEF Kept, RecordRaises

LEMMA RelinkRaisesKeeps ==
  ASSUME Inv, NEW p \in Procs, RelinkRaises(p)
  PROVE  Kept(p)
<1> USE DEF Inv
<1>1. /\ state' \in [Names -> States]
      /\ OnlyValidatedAreTrusted' /\ LatestNeverDangles'
  BY CutShortIsSafe, NoChangeKeepsTrust DEF RelinkRaises, disk, CutShort, TypeOK
<1>2. TypeOK'
  BY <1>1, FinishIsSafe DEF RelinkRaises, disk, TypeOK, Fault
<1> QED
  BY <1>1, <1>2, FinishIsSafe DEF Kept, RelinkRaises

LEMMA ReturnKeeps ==
  ASSUME Inv, NEW p \in Procs, Return(p)
  PROVE  Kept(p)
<1> USE DEF Inv
<1>1. /\ state' \in [Names -> States]
      /\ OnlyValidatedAreTrusted' /\ LatestNeverDangles'
  BY CutShortIsSafe, NoChangeKeepsTrust DEF Return, disk, CutShort, TypeOK
<1>2. TypeOK'
  BY <1>1, FinishIsSafe DEF Return, disk, TypeOK, Fault
<1> QED
  BY <1>1, <1>2, FinishIsSafe DEF Kept, Return

LEMMA EndReadKeeps ==
  ASSUME Inv, NEW p \in Procs, EndRead(p)
  PROVE  Kept(p)
<1> USE DEF Inv
<1>1. /\ state' \in [Names -> States]
      /\ OnlyValidatedAreTrusted' /\ LatestNeverDangles'
  BY CutShortIsSafe, NoChangeKeepsTrust DEF EndRead, disk, CutShort, TypeOK
<1>2. TypeOK'
  BY <1>1, FinishIsSafe DEF EndRead, disk, TypeOK, Fault
<1> QED
  BY <1>1, <1>2, FinishIsSafe DEF Kept, EndRead

LEMMA CrashKeeps ==
  ASSUME Inv, NEW p \in Procs, Crash(p)
  PROVE  Kept(p)
<1> USE DEF Inv
<1>1. /\ state' \in [Names -> States]
      /\ OnlyValidatedAreTrusted' /\ LatestNeverDangles'
  BY CutShortIsSafe, NoChangeKeepsTrust DEF Crash, disk, CutShort, TypeOK
<1>2. TypeOK'
  BY <1>1, FinishIsSafe DEF Crash, disk, TypeOK, Fault
<1> QED
  BY <1>1, <1>2, FinishIsSafe DEF Kept, Crash

\* The maintenance steps.
LEMMA PointLatestKeeps ==
  ASSUME Inv, NEW p \in Procs, PointLatest(p)
  PROVE  Kept(p)
<1> USE DEF Inv
<1>1. ProcInv(p) /\ pc[p] = "latest" /\ state[cur[p]] = "verified" /\ cur[p] \in Names
  BY DEF PointLatest, ProcInv, StateAt
<1>2. TypeOK'
  BY <1>1, RepositoryAssumption DEF TypeOK, PointLatest, Goto, Places, Fault
<1>3. ProcInv(p)'
  BY <1>1 DEF TypeOK, ProcInv, StateAt, PointLatest, Goto
<1>4. OnlyValidatedAreTrusted' /\ LatestNeverDangles'
  BY <1>1 DEF PointLatest, OnlyValidatedAreTrusted, Trusted, Complete, In,
              LatestNeverDangles
<1> QED
  BY <1>2, <1>3, <1>4 DEF Kept

LEMMA RelinkKeeps ==
  ASSUME Inv, NEW p \in Procs, Relink(p)
  PROVE  Kept(p)
<1> USE DEF Inv
<1>1. ProcInv(p)
  OBVIOUS
<1>2. latest' = latest \/ latest' \in Complete
  BY HeadIsMember DEF Relink, Complete, In
<1>3. TypeOK'
  BY <1>2 DEF TypeOK, Relink, Goto, Places, Complete, In
<1>4. ProcInv(p)'
  BY <1>1 DEF TypeOK, ProcInv, StateAt, Relink, Goto, Complete, In
<1>5. OnlyValidatedAreTrusted' /\ LatestNeverDangles'
  BY <1>2 DEF Relink, OnlyValidatedAreTrusted, Trusted, Complete, In, LatestNeverDangles
<1> QED
  BY <1>3, <1>4, <1>5 DEF Kept

LEMMA RotateKeeps ==
  ASSUME Inv, NEW p \in Procs, Rotate(p)
  PROVE  Kept(p)
<1> USE DEF Inv
<1>1. ProcInv(p)
  OBVIOUS
<1>2. Removable(cur[p]) \subseteq Complete \ {latest, cur[p]} /\ Complete \subseteq Names
  BY DEF Removable, Complete, In
<1>3. TypeOK'
  BY <1>2 DEF TypeOK, Rotate, Goto, Places, disk
<1>4. ProcInv(p)'
  BY <1>1, <1>2 DEF TypeOK, ProcInv, StateAt, Rotate, Goto, disk, Complete, In
<1>5. OnlyValidatedAreTrusted' /\ LatestNeverDangles'
  BY NoChangeKeepsTrust DEF Rotate, disk
<1> QED
  BY <1>3, <1>4, <1>5 DEF Kept

\* What rotation takes next is a verified snapshot, not the link's target and not the
\* new one.
LEMMA NextToGo ==
  ASSUME Inv, NEW p \in Procs, doomed[p] # {}
  PROVE  /\ Smallest(doomed[p]) \in doomed[p] /\ Smallest(doomed[p]) \in Names
         /\ state[Smallest(doomed[p])] = "verified"
         /\ Smallest(doomed[p]) # latest /\ Smallest(doomed[p]) # cur[p]
<1>1. doomed[p] \in SUBSET Names /\ doomed[p] \subseteq Complete \ {latest, cur[p]}
  BY DEF Inv, TypeOK, ProcInv
<1> QED
  BY <1>1, ExtremesExist DEF Complete, In

LEMMA RemoveKeeps ==
  ASSUME Inv, NEW p \in Procs, Remove(p)
  PROVE  Kept(p)
<1> USE DEF Inv
<1> DEFINE n == Smallest(doomed[p])
<1>1. ProcInv(p) /\ pc[p] = "remove"
  BY DEF Remove
<1>2. n \in doomed[p] /\ n \in Names /\ n # latest /\ n # cur[p]
  BY NextToGo DEF Remove
<1>3. /\ state' = [state EXCEPT ![n] = "gone"]
      /\ doomed' = [doomed EXCEPT ![p] = @ \ {n}]
      /\ UNCHANGED <<prev, latest, diags, lock, pc, cur, attempt, retain, faults,
                     passed, made>>
  BY DEF Remove
<1> HIDE DEF n
<1>4. TypeOK'
  BY <1>2, <1>3 DEF TypeOK, States
<1>5. ProcInv(p)'
  <2>1. doomed'[p] = doomed[p] \ {n}
    BY <1>3 DEF TypeOK
  <2>2. doomed'[p] \subseteq Complete' \ {latest', cur'[p]}
    BY <1>1, <1>2, <1>3, <2>1 DEF TypeOK, ProcInv, Complete, In
  <2>3. cur[p] # NoSnap => state'[cur[p]] = "verified"
    BY <1>1, <1>2, <1>3 DEF TypeOK, ProcInv
  <2> QED
    BY <1>1, <1>3, <2>2, <2>3 DEF ProcInv, StateAt
<1>6. OnlyValidatedAreTrusted' /\ LatestNeverDangles'
  BY <1>2, <1>3, ChangeKeepsTrust DEF States
<1> QED
  BY <1>4, <1>5, <1>6 DEF Kept

LEMMA RemoveRaisesKeeps ==
  ASSUME Inv, NEW p \in Procs, RemoveRaises(p)
  PROVE  Kept(p)
<1> USE DEF Inv
<1>1. ProcInv(p) /\ pc[p] = "remove"
  BY DEF RemoveRaises
<1>2. /\ state' \in [Names -> States]
      /\ OnlyValidatedAreTrusted' /\ LatestNeverDangles'
  BY CutShortIsSafe DEF RemoveRaises
<1>3. TypeOK'
  BY <1>2 DEF TypeOK, RemoveRaises, Fault
<1>4. cur[p] # NoSnap => state'[cur[p]] = "verified"
  BY <1>1, NextToGo DEF RemoveRaises, CutShort, TypeOK, ProcInv
<1>5. ProcInv(p)'
  BY <1>1, <1>4 DEF TypeOK, ProcInv, StateAt, RemoveRaises
<1> QED
  BY <1>2, <1>3, <1>5 DEF Kept

LEMMA PrepareKeeps ==
  ASSUME Inv, NEW p \in Procs, Prepare(p)
  PROVE  Kept(p)
<1> USE DEF Inv
<1>1. ProcInv(p) /\ pc[p] = "preflight"
  BY DEF Prepare
<1>2. PICK n \in In("none") :
        /\ state' = [state EXCEPT ![n] = "temp"]
        /\ prev' = [prev EXCEPT ![n] = Head(Complete)]
        /\ cur' = [cur EXCEPT ![p] = n]
        /\ made' = [made EXCEPT ![n] = Cardinality(Names \ In("none")) + 1]
  BY DEF Prepare
<1>3. n \in Names /\ state[n] = "none" /\ n # latest
  BY <1>2 DEF In, LatestNeverDangles, Names, NoSnap
<1>4. Head(Complete) \in Complete \cup {NoSnap} /\ Complete \subseteq Names
  BY HeadIsMember DEF Complete, In
<1>5. Cardinality(Names \ In("none")) \in Nat
  BY NamesAreFinite
<1>6. TypeOK'
  <2>1. made' \in [Names -> Nat]
    BY <1>2, <1>3, <1>5 DEF TypeOK
  <2>2. state' \in [Names -> States] /\ prev' \in [Names -> Names \cup {NoSnap}]
        /\ cur' \in [Procs -> Names \cup {NoSnap}]
    BY <1>2, <1>3, <1>4 DEF TypeOK, States
  <2>3. retain' \in [Procs -> BOOLEAN]
    BY DEF TypeOK, Prepare
  <2> QED
    BY <2>1, <2>2, <2>3 DEF TypeOK, Prepare, Goto, Places
<1>7. ProcInv(p)'
  <2>1. cur'[p] = n /\ state'[n] = "temp" /\ pc'[p] = "copy" /\ doomed'[p] = {}
    BY <1>1, <1>2, <1>3 DEF TypeOK, Prepare, Goto, ProcInv
  <2> QED
    BY <1>1, <1>3, <2>1 DEF ProcInv, StateAt, Prepare
<1>8. Complete' = Complete
  BY <1>2, <1>3 DEF TypeOK, Complete, In
<1>9. OnlyValidatedAreTrusted'
  BY <1>2, <1>3, <1>4, <1>8 DEF TypeOK, OnlyValidatedAreTrusted, Trusted, Prepare
<1>10. LatestNeverDangles'
  BY <1>2, <1>3 DEF TypeOK, LatestNeverDangles, Prepare
<1> QED
  BY <1>6, <1>7, <1>9, <1>10 DEF Kept

\* Damage strikes while all are idle.
LEMMA DamageKeepsInv ==
  ASSUME Inv, NEW n \in Names, Damage(n)
  PROVE  Inv'
<1> USE DEF Inv
<1>1. OnlyValidatedAreTrusted' /\ LatestNeverDangles'
  BY ChangeKeepsTrust DEF Damage, States
<1>2. TypeOK'
  BY DEF Damage, TypeOK, States, Fault, locals
<1>3. \A q \in Procs : ProcInv(q)'
  <2> SUFFICES ASSUME NEW q \in Procs PROVE ProcInv(q)'
    OBVIOUS
  <2>1. pc[q] = "idle" /\ ProcInv(q)
    BY OnlyOneWorks DEF Damage
  <2> QED
    BY <2>1 DEF Damage, locals, ProcInv, StateAt
<1> QED
  BY <1>1, <1>2, <1>3

LEMMA NextKeepsInv == Inv /\ [Next]_vars => Inv'
<1> SUFFICES ASSUME Inv, [Next]_vars PROVE Inv'
  OBVIOUS
<1>1. ASSUME NEW p \in Procs, Step(p) PROVE Inv'
  <2>1. Kept(p)
    BY <1>1, BeginCreateKeeps, PrepareKeeps, PreflightRaisesKeeps, PublishPendingKeeps,
       CopyRaisesKeeps, ValidationPassesKeeps, ValidationFailsKeeps, AcceptKeeps,
       RejectKeeps, DiagnoseKeeps, DiscardKeeps, RecordRaisesKeeps, SyncKeeps,
       PointLatestKeeps, BeginMaintainKeeps, RelinkKeeps, RelinkRaisesKeeps,
       BeginPruneKeeps, BeginReadKeeps, EndReadKeeps, RotateKeeps, RemoveKeeps, RemoveRaisesKeeps, RotatedKeeps,
       ReturnKeeps, CrashKeeps
       DEF Step
  <2>2. \A q \in Procs \ {p} : ProcInv(q)'
    BY <1>1, OthersKeepProcInv
  <2> QED
    BY <2>1, <2>2 DEF Inv, Kept
<1>2. ASSUME UNCHANGED vars PROVE Inv'
  BY <1>2 DEF vars, disk, locals, Inv, TypeOK, ProcInv, StateAt, Complete, In,
              OnlyValidatedAreTrusted, Trusted, LatestNeverDangles
<1> QED
  BY <1>1, <1>2, DamageKeepsInv DEF Next

THEOREM InvHolds == Spec => []Inv
<1>1. Init => Inv
  BY InitEstablishesInv
<1>2. Inv /\ [Next]_vars => Inv'
  BY NextKeepsInv
<1> QED
  BY <1>1, <1>2, PTL DEF Spec

\* The repository is well typed, and no run makes more copies than verification_attempts.
THEOREM TypeCorrect == Spec => []TypeOK
BY InvHolds, PTL DEF Inv

\* Nothing unvalidated is ever trusted: accepted by the verifier, named by the link, or
\* linked against by a later copy.
THEOREM TrustIsEarned == Spec => []OnlyValidatedAreTrusted
BY InvHolds, PTL DEF Inv

\* The latest link never names a removed or unverified snapshot.
THEOREM LinkIsKept == Spec => []LatestNeverDangles
BY InvHolds, PTL DEF Inv

\* A successful create returns a snapshot that is still in the repository.
THEOREM ReturnedSnapshotIsThere == Spec => []ReturnedSnapshotSurvives
<1>1. Inv => ReturnedSnapshotSurvives
  BY DEF Inv, ProcInv, ReturnedSnapshotSurvives
<1> QED
  BY InvHolds, <1>1, PTL

\* A step changes only the process's own snapshot, a name not given yet or a verified
\* snapshot; its own failed one only after the diagnostics.
LEMMA WhatAStepChanges ==
  ASSUME Inv, NEW p \in Procs, Step(p), NEW n \in Names, state'[n] # state[n]
  PROVE  \/ state[n] \in {"none", "verified"}
         \/ n = cur[p] /\ (state[n] = "failed" => n \in diags)
<1> USE DEF Inv, TypeOK
<1>1. ProcInv(p)
  OBVIOUS
<1>2. CASE n = cur[p]
  <2>1. CASE pc[p] = "discard"
    BY <1>1, <1>2, <2>1 DEF ProcInv
  <2>2. CASE pc[p] = "diagnose"
    BY <1>1, <1>2, <2>2 DEF Step, BeginCreate, Prepare, PreflightRaises, PublishPending,
       CopyRaises, ValidationPasses, ValidationFails, Accept, Reject, Diagnose, Discard,
       RecordRaises, Sync, PointLatest, BeginMaintain, Relink, RelinkRaises, BeginPrune,
       BeginRead, EndRead, Rotate, Remove, RemoveRaises, Rotated, Return, Crash, CutShort,
       Acquire, disk
  <2>3. CASE pc[p] \notin {"discard", "diagnose"}
    <3>1. state[n] # "failed"
      BY <1>1, <1>2, <2>3 DEF ProcInv, StateAt, Places, Names, NoSnap
    <3> QED
      BY <1>2, <3>1
  <2> QED
    BY <2>1, <2>2, <2>3
<1>3. CASE n # cur[p]
  <2>1. CASE Prepare(p)
    BY <1>3, <2>1 DEF Prepare, In
  <2>2. CASE CutShort(p)
    BY <1>3, <2>2, NextToGo DEF CutShort
  <2>3. CASE Remove(p)
    BY <2>3, NextToGo DEF Remove
  <2> QED
    BY <1>3, <2>1, <2>2, <2>3
    DEF Step, BeginCreate, PreflightRaises, PublishPending,
        CopyRaises, ValidationPasses, ValidationFails, Accept, Reject, Diagnose, Discard,
        RecordRaises, Sync, PointLatest, BeginMaintain, Relink, RelinkRaises, BeginPrune,
        BeginRead, EndRead, Rotate, RemoveRaises, Rotated, Return, Crash, disk
<1> QED
  BY <1>2, <1>3

\* No run touches the pending or failed snapshot that another run left.
THEOREM EvidenceIsKept == Spec => EvidenceKept
<1> DEFINE Kept1(n) == /\ state[n] \in {"temp", "pending", "failed"}
                       /\ \A p \in Procs : cur[p] # n
                       => state'[n] = state[n]
<1>1. Inv /\ [Next]_vars => [\A n \in Names : Kept1(n)]_vars
  <2> SUFFICES ASSUME Inv, Next, NEW n \in Names PROVE Kept1(n)
    OBVIOUS
  <2>1. ASSUME NEW p \in Procs, Step(p) PROVE Kept1(n)
    BY <2>1, WhatAStepChanges
  <2>2. ASSUME NEW m \in Names, Damage(m) PROVE Kept1(n)
    BY <2>2 DEF Damage, Inv, TypeOK
  <2> QED
    BY <2>1, <2>2 DEF Next
<1> QED
  BY InvHolds, <1>1, PTL DEF Spec, EvidenceKept

\* A failed payload leaves the repository only after its diagnostics are durable.
THEOREM DiagnosticsComeFirst == Spec => DiagnosedBeforeDiscard
<1> DEFINE Diagnosed(n) == state[n] = "failed" /\ state'[n] # "failed" => n \in diags
<1>1. Inv /\ [Next]_vars => [\A n \in Names : Diagnosed(n)]_vars
  <2> SUFFICES ASSUME Inv, Next, NEW n \in Names PROVE Diagnosed(n)
    OBVIOUS
  <2>1. ASSUME NEW p \in Procs, Step(p) PROVE Diagnosed(n)
    BY <2>1, WhatAStepChanges
  <2>2. ASSUME NEW m \in Names, Damage(m) PROVE Diagnosed(n)
    BY <2>2 DEF Damage, Inv, TypeOK
  <2> QED
    BY <2>1, <2>2 DEF Next
<1> QED
  BY InvHolds, <1>1, PTL DEF Spec, DiagnosedBeforeDiscard

------------------------------------------------------------------------------
\* The failed samples that no run is working on.
Left == {n \in In("failed") : \A p \in Procs : cur[p] # n}

\* They stay below the cap, but for runs cut short; and a run that means to keep its
\* sample counted fewer than the cap, and still would.
CapInv ==
  /\ Cardinality(Left) <= MaxFailed + faults
  /\ \A p \in Procs :
       retain[p] /\ pc[p] \in {"copy", "validate", "accept", "reject"}
       => Cardinality(In("failed")) < MaxFailed

\* What a step can do to them: nothing; or a run cut short leaves its own behind, which
\* costs a fault; or a rejected sample is kept.
LEMMA HowLeftGrows ==
  ASSUME Inv, NEW p \in Procs, Step(p)
  PROVE  \/ Left' \subseteq Left /\ faults' \in {faults, faults + 1}
         \/ /\ faults' = faults + 1 /\ cur[p] \in Names
            /\ Left' \subseteq Left \cup {cur[p]}
         \/ /\ Reject(p) /\ retain[p] /\ faults' = faults /\ cur[p] \in Names
            /\ Left' \subseteq In("failed") \cup {cur[p]}
<1> USE DEF Inv, TypeOK
<1>1. ProcInv(p)
  OBVIOUS
<1>2. \A q \in Procs : q # p => cur'[q] = cur[q]
  BY OthersStayIdle
<1>3. ASSUME cur'[p] = cur[p], \A n \in Names : state'[n] = "failed" => state[n] = "failed"
      PROVE  Left' \subseteq Left
  BY <1>2, <1>3 DEF Left, In
<1>4. ASSUME cur[p] \in Names => state'[cur[p]] # "failed",
             \A n \in Names : state'[n] = "failed" => state[n] = "failed"
      PROVE  Left' \subseteq Left
  BY <1>2, <1>4 DEF Left, In
<1>5. CASE faults' = faults + 1 /\ Finish(p)
           /\ (RecordRaises(p) \/ Crash(p) \/ CopyRaises(p) \/ RelinkRaises(p))
  <2>1. \A n \in Names : n # cur[p] /\ state'[n] = "failed" => state[n] = "failed"
    BY <1>5, NextToGo DEF RecordRaises, Crash, CopyRaises, RelinkRaises, CutShort, disk
  <2>2. CASE cur[p] \in Names
    BY <1>2, <1>5, <2>1, <2>2 DEF Left, In
  <2>3. CASE cur[p] = NoSnap
    <3>1. \A n \in Names : n # cur[p]
      BY <2>3 DEF Names, NoSnap
    <3> QED
      BY <1>2, <1>5, <2>1, <3>1 DEF Left, In
  <2> QED
    BY <2>2, <2>3
<1>6. CASE Reject(p) /\ retain[p]
  <2>1. cur[p] \in Names
    BY <1>1, <1>6 DEF Reject, ProcInv, StateAt
  <2> QED
    BY <1>6, <2>1 DEF Reject, Left, In
<1>7. CASE Reject(p) /\ ~ retain[p]
  BY <1>1, <1>2, <1>7 DEF Reject, ProcInv, StateAt, Left, In
<1>8. CASE \/ BeginCreate(p) \/ BeginMaintain(p) \/ BeginPrune(p) \/ BeginRead(p)
           \/ PublishPending(p)
           \/ ValidationPasses(p) \/ ValidationFails(p) \/ Accept(p) \/ Diagnose(p)
           \/ Sync(p) \/ PointLatest(p) \/ Relink(p) \/ Rotate(p) \/ Remove(p)
           \/ RemoveRaises(p) \/ Rotated(p)
  BY <1>3, <1>8 DEF BeginCreate, BeginMaintain, BeginPrune, BeginRead, PublishPending,
     ValidationPasses, ValidationFails, Accept, Diagnose, Sync, PointLatest, Relink,
     Rotate, Remove, RemoveRaises, Rotated, CutShort, Fault, disk
<1>9. CASE Prepare(p)
  <2>1. cur[p] \notin Names
    BY <1>1, <1>9 DEF Prepare, ProcInv, Names, NoSnap
  <2> QED
    BY <1>4, <1>9, <2>1 DEF Prepare
<1>10. CASE \/ PreflightRaises(p) \/ Return(p) \/ EndRead(p) \/ Discard(p)
            \/ CopyRaises(p) /\ UNCHANGED faults
  <2>1. cur[p] \in Names => state'[cur[p]] # "failed"
    <3>1. CASE PreflightRaises(p)
      BY <1>1, <3>1 DEF PreflightRaises, ProcInv, Names, NoSnap
    <3>2. CASE Return(p)
      BY <1>1, <3>2 DEF Return, ProcInv, Names, NoSnap, disk
    <3>3. CASE Discard(p)
      BY <3>3 DEF Discard
    <3>4. CASE CopyRaises(p)
      BY <1>1, <3>4 DEF CopyRaises, ProcInv, StateAt
    <3>5. CASE EndRead(p)
      BY <1>1, <3>5 DEF EndRead, ProcInv, Names, NoSnap
    <3> QED
      BY <1>10, <3>1, <3>2, <3>3, <3>4, <3>5
  <2>2. \A n \in Names : state'[n] = "failed" => state[n] = "failed"
    BY <1>10 DEF PreflightRaises, Return, EndRead, Discard, CopyRaises, disk
  <2> QED
    BY <1>4, <1>10, <2>1, <2>2 DEF PreflightRaises, Return, EndRead, Discard
<1>11. RecordRaises(p) \/ Crash(p) \/ RelinkRaises(p) => faults' = faults + 1 /\ Finish(p)
  BY DEF RecordRaises, Crash, RelinkRaises, Fault
<1>12. CopyRaises(p) => Finish(p) /\ (faults' = faults + 1 \/ UNCHANGED faults)
  BY DEF CopyRaises, Fault
<1>13. CASE RecordRaises(p) \/ Crash(p) \/ RelinkRaises(p)
  BY <1>5, <1>11, <1>13
<1>14. CASE CopyRaises(p)
  BY <1>5, <1>10, <1>12, <1>14
<1>15. CASE Reject(p)
  BY <1>6, <1>7, <1>15
<1>16. CASE PreflightRaises(p) \/ Return(p) \/ EndRead(p) \/ Discard(p)
  BY <1>10, <1>16
<1> QED
  BY <1>8, <1>9, <1>13, <1>14, <1>15, <1>16 DEF Step

LEMMA NextKeepsCapInv == Inv /\ CapInv /\ [Next]_vars => CapInv'
<1> SUFFICES ASSUME Inv, CapInv, [Next]_vars PROVE CapInv'
  OBVIOUS
<1> DEFINE Early == {"copy", "validate", "accept", "reject"}
           Count == Cardinality(In("failed"))
<1>1. In("failed") \in SUBSET Names /\ Left \subseteq In("failed") /\ faults \in Nat
      /\ MaxFailed \in Nat /\ Count \in Nat
  BY NamesAreFinite, RepositoryAssumption DEF Inv, TypeOK, In, Left
<1>2. ASSUME NEW p \in Procs, Step(p) PROVE CapInv'
  <2>1. Cardinality(Left') <= MaxFailed + faults'
    <3>1. CASE Left' \subseteq Left /\ faults' \in {faults, faults + 1}
      <4>1. Cardinality(Left') <= Cardinality(Left)
        BY <3>1, <1>1, FewerIsLess
      <4>2. Cardinality(Left') \in Nat /\ Cardinality(Left) \in Nat
        BY <3>1, <1>1, NamesAreFinite
      <4> QED
        BY <1>1, <3>1, <4>1, <4>2 DEF CapInv
    <3>2. CASE /\ faults' = faults + 1 /\ cur[p] \in Names
               /\ Left' \subseteq Left \cup {cur[p]}
      <4>1. /\ Cardinality(Left') \in Nat /\ Cardinality(Left) \in Nat
            /\ Cardinality(Left') <= Cardinality(Left) + 1
        BY <1>1, <3>2, OneMore, NamesAreFinite
      <4> QED
        BY <1>1, <3>2, <4>1 DEF CapInv
    <3>3. CASE /\ Reject(p) /\ retain[p] /\ faults' = faults /\ cur[p] \in Names
               /\ Left' \subseteq In("failed") \cup {cur[p]}
      <4>1. Cardinality(Left') \in Nat /\ Cardinality(Left') <= Count + 1
        BY <1>1, <3>3, OneMore, NamesAreFinite
      <4>2. Count < MaxFailed
        BY <3>3 DEF CapInv, Reject
      <4> QED
        BY <1>1, <3>3, <4>1, <4>2
    <3> QED
      BY <1>2, <3>1, <3>2, <3>3, HowLeftGrows
  <2>2. ASSUME NEW q \in Procs, retain'[q], pc'[q] \in Early
        PROVE  Count' < MaxFailed
    <3>1. q = p
      BY <1>2, <2>2, OthersStayIdle
    <3>2. CASE Prepare(p)
      <4>1. retain'[p] = (Count < MaxFailed)
        BY <3>2 DEF Prepare, Inv, TypeOK
      <4>2. In("failed")' = In("failed")
        BY <3>2 DEF Prepare, Inv, TypeOK, In
      <4> QED
        BY <2>2, <3>1, <4>1, <4>2
    <3>3. CASE ~ Prepare(p)
      <4>1. PublishPending(p) \/ ValidationPasses(p) \/ ValidationFails(p)
        <5> USE DEF Inv, TypeOK, Goto
        <5>1. ~ Finish(p)
          BY <2>2, <3>1 DEF Finish
        <5>2. ~ RetryOrRaise(p)
          BY <2>2, <3>1, <5>1 DEF RetryOrRaise
        <5>3. ~ (BeginCreate(p) \/ Accept(p) \/ Diagnose(p) \/ Sync(p) \/ PointLatest(p)
                 \/ BeginMaintain(p) \/ Relink(p) \/ BeginPrune(p) \/ BeginRead(p) \/ Rotate(p)
                 \/ Remove(p) \/ RemoveRaises(p) \/ Rotated(p))
          BY <2>2, <3>1
          DEF BeginCreate, Accept, Diagnose, Sync, PointLatest, BeginMaintain, Relink,
              BeginPrune, BeginRead, Rotate, Remove, RemoveRaises, Rotated
        <5>4. ~ Reject(p)
          BY <2>2, <3>1, <5>2 DEF Reject
        <5> QED
          BY <1>2, <3>3, <5>1, <5>2, <5>3, <5>4
          DEF Step, PreflightRaises, CopyRaises, Discard, RecordRaises, RelinkRaises,
              EndRead, Return, Crash
      <4>2. retain[p] /\ pc[p] \in Early /\ \A n \in Names : state'[n] = "failed" <=> state[n] = "failed"
        BY <2>2, <3>1, <4>1
        DEF PublishPending, ValidationPasses, ValidationFails, disk, Inv, TypeOK, ProcInv,
            StateAt
      <4>3. In("failed")' = In("failed")
        BY <4>2 DEF In
      <4> QED
        BY <3>1, <4>2, <4>3 DEF CapInv
    <3> QED
      BY <3>2, <3>3
  <2> QED
    BY <2>1, <2>2 DEF CapInv
<1>3. ASSUME NEW n \in Names, Damage(n) PROVE CapInv'
  <2>1. In("failed")' = In("failed") /\ Left' = Left
    BY <1>3 DEF Damage, Inv, TypeOK, In, Left, locals
  <2>2. Cardinality(Left) \in Nat
    BY <1>1, NamesAreFinite
  <2> QED
    BY <1>1, <1>3, <2>1, <2>2 DEF Damage, Fault, CapInv, locals
<1>4. CASE UNCHANGED vars
  BY <1>4 DEF vars, disk, locals, CapInv, Left, In
<1> QED
  BY <1>2, <1>3, <1>4 DEF Next

\* At rest the repository holds at most max_failed_snapshots failed samples, and one more
\* for each run that was cut short.
THEOREM FailedSamplesAreBounded == Spec => []FailedBounded
<1>1. Init => CapInv
  <2> SUFFICES ASSUME Init PROVE CapInv
    OBVIOUS
  <2>1. In("failed") = {} /\ Left = {}
    BY DEF Init, In, Left
  <2> QED
    BY <2>1, FS_EmptySet, RepositoryAssumption DEF Init, CapInv
<1>2. Inv /\ CapInv => FailedBounded
  <2> SUFFICES ASSUME Inv, CapInv, lock = Nobody
               PROVE  Cardinality(In("failed")) <= MaxFailed + faults
    BY DEF FailedBounded
  <2>1. \A p \in Procs : cur[p] = NoSnap
    BY OnlyOneWorks DEF Inv, ProcInv
  <2>2. Left = In("failed")
    BY <2>1 DEF Left, In, Names, NoSnap
  <2> QED
    BY <2>2 DEF CapInv
<1> QED
  BY InvHolds, <1>1, <1>2, NextKeepsCapInv, PTL DEF Spec

\* A command that reads the repository sees one state of it, for every number of
\* processes (repository_lock around status, verify, rehearse and restore-plan).
THEOREM ReadersSeeOne == Spec => ReadersSeeOneState
<1> DEFINE OneState ==
      (\E p \in Procs : pc[p] = "reading" /\ pc'[p] = "reading") => UNCHANGED disk
<1>1. Inv /\ [Next]_vars => [OneState]_vars
  <2> SUFFICES ASSUME Inv, Next, NEW p \in Procs, pc[p] = "reading", pc'[p] = "reading"
               PROVE  UNCHANGED disk
    OBVIOUS
  <2>1. lock = p /\ lock # Nobody
    BY RepositoryAssumption DEF Inv, ProcInv
  <2>2. ASSUME NEW q \in Procs, Step(q) PROVE UNCHANGED disk
    <3>1. CASE q = p
      <4>1. ~ Finish(p)
        BY DEF Finish, Goto, Inv, TypeOK
      <4> QED
        BY <2>1, <2>2, <3>1, <4>1
        DEF Step, BeginCreate, Prepare, PreflightRaises, PublishPending, CopyRaises,
            ValidationPasses, ValidationFails, Accept, Reject, Diagnose, Discard,
            RecordRaises, Sync, PointLatest, BeginMaintain, Relink, RelinkRaises,
            BeginPrune, Rotate, Remove, RemoveRaises, Rotated, BeginRead, EndRead,
            Return, Crash, Acquire
    <3>2. CASE q # p
      <4>1. pc[q] = "idle"
        BY <3>2, OnlyOneWorks
      <4> QED
        BY <2>1, <2>2, <4>1
        DEF Step, BeginCreate, Prepare, PreflightRaises, PublishPending, CopyRaises,
            ValidationPasses, ValidationFails, Accept, Reject, Diagnose, Discard,
            RecordRaises, Sync, PointLatest, BeginMaintain, Relink, RelinkRaises,
            BeginPrune, Rotate, Remove, RemoveRaises, Rotated, BeginRead, EndRead,
            Return, Crash, Acquire
    <3> QED BY <3>1, <3>2
  <2>3. ASSUME NEW n \in Names, Damage(n) PROVE FALSE
    BY <2>1, <2>3 DEF Damage
  <2> QED BY <2>2, <2>3 DEF Next
<1>2. Spec => [][OneState]_vars
  BY <1>1, InvHolds, PTL DEF Spec
<1> QED BY <1>2 DEF ReadersSeeOneState

------------------------------------------------------------------------------
(***************************************************************************)
(* The order of the snapshots.  No snapshot refers to a younger one, and   *)
(* the run that works made the youngest.                                   *)
(***************************************************************************)
Given == Names \ In("none")

HistoryInv ==
  /\ \A n \in Given : made[n] <= Cardinality(Given)
  /\ \A m, n \in Given : m # n => made[m] # made[n]
  /\ \A n \in Given : prev[n] # NoSnap => prev[n] \in Given /\ made[prev[n]] < made[n]
  /\ \A p \in Procs : cur[p] # NoSnap =>
       cur[p] \in Given /\ \A n \in Given : made[n] <= made[cur[p]]

\* While the names follow the clock no snapshot skips an older one that is verified.
NoneSkipped ==
  NamesFollowClock =>
    \A n \in Complete, m \in Given :
      made[n] < made[m] => prev[m] # NoSnap /\ made[n] <= made[prev[m]]

\* What rotation still removes has Keep snapshots that stay and are younger, or is on
\* no chain with the head, and they are younger if the names tell.
Succeeded(n, rest) ==
  \E K \in SUBSET rest :
    /\ Cardinality(K) >= Keep
    /\ \/ \A k \in K : made[k] > made[n]
       \/ /\ \E h \in rest : h \notin Chain(Complete, n) /\ n \notin Chain(Complete, h)
          /\ NamesFollowClock => \A k \in K : made[k] > made[n]

DoomedInv == \A p \in Procs : \A n \in doomed[p] : Succeeded(n, Complete \ doomed[p])

OrderInv == HistoryInv /\ NoneSkipped /\ DoomedInv

Staying == {n \in Complete : \A p \in Procs : n \notin doomed[p]}
OneHead(S) == \A n \in S : n = Head(S) \/ \E m \in S : prev[m] = n
Fresh(p) == pc[p] \in {"sync", "latest"} \/ (pc[p] = "rotate" /\ cur[p] # NoSnap)

\* The snapshot in the making follows the head; once accepted it is the head, and the
\* latest link names it, unless a fault came between.
HeadPlace(p) ==
  /\ pc[p] \in {"copy", "validate", "accept"} => prev[cur[p]] = Head(Complete)
  /\ pc[p] \in {"sync", "latest"} /\ faults = 0 => cur[p] = Head(Complete)
  /\ pc[p] = "rotate" /\ cur[p] # NoSnap =>
       \/ latest = cur[p] /\ (faults = 0 => cur[p] = Head(Complete))
       \/ faults >= 1 /\ (faults = 1 => cur[p] = Head(Complete))

BoundInv ==
  /\ Cardinality(Complete) <= Keep + faults + 1
  /\ (\A p \in Procs : ~ Fresh(p)) => Cardinality(Staying) <= Keep + faults
  /\ faults = 0 => OneHead(Staying)
  /\ \A p \in Procs : HeadPlace(p)

\* Predecessors are older, and no two snapshots are of the same age.
Aged(S) ==
  /\ \A m, n \in S : m # n => made[m] # made[n]
  /\ \A n \in S : prev[n] \in S => made[prev[n]] < made[n]

\* A chain has its first snapshot and, with each, its predecessor in S ...
LEMMA ChainCloses ==
  ASSUME NEW S \in SUBSET Names, NEW n \in S
  PROVE  /\ Chain(S, n) \subseteq S /\ n \in Chain(S, n)
         /\ \A k \in Chain(S, n) : prev[k] \in S => prev[k] \in Chain(S, n)
BY DEF Chain

\* ... and nothing that a set closed in this way has not.
LEMMA ChainIsLeast ==
  ASSUME NEW S \in SUBSET Names, NEW n, NEW T \in SUBSET S, n \in T,
         \A k \in T : prev[k] \in S => prev[k] \in T
  PROVE  Chain(S, n) \subseteq T
BY DEF Chain

\* The chain of what is on a chain is part of it.
LEMMA ChainsNest ==
  ASSUME NEW S \in SUBSET Names, NEW n \in S, NEW m \in Chain(S, n)
  PROVE  Chain(S, m) \subseteq Chain(S, n)
BY ChainCloses, ChainIsLeast

\* What is on a chain behind its first is on the chain of the predecessor.
LEMMA ChainGoesOn ==
  ASSUME NEW S \in SUBSET Names, NEW n \in S, NEW m \in Chain(S, n), m # n
  PROVE  prev[n] \in S /\ m \in Chain(S, prev[n])
<1> DEFINE T == {n} \cup {k \in S : prev[n] \in S /\ k \in Chain(S, prev[n])}
<1>1. ASSUME NEW k \in T, prev[k] \in S PROVE prev[k] \in T
  <2>1. CASE k = n
    BY <1>1, <2>1, ChainCloses
  <2>2. CASE k # n
    <3>1. prev[n] \in S /\ k \in Chain(S, prev[n])
      BY <1>1, <2>2
    <3>2. prev[k] \in Chain(S, prev[n])
      BY <1>1, <3>1, ChainCloses
    <3> QED BY <1>1, <3>1, <3>2
  <2> QED BY <2>1, <2>2
<1>2. T \in SUBSET S /\ n \in T
  OBVIOUS
<1>3. Chain(S, n) \subseteq T
  <2> HIDE DEF T
  <2> QED BY <1>1, <1>2, ChainIsLeast
<1> QED BY <1>3

\* Of two snapshots on one chain one is behind the other.
LEMMA ChainIsALine ==
  ASSUME NEW S \in SUBSET Names, NEW h \in S,
         NEW x \in Chain(S, h), NEW y \in Chain(S, h)
  PROVE  x \in Chain(S, y) \/ y \in Chain(S, x)
<1> DEFINE T == {z \in Chain(S, h) : y \in Chain(S, z) \/ z \in Chain(S, y)}
<1>1. ASSUME NEW z \in T, prev[z] \in S PROVE prev[z] \in T
  <2>1. z \in Chain(S, h) /\ z \in S /\ y \in S
    BY <1>1, ChainCloses
  <2>2. prev[z] \in Chain(S, h)
    BY <1>1, <2>1, ChainCloses
  <2>3. CASE z \in Chain(S, y)
    <3>1. prev[z] \in Chain(S, y)
      BY <1>1, <2>1, <2>3, ChainCloses
    <3> QED BY <2>2, <3>1
  <2>4. CASE y \in Chain(S, z) /\ y # z
    <3>1. y \in Chain(S, prev[z])
      BY <2>1, <2>4, ChainGoesOn
    <3> QED BY <2>2, <3>1
  <2>5. CASE y = z
    <3>1. z \in Chain(S, y)
      BY <2>1, <2>5, ChainCloses
    <3> QED BY <2>3, <3>1
  <2> QED BY <1>1, <2>3, <2>4, <2>5
<1>2. T \in SUBSET S /\ h \in T
  BY ChainCloses
<1>3. Chain(S, h) \subseteq T
  <2> HIDE DEF T
  <2> QED BY <1>1, <1>2, ChainIsLeast
<1> QED BY <1>3

\* A chain in part of S is in the chain in S.
LEMMA ChainsGrow ==
  ASSUME NEW S \in SUBSET Names, NEW R \in SUBSET S, NEW n \in R
  PROVE  Chain(R, n) \subseteq Chain(S, n)
<1> DEFINE T == Chain(S, n) \cap R
<1>1. ASSUME NEW k \in T, prev[k] \in R PROVE prev[k] \in T
  BY <1>1, ChainCloses
<1>2. T \in SUBSET R /\ n \in T
  BY ChainCloses
<1>3. Chain(R, n) \subseteq T
  <2> HIDE DEF T
  <2>1. R \in SUBSET Names
    OBVIOUS
  <2> QED BY <1>1, <1>2, <2>1, ChainIsLeast
<1> QED BY <1>3

\* A chain goes back in time.
LEMMA ChainIsOlder ==
  ASSUME TypeOK, NEW S \in SUBSET Names, Aged(S), NEW n \in S, NEW m \in Chain(S, n)
  PROVE  made[m] <= made[n] /\ (m # n => made[m] < made[n])
<1> DEFINE T == {k \in S : made[k] <= made[n]}
<1>1. ASSUME NEW k \in T, prev[k] \in S PROVE prev[k] \in T
  <2>1. made[prev[k]] < made[k] /\ made[k] <= made[n]
    BY <1>1 DEF Aged
  <2>2. made[prev[k]] \in Nat /\ made[k] \in Nat /\ made[n] \in Nat
    BY <1>1 DEF TypeOK
  <2>3. made[prev[k]] <= made[n]
    BY ONLY <2>1, <2>2
  <2> QED BY <1>1, <2>3
<1>2. T \in SUBSET S /\ n \in T
  BY DEF TypeOK
<1>3. Chain(S, n) \subseteq T
  <2> HIDE DEF T
  <2> QED BY <1>1, <1>2, ChainIsLeast
<1>4. m \in S /\ made[m] <= made[n]
  BY <1>3
<1>5. m # n => made[m] # made[n]
  BY <1>4 DEF Aged
<1>6. made[m] \in Nat /\ made[n] \in Nat
  BY <1>4 DEF TypeOK
<1> QED BY <1>4, <1>5, <1>6

\* Of finitely many snapshots one is the youngest.
LEMMA YoungestExists ==
  ASSUME TypeOK, NEW S \in SUBSET Names, S # {}
  PROVE  \E n \in S : \A m \in S : made[m] <= made[n]
<1> DEFINE Above == [n \in S |-> {m \in S : made[m] > made[n]}]
<1>1. Above \in [S -> SUBSET S] /\ \A n, m \in S : m \in Above[n] <=> made[m] > made[n]
  OBVIOUS
<1>2. IsFiniteSet(S) /\ \A m \in S : made[m] \in Nat
  BY NamesAreFinite DEF TypeOK
<1> HIDE DEF Above
<1>3. PICK n \in S : \A m \in S : ~ (Above[m] \subseteq Above[n] /\ Above[m] # Above[n])
  BY <1>1, <1>2, MinimalExists
<1>4. ASSUME NEW m \in S, made[m] > made[n] PROVE FALSE
  <2>1. m \in Above[n] /\ m \notin Above[m]
    BY <1>1, <1>2, <1>4
  <2>2. ASSUME NEW x \in S, x \in Above[m] PROVE x \in Above[n]
    <3>1. made[x] > made[m] /\ made[x] \in Nat /\ made[m] \in Nat /\ made[n] \in Nat
      BY <1>1, <1>2, <2>2
    <3>2. made[x] > made[n]
      BY ONLY <3>1, <1>4
    <3> QED BY <1>1, <3>2
  <2>3. Above[m] \subseteq S
    BY <1>1
  <2> QED BY <1>3, <2>1, <2>2, <2>3
<1> QED BY <1>2, <1>4

\* With predecessors older than what refers to them, the head is referred to by none.
LEMMA HeadIsUnreferred ==
  ASSUME TypeOK, NEW S \in SUBSET Names, S # {}, Aged(S)
  PROVE  /\ Head(S) \in S /\ \A m \in S : prev[m] # Head(S)
         /\ \A n \in S : (\A m \in S : prev[m] # n) => n <= Head(S)
<1> DEFINE heads == {n \in S : \A m \in S : prev[m] # n}
<1>1. PICK y \in S : \A m \in S : made[m] <= made[y]
  BY YoungestExists
<1>2. ASSUME NEW m \in S, prev[m] = y PROVE FALSE
  <2>1. made[y] < made[m] /\ made[m] <= made[y]
    BY <1>1, <1>2 DEF Aged
  <2>2. made[y] \in Nat /\ made[m] \in Nat
    BY DEF TypeOK
  <2> QED BY <2>1, <2>2
<1>3. heads \in SUBSET Names /\ y \in heads
  BY <1>2
<1>4. Head(S) = Largest(heads)
  BY <1>3 DEF Head
<1>5. \E n \in heads : \A m \in heads : m <= n
  <2> HIDE DEF heads
  <2> QED BY <1>3, LargestIsLast
<1>6. Largest(heads) \in heads /\ \A m \in heads : m <= Largest(heads)
  <2> HIDE DEF heads
  <2> QED BY <1>5 DEF Largest
<1> QED BY <1>4, <1>6

\* Where the names follow the clock the head is the youngest.
LEMMA HeadIsYoungestByName ==
  ASSUME TypeOK, NEW S \in SUBSET Given, S # {}, Aged(S), NamesFollowClock
  PROVE  \A n \in S : made[n] <= made[Head(S)]
<1>1. S \in SUBSET Names
  BY DEF Given
<1>2. PICK y \in S : \A m \in S : made[m] <= made[y]
  BY <1>1, YoungestExists
<1>3. ASSUME NEW m \in S, prev[m] = y PROVE FALSE
  <2>1. made[y] < made[m] /\ made[m] <= made[y]
    BY <1>2, <1>3 DEF Aged
  <2>2. made[y] \in Nat /\ made[m] \in Nat
    BY <1>1 DEF TypeOK
  <2> QED BY <2>1, <2>2
<1>4. Head(S) \in S /\ y <= Head(S)
  BY <1>1, <1>3, HeadIsUnreferred
<1>5. y \in Int /\ Head(S) \in Int
  <2>1. Names \subseteq Int
    BY RepositoryAssumption DEF Names
  <2> QED BY <1>1, <1>4, <2>1
<1>6. y = Head(S)
  <2>1. y < Head(S) => made[y] < made[Head(S)]
    BY <1>4 DEF NamesFollowClock, Given
  <2>2. made[Head(S)] <= made[y] /\ made[y] \in Nat /\ made[Head(S)] \in Nat
    BY <1>1, <1>2, <1>4 DEF TypeOK
  <2>3. ~ (y < Head(S))
    BY <2>1, <2>2
  <2> QED BY <1>4, <1>5, <2>3
<1> QED BY <1>2, <1>6

------------------------------------------------------------------------------
(***************************************************************************)
(* Before is a strict total order of the snapshots, so Rank counts places. *)
(***************************************************************************)
Linked(S) == Chain(S, Head(S))

\* The head's chain has the head and stays among the snapshots.
LEMMA LinkedFacts ==
  ASSUME NEW S \in SUBSET Names, S # {}
  PROVE  Head(S) \in Linked(S) /\ Linked(S) \subseteq S
BY HeadIsMember, ChainCloses DEF Linked

\* The two cases of Before: on the chain, and off it.
LEMMA BeforeAll ==
  ASSUME NEW S \in SUBSET Names, NEW m \in S, NEW n \in S
  PROVE  /\ n \in Linked(S) =>
              (Before(S, m, n) <=> m \in Linked(S) /\ m # n /\ n \in Chain(S, m))
         /\ n \notin Linked(S) => (Before(S, m, n) <=> m \in Linked(S) \/ m > n)
BY DEF Before, Linked

\* No snapshot comes before itself, nor two before each other ...
LEMMA BeforeIsStrict ==
  ASSUME TypeOK, NEW S \in SUBSET Names, Aged(S), NEW m \in S, NEW n \in S
  PROVE  ~ Before(S, n, n) /\ ~ (Before(S, m, n) /\ Before(S, n, m))
<1>0. Names \subseteq Int
  BY RepositoryAssumption DEF Names
<1>1. m \in Int /\ n \in Int
  BY <1>0
<1>2. ~ Before(S, n, n)
  BY <1>1, BeforeAll
<1>3. ASSUME Before(S, m, n), Before(S, n, m) PROVE FALSE
  <2>1. CASE n \in Linked(S) /\ m \in Linked(S)
    <3>1. m # n /\ n \in Chain(S, m) /\ m \in Chain(S, n)
      BY <1>3, <2>1, BeforeAll
    <3>2. made[n] < made[m] /\ made[m] < made[n]
      BY <3>1, ChainIsOlder
    <3>3. made[n] \in Nat /\ made[m] \in Nat
      BY DEF TypeOK
    <3> QED BY ONLY <3>2, <3>3
  <2>2. CASE n \notin Linked(S) /\ m \notin Linked(S)
    <3>1. m > n /\ n > m
      BY <1>3, <2>2, BeforeAll
    <3> QED BY <1>1, <3>1
  <2>3. n \in Linked(S) <=> m \in Linked(S)
    BY <1>3, BeforeAll
  <2> QED BY <2>1, <2>2, <2>3
<1> QED BY <1>2, <1>3

\* ... what comes before comes before all that follows ...
LEMMA BeforeIsTransitive ==
  ASSUME TypeOK, NEW S \in SUBSET Names, Aged(S),
         NEW x \in S, NEW y \in S, NEW z \in S, Before(S, x, y), Before(S, y, z)
  PROVE  Before(S, x, z)
<1>1. CASE z \in Linked(S)
  <2>1. y \in Linked(S) /\ z \in Chain(S, y)
    BY <1>1, BeforeAll
  <2>2. x \in Linked(S) /\ y \in Chain(S, x)
    BY <2>1, BeforeAll
  <2>3. z \in Chain(S, x)
    BY <2>1, <2>2, ChainsNest
  <2>4. x # z
    BY BeforeIsStrict
  <2> QED BY <1>1, <2>2, <2>3, <2>4, BeforeAll
<1>2. CASE z \notin Linked(S) /\ y \in Linked(S)
  <2>1. x \in Linked(S)
    BY <1>2, BeforeAll
  <2> QED BY <1>2, <2>1, BeforeAll
<1>3. CASE z \notin Linked(S) /\ y \notin Linked(S)
  <2>1. y > z /\ (x \in Linked(S) \/ x > y)
    BY <1>3, BeforeAll
  <2>2. x \in Names /\ y \in Names /\ z \in Names /\ Names \subseteq Int
    BY RepositoryAssumption DEF Names
  <2>3. x > y => x > z
    BY <2>1, <2>2
  <2> QED BY <1>3, <2>1, <2>3, BeforeAll
<1> QED BY <1>1, <1>2, <1>3

\* ... and of two snapshots one comes before the other.
LEMMA BeforeIsTotal ==
  ASSUME TypeOK, NEW S \in SUBSET Names, NEW x \in S, NEW y \in S, x # y
  PROVE  Before(S, x, y) \/ Before(S, y, x)
<1>1. CASE x \in Linked(S) /\ y \in Linked(S)
  <2>1. Head(S) \in S
    BY HeadIsMember
  <2>2. x \in Chain(S, y) \/ y \in Chain(S, x)
    BY <1>1, <2>1, ChainIsALine DEF Linked
  <2> QED BY <1>1, <2>2, BeforeAll
<1>2. CASE x \in Linked(S) /\ y \notin Linked(S)
  BY <1>2, BeforeAll
<1>3. CASE x \notin Linked(S) /\ y \in Linked(S)
  BY <1>3, BeforeAll
<1>4. CASE x \notin Linked(S) /\ y \notin Linked(S)
  <2>1. x \in Names /\ y \in Names /\ Names \subseteq Int
    BY RepositoryAssumption DEF Names
  <2>2. x > y \/ y > x
    BY <2>1
  <2> QED BY <1>4, <2>2, BeforeAll
<1> QED BY <1>1, <1>2, <1>3, <1>4

\* What comes before n, as a function: its cardinality is the rank.
Ahead(S) == [n \in S |-> {m \in S : Before(S, m, n)}]

\* The rank of a snapshot is the number of those ahead of it.
LEMMA AheadFacts ==
  ASSUME NEW S \in SUBSET Names
  PROVE  /\ Ahead(S) \in [S -> SUBSET S]
         /\ \A n \in S : Rank(S, n) = Cardinality(Ahead(S)[n])
         /\ \A n, m \in S : m \in Ahead(S)[n] <=> Before(S, m, n)
         /\ \A n \in S : Rank(S, n) \in Nat
<1>1. Ahead(S) \in [S -> SUBSET S]
      /\ (\A n \in S : Rank(S, n) = Cardinality(Ahead(S)[n]))
      /\ \A n, m \in S : m \in Ahead(S)[n] <=> Before(S, m, n)
  BY DEF Ahead, Rank
<1>2. ASSUME NEW n \in S PROVE Rank(S, n) \in Nat
  <2>1. Ahead(S)[n] \in SUBSET Names
    BY <1>1
  <2> QED BY <1>1, <2>1, NamesAreFinite
<1> QED BY <1>1, <1>2

\* What is not among the first Keep has Keep before it that are.
LEMMA KeepAhead ==
  ASSUME TypeOK, NEW S \in SUBSET Names, Aged(S), NEW n \in S, Rank(S, n) >= Keep
  PROVE  \E K \in SUBSET S :
           /\ Cardinality(K) >= Keep
           /\ \A k \in K : Before(S, k, n) /\ Rank(S, k) < Keep
<1> DEFINE A == Ahead(S)
           D == {m \in S : Rank(S, m) >= Keep /\ (m = n \/ Before(S, m, n))}
           F == [m \in D |-> A[m] \cap D]
<1>1. A \in [S -> SUBSET S] /\ (\A m, k \in S : k \in A[m] <=> Before(S, k, m))
      /\ \A m \in S : Rank(S, m) = Cardinality(A[m]) /\ Rank(S, m) \in Nat
  BY AheadFacts
<1>2. D \in SUBSET Names /\ n \in D /\ D \subseteq S
  OBVIOUS
<1>3. F \in [D -> SUBSET D] /\ \A m, k \in D : k \in F[m] <=> Before(S, k, m)
  <2> HIDE DEF A, D
  <2> QED BY <1>1, <1>2
<1>4. PICK d \in D : \A m \in D : ~ (F[m] \subseteq F[d] /\ F[m] # F[d])
  <2> HIDE DEF A, D, F
  <2> QED BY <1>2, <1>3, NamesAreFinite, MinimalExists
<1>5. ASSUME NEW m \in D, Before(S, m, d) PROVE FALSE
  <2> HIDE DEF A, D, F
  <2>1. m \in S /\ d \in S
    BY <1>2
  <2>2. m \in F[d] /\ m \notin F[m]
    BY <1>3, <1>5, <2>1, BeforeIsStrict
  <2>3. ASSUME NEW x \in D, x \in F[m] PROVE x \in F[d]
    <3>1. x \in S /\ Before(S, x, m)
      BY <1>2, <1>3, <2>3
    <3>2. Before(S, x, d)
      BY <1>5, <2>1, <3>1, BeforeIsTransitive
    <3> QED BY <1>3, <3>2
  <2>4. F[m] \subseteq D
    BY <1>3
  <2> QED BY <1>4, <2>2, <2>3, <2>4
<1>6. d \in S /\ Cardinality(A[d]) >= Keep
  BY <1>1, <1>2
<1>7. ASSUME NEW k \in A[d] PROVE Before(S, k, n) /\ Rank(S, k) < Keep
  <2>1. k \in S /\ Before(S, k, d)
    <3> HIDE DEF A, D, F
    <3> QED BY <1>1, <1>6, <1>7
  <2>2. Before(S, k, n)
    BY <2>1, <1>6, BeforeIsTransitive
  <2>3. k \notin D
    BY <1>5, <2>1
  <2>4. ~ (Rank(S, k) >= Keep)
    BY <2>1, <2>2, <2>3
  <2>5. Rank(S, k) \in Nat /\ Keep \in Nat
    BY <1>1, <2>1, RepositoryAssumption
  <2> QED BY <2>2, <2>4, <2>5
<1> HIDE DEF A, D, F
<1>8. A[d] \in SUBSET S
  BY <1>1, <1>6
<1> QED BY <1>6, <1>7, <1>8

\* No more than Keep are among the first Keep.
LEMMA FewKept ==
  ASSUME TypeOK, NEW S \in SUBSET Names, Aged(S)
  PROVE  Cardinality({n \in S : Rank(S, n) < Keep}) <= Keep
<1> DEFINE A == Ahead(S)
           W == {n \in S : Rank(S, n) < Keep}
           F == [m \in W |-> {k \in W : Before(S, m, k)}]
<1>1. A \in [S -> SUBSET S] /\ (\A m, k \in S : k \in A[m] <=> Before(S, k, m))
      /\ \A m \in S : Rank(S, m) = Cardinality(A[m]) /\ Rank(S, m) \in Nat
  BY AheadFacts
<1>2. W \in SUBSET Names /\ W \subseteq S
  OBVIOUS
<1>3. F \in [W -> SUBSET W] /\ \A m, k \in W : k \in F[m] <=> Before(S, m, k)
  <2> HIDE DEF A, W
  <2> QED BY <1>1, <1>2
<1>4. ASSUME W = {} PROVE Cardinality(W) <= Keep
  BY <1>4, FS_EmptySet, RepositoryAssumption
<1>5. ASSUME W # {} PROVE Cardinality(W) <= Keep
  <2>0. IsFiniteSet(W) /\ W # {}
    BY <1>2, <1>5, NamesAreFinite
  <2>1. PICK d \in W : \A m \in W : ~ (F[m] \subseteq F[d] /\ F[m] # F[d])
    <3> HIDE DEF A, W, F
    <3> QED BY <1>3, <2>0, MinimalExists
  <2>2. ASSUME NEW m \in W, Before(S, d, m) PROVE FALSE
    <3> HIDE DEF A, W, F
    <3>1. m \in S /\ d \in S
      BY <1>2
    <3>2. m \in F[d] /\ m \notin F[m]
      BY <1>3, <2>2, <3>1, BeforeIsStrict
    <3>3. ASSUME NEW x \in W, x \in F[m] PROVE x \in F[d]
      <4>1. x \in S /\ Before(S, m, x)
        BY <1>2, <1>3, <3>3
      <4>2. Before(S, d, x)
        BY <2>2, <3>1, <4>1, BeforeIsTransitive
      <4> QED BY <1>3, <4>2
    <3>4. F[m] \subseteq W
      BY <1>3
    <3> QED BY <2>1, <3>2, <3>3, <3>4
  <2>3. W \subseteq A[d] \cup {d}
    <3> HIDE DEF A, W, F
    <3> QED BY <1>1, <1>2, <2>2, BeforeIsTotal
  <2>4. Rank(S, d) < Keep /\ d \in S
    OBVIOUS
  <2> HIDE DEF W, F
  <2>5. A[d] \in SUBSET Names /\ d \in Names
    BY <1>1, <2>4
  <2>6. Cardinality(W) <= Cardinality(A[d]) + 1
    BY <2>3, <2>5, OneMore
  <2>7. Cardinality(A[d]) < Keep /\ Cardinality(A[d]) \in Nat /\ Keep \in Nat
    BY <1>1, <2>4, RepositoryAssumption
  <2>8. Cardinality(W) \in Nat
    BY <1>2, NamesAreFinite
  <2> QED BY ONLY <2>6, <2>7, <2>8
<1>6. Cardinality(W) <= Keep
  <2> HIDE DEF W
  <2> QED BY <1>4, <1>5
<1> QED BY <1>6

\* The head comes first.
LEMMA HeadIsFirst ==
  ASSUME TypeOK, NEW S \in SUBSET Names, S # {}, Aged(S)
  PROVE  /\ Rank(S, Head(S)) = 0
         /\ \A n \in S : n # Head(S) => Head(S) \notin Chain(S, n)
<1> DEFINE h == Head(S)
<1>1. h \in S /\ \A m \in S : prev[m] # h
  BY HeadIsUnreferred
<1>2. ASSUME NEW n \in S, n # h PROVE h \notin Chain(S, n)
  <2> DEFINE T == S \ {h}
  <2>1. T \in SUBSET S /\ n \in T /\ \A k \in T : prev[k] \in S => prev[k] \in T
    BY <1>1, <1>2
  <2>2. Chain(S, n) \subseteq T
    <3> HIDE DEF T
    <3> QED BY <2>1, ChainIsLeast
  <2> QED BY <2>2
<1>3. ASSUME NEW m \in S, Before(S, m, h) PROVE FALSE
  BY <1>1, <1>2, <1>3, LinkedFacts, BeforeAll
<1>4. {m \in S : Before(S, m, h)} = {}
  BY <1>3
<1>5. Rank(S, h) = 0
  BY <1>4, FS_EmptySet DEF Rank
<1> QED BY <1>2, <1>5

------------------------------------------------------------------------------
(***************************************************************************)
(* OrderInv is inductive: what a step does to names, predecessors and the  *)
(* accepted snapshots.                                                     *)
(***************************************************************************)

\* When one snapshot changes, no name is given.
LEMMA GivenStays ==
  ASSUME Inv, NEW n \in Names, NEW what \in States \ {"none"}, state[n] # "none",
         state' = [state EXCEPT ![n] = what]
  PROVE  /\ Given' = Given
         /\ \A m \in Complete' : m \in Complete \/ (m = n /\ what = "verified")
<1>1. \A m \in Names : state'[m] = IF m = n THEN what ELSE state[m]
  BY DEF Inv, TypeOK
<1>2. \A m \in Names : state'[m] = "none" <=> state[m] = "none"
  BY <1>1
<1>3. Given' = Given
  BY <1>2 DEF Given, In
<1>4. \A m \in Complete' : m \in Complete \/ (m = n /\ what = "verified")
  BY <1>1 DEF Complete, In
<1> QED BY <1>3, <1>4

\* A step cut short gives no name, and may leave only its own snapshot accepted.
LEMMA CutShortKeepsNames ==
  ASSUME Inv, NEW p \in Procs, CutShort(p)
  PROVE  /\ Given' = Given
         /\ \A m \in Complete' : m \in Complete \/ (m = cur[p] /\ pc[p] = "accept")
<1>1. ProcInv(p)
  BY DEF Inv
<1>2. CASE UNCHANGED state
  BY <1>2 DEF Given, Complete, In
<1>3. CASE pc[p] = "accept" /\ state' = [state EXCEPT ![cur[p]] = "verified"]
  <2>1. cur[p] \in Names /\ state[cur[p]] # "none"
    BY <1>1, <1>3 DEF ProcInv, StateAt
  <2>2. "verified" \in States \ {"none"}
    BY DEF States
  <2> QED BY <1>3, <2>1, <2>2, GivenStays
<1>4. CASE pc[p] = "reject" /\ state' = [state EXCEPT ![cur[p]] = "failed"]
  <2>1. cur[p] \in Names /\ state[cur[p]] # "none"
    BY <1>1, <1>4 DEF ProcInv, StateAt
  <2>2. "failed" \in States \ {"none"}
    BY DEF States
  <2> QED BY <1>4, <2>1, <2>2, GivenStays
<1>5. CASE /\ pc[p] = "discard"
           /\ \E what \in {"broken", "gone"} : state' = [state EXCEPT ![cur[p]] = what]
  <2>1. cur[p] \in Names /\ state[cur[p]] # "none"
    BY <1>1, <1>5 DEF ProcInv, StateAt
  <2>2. {"broken", "gone"} \subseteq States \ {"none"}
    BY DEF States
  <2> QED BY <1>5, <2>1, <2>2, GivenStays
<1>6. CASE /\ pc[p] = "remove" /\ doomed[p] # {}
           /\ state' = [state EXCEPT ![Smallest(doomed[p])] = "broken"]
  <2>1. Smallest(doomed[p]) \in Names /\ state[Smallest(doomed[p])] # "none"
    BY <1>6, NextToGo DEF Complete, In
  <2>2. "broken" \in States \ {"none"}
    BY DEF States
  <2> QED BY <1>6, <2>1, <2>2, GivenStays
<1> QED BY <1>2, <1>3, <1>4, <1>5, <1>6 DEF CutShort

\* Only Prepare gives a name, sets a predecessor or starts with a snapshot; a name that
\* becomes verified is the one its process works on.
LEMMA OldNames ==
  ASSUME Inv, NEW p \in Procs, Step(p), ~ Prepare(p)
  PROVE  /\ prev' = prev /\ made' = made /\ Given' = Given
         /\ \A q \in Procs : cur'[q] \in {cur[q], NoSnap}
         /\ \A m \in Complete' : m \in Complete \/ m = cur[p]
<1>1. ProcInv(p)
  BY DEF Inv
<1>2. prev' = prev /\ made' = made
  BY DEF Step, BeginCreate, PreflightRaises, PublishPending, CopyRaises, ValidationPasses,
     ValidationFails, Accept, Reject, Diagnose, Discard, RecordRaises, Sync, PointLatest,
     BeginMaintain, Relink, RelinkRaises, BeginPrune, BeginRead, EndRead, Rotate, Remove,
     RemoveRaises, Rotated, Return, Crash, disk
<1>3. cur'[p] \in {cur[p], NoSnap}
  <2>1. CASE Finish(p)
    BY <2>1 DEF Finish, Inv, TypeOK
  <2>2. CASE RetryOrRaise(p)
    BY <2>1, <2>2 DEF RetryOrRaise, Inv, TypeOK
  <2>3. CASE ~ Finish(p) /\ ~ RetryOrRaise(p)
    BY <2>3 DEF Step, BeginCreate, PreflightRaises, PublishPending, CopyRaises,
       ValidationPasses, ValidationFails, Accept, Reject, Diagnose, Discard, RecordRaises,
       Sync, PointLatest, BeginMaintain, Relink, RelinkRaises, BeginPrune, BeginRead,
       EndRead, Rotate, Remove, RemoveRaises, Rotated, Return, Crash
  <2> QED BY <2>1, <2>2, <2>3
<1>4. \A q \in Procs : cur'[q] \in {cur[q], NoSnap}
  BY <1>3, OthersStayIdle
<1>5. Given' = Given /\ \A m \in Complete' : m \in Complete \/ m = cur[p]
  <2>1. CASE UNCHANGED state
    BY <2>1 DEF Given, Complete, In
  <2>2. CASE CutShort(p)
    BY <2>2, CutShortKeepsNames
  <2>3. CASE PublishPending(p) \/ CopyRaises(p) \/ Accept(p) \/ Reject(p) \/ Discard(p)
    <3>1. cur[p] \in Names /\ state[cur[p]] # "none"
      BY <1>1, <2>3
      DEF PublishPending, CopyRaises, Accept, Reject, Discard, ProcInv, StateAt
    <3>2. {"pending", "gone", "verified", "failed"} \subseteq States \ {"none"}
      BY DEF States
    <3>3. \/ UNCHANGED state
          \/ \E what \in {"pending", "gone", "verified", "failed"} :
               state' = [state EXCEPT ![cur[p]] = what]
      BY <2>3 DEF PublishPending, CopyRaises, Accept, Reject, Discard
    <3> QED BY <2>1, <3>1, <3>2, <3>3, GivenStays
  <2>4. CASE Remove(p)
    <3>1. Smallest(doomed[p]) \in Names /\ state[Smallest(doomed[p])] # "none"
      BY <2>4, NextToGo DEF Remove, Complete, In
    <3>2. "gone" \in States \ {"none"}
      BY DEF States
    <3> QED BY <2>4, <3>1, <3>2, GivenStays DEF Remove
  <2> QED
    BY <2>1, <2>2, <2>3, <2>4
    DEF Step, BeginCreate, PreflightRaises, ValidationPasses, ValidationFails, Diagnose,
        RecordRaises, Sync, PointLatest, BeginMaintain, Relink, RelinkRaises, BeginPrune,
        BeginRead, EndRead, Rotate, RemoveRaises, Rotated, Return, Crash, disk
<1> QED BY <1>2, <1>4, <1>5

\* Every accepted snapshot has been given its name.
LEMMA CompleteIsGiven == Complete \subseteq Given /\ Given \subseteq Names
BY DEF Complete, Given, In

\* In any set of given names predecessors are older.
LEMMA GivenIsAged ==
  ASSUME HistoryInv, NEW S \in SUBSET Given
  PROVE  Aged(S)
BY DEF HistoryInv, Aged, Given, Names, NoSnap

\* What Prepare adds: the youngest name, after the head of the chain.
LEMMA PrepareAdds ==
  ASSUME Inv, NEW p \in Procs, Prepare(p)
  PROVE  \E n \in Names \ Given :
           /\ Given' = Given \cup {n} /\ Complete' = Complete
           /\ Cardinality(Given') = Cardinality(Given) + 1 /\ Cardinality(Given) \in Nat
           /\ cur'[p] = n /\ prev'[n] = Head(Complete)
           /\ made'[n] = Cardinality(Given) + 1
           /\ \A m \in Given : made'[m] = made[m] /\ prev'[m] = prev[m]
           /\ \A q \in Procs \ {p} : cur'[q] = NoSnap
<1>1. PICK n \in In("none") :
        /\ state' = [state EXCEPT ![n] = "temp"] /\ prev' = [prev EXCEPT ![n] = Head(Complete)]
        /\ cur' = [cur EXCEPT ![p] = n]
        /\ made' = [made EXCEPT ![n] = Cardinality(Names \ In("none")) + 1]
  BY DEF Prepare
<1>2. n \in Names \ Given
  BY <1>1 DEF Given, In
<1>3. \A m \in Names : state'[m] = IF m = n THEN "temp" ELSE state[m]
  BY <1>1, <1>2 DEF Inv, TypeOK
<1>4. Given' = Given \cup {n}
  BY <1>2, <1>3 DEF Given, In
<1>5. Complete' = Complete
  BY <1>2, <1>3 DEF Given, Complete, In
<1>6. IsFiniteSet(Given) /\ Cardinality(Given) \in Nat
  BY CompleteIsGiven, NamesAreFinite
<1>7. Cardinality(Given') = Cardinality(Given) + 1
  <2>1. Cardinality(Given \cup {n}) = Cardinality(Given) + 1
    BY <1>2, <1>6, FS_AddElement
  <2> QED BY <1>4, <2>1
<1>8. cur'[p] = n /\ prev'[n] = Head(Complete) /\ made'[n] = Cardinality(Given) + 1
  BY <1>1, <1>2 DEF Given, Inv, TypeOK
<1>9. \A m \in Given : made'[m] = made[m] /\ prev'[m] = prev[m]
  BY <1>1, <1>2 DEF Given, Inv, TypeOK
<1>10. ASSUME NEW q \in Procs \ {p} PROVE cur'[q] = NoSnap
  <2>1. pc[p] # "idle"
    BY DEF Prepare
  <2>2. pc[q] = "idle"
    BY <2>1, OnlyOneWorks
  <2>3. cur[q] = NoSnap
    BY <2>2 DEF Inv, ProcInv
  <2> QED BY <1>1, <2>3 DEF Inv, TypeOK
<1> QED BY <1>2, <1>4, <1>5, <1>6, <1>7, <1>8, <1>9, <1>10

\* The new name is the youngest, and its predecessor is older.
LEMMA PrepareKeepsHistory ==
  ASSUME Inv, HistoryInv, NEW p \in Procs, Prepare(p)
  PROVE  HistoryInv'
<1>1. PICK n \in Names \ Given :
        /\ Given' = Given \cup {n} /\ Complete' = Complete
        /\ Cardinality(Given') = Cardinality(Given) + 1 /\ Cardinality(Given) \in Nat
        /\ cur'[p] = n /\ prev'[n] = Head(Complete)
        /\ made'[n] = Cardinality(Given) + 1
        /\ \A m \in Given : made'[m] = made[m] /\ prev'[m] = prev[m]
        /\ \A q \in Procs \ {p} : cur'[q] = NoSnap
  BY PrepareAdds
<1>2. \A m \in Given : made[m] \in Nat /\ made[m] <= Cardinality(Given)
  BY DEF Inv, TypeOK, HistoryInv, Given
<1>3. \A m \in Given : made'[m] < made'[n]
  BY <1>1, <1>2
<1>4. \A m \in Given' : made'[m] <= Cardinality(Given')
  BY <1>1, <1>2
<1>5. ASSUME NEW m \in Given', NEW k \in Given', m # k PROVE made'[m] # made'[k]
  <2>1. CASE m \in Given /\ k \in Given
    BY <1>1, <1>5, <2>1 DEF HistoryInv
  <2>2. CASE m = n
    <3>1. k \in Given
      BY <1>1, <1>5, <2>2
    <3>2. made'[k] < made'[n] /\ made'[k] \in Nat /\ made'[n] \in Nat
      BY <1>1, <1>2, <1>3, <3>1
    <3> QED BY <2>2, <3>2
  <2>3. CASE k = n
    <3>1. m \in Given
      BY <1>1, <1>5, <2>3
    <3>2. made'[m] < made'[n] /\ made'[m] \in Nat /\ made'[n] \in Nat
      BY <1>1, <1>2, <1>3, <3>1
    <3> QED BY <2>3, <3>2
  <2> QED BY <1>1, <2>1, <2>2, <2>3
<1>6. ASSUME NEW m \in Given', prev'[m] # NoSnap
      PROVE  prev'[m] \in Given' /\ made'[prev'[m]] < made'[m]
  <2>1. CASE m = n
    <3>1. prev'[m] \in Complete
      BY <1>1, <1>6, <2>1, HeadIsMember DEF Complete, In
    <3> QED BY <1>1, <1>3, <2>1, <3>1, CompleteIsGiven
  <2>2. CASE m \in Given
    BY <1>1, <1>6, <2>2 DEF HistoryInv
  <2> QED BY <1>1, <2>1, <2>2
<1>7. ASSUME NEW q \in Procs, cur'[q] # NoSnap
      PROVE  cur'[q] \in Given' /\ \A m \in Given' : made'[m] <= made'[cur'[q]]
  <2>1. cur'[q] = n
    BY <1>1, <1>7
  <2>2. \A m \in Given' : made'[m] <= made'[n]
    BY <1>1, <1>2
  <2> QED BY <1>1, <2>1, <2>2
<1> QED BY <1>4, <1>5, <1>6, <1>7 DEF HistoryInv

\* The head it is linked to is the youngest accepted, so that it skips none.
LEMMA PrepareKeepsNoneSkipped ==
  ASSUME Inv, HistoryInv, NoneSkipped, NEW p \in Procs, Prepare(p)
  PROVE  NoneSkipped'
<1>1. PICK n \in Names \ Given :
        /\ Given' = Given \cup {n} /\ Complete' = Complete
        /\ prev'[n] = Head(Complete)
        /\ \A m \in Given : made'[m] = made[m] /\ prev'[m] = prev[m]
  BY PrepareAdds
<1>2. ASSUME NamesFollowClock' PROVE NamesFollowClock
  <2>1. \A m, k \in Given' : m < k => made'[m] < made'[k]
    BY <1>2 DEF NamesFollowClock, Given
  <2> QED BY <1>1, <2>1 DEF NamesFollowClock, Given
<1>3. ASSUME NamesFollowClock, NEW k \in Complete', NEW m \in Given', made'[k] < made'[m]
      PROVE  prev'[m] # NoSnap /\ made'[k] <= made'[prev'[m]]
  <2>1. k \in Complete /\ k \in Given
    BY <1>1, <1>3, CompleteIsGiven
  <2>2. CASE m = n
    <3>1. Aged(Complete) /\ TypeOK
      BY GivenIsAged, CompleteIsGiven DEF Inv
    <3>2. made[k] <= made[Head(Complete)]
      BY <1>3, <2>1, <3>1, CompleteIsGiven, HeadIsYoungestByName
    <3>3. Head(Complete) \in Complete
      BY <2>1, CompleteIsGiven, HeadIsMember
    <3>4. Head(Complete) \in Given /\ Head(Complete) # NoSnap
      <4>1. Head(Complete) \in Given /\ Head(Complete) \in Names
        BY <3>3, CompleteIsGiven
      <4>2. NoSnap \notin Names
        BY DEF Names, NoSnap
      <4> QED BY <4>1, <4>2
    <3> QED BY <1>1, <2>1, <2>2, <3>2, <3>4
  <2>3. CASE m \in Given
    <3>1. prev[m] # NoSnap /\ made[k] <= made[prev[m]]
      BY <1>1, <1>3, <2>1, <2>3 DEF NoneSkipped
    <3>2. prev[m] \in Given
      BY <2>3, <3>1 DEF HistoryInv
    <3> QED BY <1>1, <2>1, <2>3, <3>1, <3>2
  <2> QED BY <1>1, <2>2, <2>3
<1> QED BY <1>2, <1>3 DEF NoneSkipped

\* The other steps accept at most the youngest name.
LEMMA OthersKeepHistory ==
  ASSUME Inv, HistoryInv, NoneSkipped, NEW p \in Procs, Step(p), ~ Prepare(p)
  PROVE  HistoryInv' /\ NoneSkipped'
<1>1. prev' = prev /\ made' = made /\ Given' = Given
      /\ (\A q \in Procs : cur'[q] \in {cur[q], NoSnap})
      /\ \A m \in Complete' : m \in Complete \/ m = cur[p]
  BY OldNames
<1>2. HistoryInv'
  BY <1>1 DEF HistoryInv
<1>3. NamesFollowClock' = NamesFollowClock
  BY <1>1 DEF NamesFollowClock, Given
<1>4. ASSUME NamesFollowClock, NEW k \in Complete', NEW m \in Given, made[k] < made[m]
      PROVE  prev[m] # NoSnap /\ made[k] <= made[prev[m]]
  <2>1. CASE k \in Complete
    BY <1>4, <2>1 DEF NoneSkipped
  <2>2. CASE k = cur[p] /\ k # NoSnap
    <3>1. made[m] <= made[k]
      BY <2>2 DEF HistoryInv
    <3>2. made[m] \in Nat /\ made[k] \in Nat
      BY <2>2 DEF Inv, TypeOK, HistoryInv, Given
    <3> QED BY <1>4, <3>1, <3>2
  <2>3. k # NoSnap
    BY DEF Complete, In, Names, NoSnap
  <2> QED BY <1>1, <2>1, <2>2, <2>3
<1>5. NoneSkipped'
  BY <1>1, <1>3, <1>4 DEF NoneSkipped
<1> QED BY <1>2, <1>5

\* Damage takes a snapshot out, and changes no age or predecessor.
LEMMA DamageKeepsHistory ==
  ASSUME Inv, HistoryInv, NoneSkipped, NEW n \in Names, Damage(n)
  PROVE  HistoryInv' /\ NoneSkipped'
<1>1. state[n] # "none" /\ state' = [state EXCEPT ![n] = "broken"]
      /\ prev' = prev /\ made' = made /\ cur' = cur
  BY DEF Damage, locals
<1>2. "broken" \in States \ {"none"}
  BY DEF States
<1>3. Given' = Given /\ Complete' \subseteq Complete
  BY <1>1, <1>2, GivenStays
<1>4. HistoryInv'
  BY <1>1, <1>3 DEF HistoryInv
<1>5. NamesFollowClock' = NamesFollowClock
  BY <1>1, <1>3 DEF NamesFollowClock, Given
<1>6. NoneSkipped'
  BY <1>1, <1>3, <1>5 DEF NoneSkipped
<1> QED BY <1>4, <1>6

------------------------------------------------------------------------------
(***************************************************************************)
(* What rotation has decided to remove is succeeded by Keep that stay.     *)
(***************************************************************************)

\* What is on no chain with the head is older than all that comes before it, if the
\* names follow the clock.
LEMMA UnlinkedIsOlder ==
  ASSUME Inv, HistoryInv, NoneSkipped, NamesFollowClock, NEW n \in Complete,
         n \notin Linked(Complete), NEW k \in Complete, Before(Complete, k, n)
  PROVE  made[k] > made[n]
<1> DEFINE S == Complete
           T == {x \in Linked(S) : made[x] > made[n]}
<1>1. /\ TypeOK /\ S \in SUBSET Names /\ S \in SUBSET Given /\ Aged(S) /\ S # {}
      /\ \A x \in Given : made[x] \in Nat
  BY CompleteIsGiven, GivenIsAged DEF Inv, TypeOK
<1>2. Head(S) \in Linked(S) /\ Linked(S) \subseteq S
  BY <1>1, LinkedFacts
<1>3. \A x \in Linked(S) : made[x] # made[n]
  BY <1>2 DEF Aged, HistoryInv, Given, Complete, In
<1>4. Head(S) \in T
  <2>1. made[n] <= made[Head(S)]
    BY <1>1, HeadIsYoungestByName
  <2>2. made[n] # made[Head(S)] /\ made[n] \in Nat /\ made[Head(S)] \in Nat
    BY <1>1, <1>2, <1>3
  <2>3. made[Head(S)] > made[n]
    BY ONLY <2>1, <2>2
  <2> QED BY <1>2, <2>3
<1>5. ASSUME NEW x \in T, prev[x] \in S PROVE prev[x] \in T
  <2>1. x \in Given /\ made[n] < made[x] /\ n \in Complete
    BY <1>1, <1>2, <1>5
  <2>2. made[n] <= made[prev[x]]
    BY <2>1 DEF NoneSkipped
  <2>3. prev[x] \in Linked(S)
    BY <1>1, <1>2, <1>5, ChainCloses DEF Linked
  <2>4. made[prev[x]] # made[n] /\ made[prev[x]] \in Nat /\ made[n] \in Nat
    BY <1>1, <1>3, <1>5, <2>3
  <2>5. made[prev[x]] > made[n]
    BY ONLY <2>2, <2>4
  <2> QED BY <2>3, <2>5
<1>6. Linked(S) \subseteq T
  <2>1. T \in SUBSET S
    BY <1>2
  <2>2. Head(S) \in S
    BY <1>2
  <2> HIDE DEF S, T
  <2> QED BY <1>1, <1>4, <1>5, <2>1, <2>2, ChainIsLeast DEF Linked
<1>7. CASE k \in Linked(S)
  BY <1>6, <1>7
<1>8. CASE k \notin Linked(S)
  <2>1. k > n
    BY <1>1, <1>8, BeforeAll
  <2>2. n \in Names \ In("none") /\ k \in Names \ In("none") /\ Names \subseteq Int
    BY CompleteIsGiven, RepositoryAssumption DEF Given, Names
  <2>3. n < k
    BY <2>1, <2>2
  <2>4. made[n] < made[k]
    BY <2>2, <2>3 DEF NamesFollowClock
  <2> QED BY <1>1, <2>2, <2>4 DEF Given
<1> QED BY <1>7, <1>8

\* What rotation decides to remove.
LEMMA RemovableIsSucceeded ==
  ASSUME Inv, HistoryInv, NoneSkipped, NEW final, NEW n \in Removable(final)
  PROVE  Succeeded(n, Complete \ Removable(final))
<1> DEFINE S == Complete
<1>1. /\ TypeOK /\ S \in SUBSET Names /\ Aged(S) /\ S # {} /\ n \in S
      /\ Rank(S, n) >= Keep
  BY CompleteIsGiven, GivenIsAged DEF Inv, Removable
<1>2. PICK K \in SUBSET S :
        Cardinality(K) >= Keep /\ \A k \in K : Before(S, k, n) /\ Rank(S, k) < Keep
  BY <1>1, KeepAhead
<1>3. \A k \in S : Rank(S, k) < Keep => k \in S \ Removable(final)
  <2>1. \A k \in S : Rank(S, k) \in Nat
    BY <1>1, AheadFacts
  <2> QED BY <2>1, RepositoryAssumption DEF Removable
<1>4. K \in SUBSET (S \ Removable(final))
  BY <1>2, <1>3
<1>5. CASE n \in Linked(S)
  <2>1. ASSUME NEW k \in K PROVE made[k] > made[n]
    <3>1. k # n /\ n \in Chain(S, k)
      BY <1>1, <1>2, <1>5, BeforeAll
    <3>2. made[n] < made[k]
      BY <1>1, <3>1, ChainIsOlder
    <3> QED BY <1>1, <3>2 DEF TypeOK
  <2> QED BY <1>2, <1>4, <2>1 DEF Succeeded
<1>6. CASE n \notin Linked(S)
  <2>1. Head(S) \in Linked(S) /\ Head(S) \in S
    BY <1>1, LinkedFacts
  <2>2. Head(S) \notin Chain(S, n) /\ Rank(S, Head(S)) = 0
    BY <1>1, <1>6, <2>1, HeadIsFirst
  <2>3. Head(S) \in S \ Removable(final)
    BY <1>3, <2>1, <2>2, RepositoryAssumption
  <2>4. n \notin Chain(S, Head(S))
    BY <1>6 DEF Linked
  <2>5. NamesFollowClock => \A k \in K : made[k] > made[n]
    BY <1>1, <1>2, <1>6, UnlinkedIsOlder
  <2> QED BY <1>2, <1>4, <2>2, <2>3, <2>4, <2>5 DEF Succeeded
<1> QED BY <1>5, <1>6

\* When snapshots go the chains of those that are left lose members only.
LEMMA ChainShrinks ==
  ASSUME prev' = prev, Complete' \subseteq Complete, NEW n \in Complete'
  PROVE  Chain(Complete, n)' \subseteq Chain(Complete, n)
<1>1. PICK R \in SUBSET Complete : R = Complete'
  OBVIOUS
<1>2. Chain(Complete, n)' = Chain(R, n)
  BY <1>1 DEF Chain
<1>3. Complete \in SUBSET Names
  BY CompleteIsGiven
<1>4. Chain(R, n) \subseteq Chain(Complete, n)
  BY <1>1, <1>3, ChainsGrow
<1> QED BY <1>2, <1>4

\* Only Rotate fills doomed, and only Remove goes on with it.
LEMMA NothingDoomed ==
  ASSUME Inv, Inv', NEW p \in Procs, Step(p)
  PROVE  /\ \A q \in Procs \ {p} : doomed'[q] = {}
         /\ Rotate(p) \/ Remove(p) \/ doomed'[p] = {}
<1>1. \A q \in Procs \ {p} : doomed'[q] = {}
  BY OthersStayIdle DEF Inv, ProcInv
<1>2. ASSUME ~ Rotate(p), ~ Remove(p) PROVE doomed'[p] = {}
  <2>1. CASE pc'[p] # "remove"
    BY <2>1 DEF Inv, ProcInv
  <2>2. CASE pc'[p] = "remove"
    <3> USE DEF Inv, TypeOK, Goto
    <3>1. ~ Finish(p)
      BY <2>2 DEF Finish
    <3>2. ~ RetryOrRaise(p)
      BY <2>2, <3>1 DEF RetryOrRaise
    <3>3. ~ (BeginCreate(p) \/ Prepare(p) \/ PublishPending(p) \/ ValidationPasses(p)
             \/ ValidationFails(p) \/ Accept(p) \/ Diagnose(p) \/ Sync(p) \/ PointLatest(p)
             \/ BeginMaintain(p) \/ Relink(p) \/ BeginPrune(p) \/ BeginRead(p)
             \/ Rotated(p))
      BY <2>2
      DEF BeginCreate, Prepare, PublishPending, ValidationPasses, ValidationFails, Accept,
          Diagnose, Sync, PointLatest, BeginMaintain, Relink, BeginPrune, BeginRead,
          Rotated
    <3>4. ~ Reject(p)
      BY <2>2, <3>2 DEF Reject
    <3>5. RemoveRaises(p)
      BY <1>2, <3>1, <3>2, <3>3, <3>4
      DEF Step, PreflightRaises, CopyRaises, Discard, RecordRaises, RelinkRaises,
          EndRead, Return, Crash
    <3> QED BY <3>5 DEF RemoveRaises
  <2> QED BY <2>1, <2>2
<1> QED BY <1>1, <1>2

\* Rotation decides on what is succeeded ...
LEMMA RotateKeepsDoomedInv ==
  ASSUME Inv, HistoryInv, NoneSkipped, NEW p \in Procs, Rotate(p),
         \A q \in Procs \ {p} : doomed'[q] = {}
  PROVE  DoomedInv'
<1>1. /\ Complete' = Complete /\ prev' = prev /\ made' = made
      /\ NamesFollowClock' = NamesFollowClock
      /\ doomed'[p] = Removable(cur[p])
  BY DEF Rotate, Inv, TypeOK, Complete, In, NamesFollowClock, disk
<1>2. ASSUME NEW n \in doomed'[p] PROVE Succeeded(n, Complete \ doomed[p])'
  <2>1. PICK R : R = Removable(cur[p]) /\ R = doomed'[p]
    BY <1>1
  <2>2. Succeeded(n, Complete \ R)
    BY <1>2, <2>1, RemovableIsSucceeded
  <2>3. \A m : Chain(Complete, m)' = Chain(Complete, m)
    BY <1>1 DEF Chain
  <2> QED BY <1>1, <2>1, <2>2, <2>3 DEF Succeeded
<1> QED BY <1>2 DEF DoomedInv

\* ... and each removal leaves the successors of what is still to go.
LEMMA RemoveKeepsDoomedInv ==
  ASSUME Inv, DoomedInv, NEW p \in Procs, Remove(p),
         \A q \in Procs \ {p} : doomed'[q] = {}
  PROVE  DoomedInv'
<1> DEFINE g == Smallest(doomed[p])
<1>1. g \in doomed[p] /\ doomed[p] \subseteq Complete /\ g \in Names
  BY NextToGo DEF Remove, Inv, ProcInv
<1>2. /\ state' = [state EXCEPT ![g] = "gone"] /\ doomed'[p] = doomed[p] \ {g}
      /\ prev' = prev /\ made' = made
  BY DEF Remove, Inv, TypeOK
<1> HIDE DEF g
<1>3. Complete' = Complete \ {g}
  BY <1>1, <1>2 DEF Inv, TypeOK, Complete, In
<1>4. Given' = Given
  <2>1. "gone" \in States \ {"none"} /\ state[g] # "none"
    BY <1>1 DEF States, Complete, In
  <2> QED BY <1>1, <1>2, <2>1, GivenStays
<1>5. NamesFollowClock' = NamesFollowClock
  BY <1>2, <1>4 DEF NamesFollowClock, Given
<1>6. PICK D, E : D = doomed[p] /\ E = doomed'[p] /\ E = D \ {g} /\ Complete' \ E = Complete \ D
  BY <1>1, <1>2, <1>3
<1>7. ASSUME NEW n \in doomed'[p] PROVE Succeeded(n, Complete \ doomed[p])'
  <2>1. n \in D /\ n \in Complete'
    BY <1>1, <1>3, <1>6, <1>7
  <2>2. Succeeded(n, Complete \ D)
    BY <1>6, <2>1 DEF DoomedInv
  <2>3. PICK K \in SUBSET (Complete \ D) :
          /\ Cardinality(K) >= Keep
          /\ \/ \A k \in K : made[k] > made[n]
             \/ /\ \E h \in Complete \ D :
                     h \notin Chain(Complete, n) /\ n \notin Chain(Complete, h)
                /\ NamesFollowClock => \A k \in K : made[k] > made[n]
    BY <2>2 DEF Succeeded
  <2>4. \A h \in Complete' : Chain(Complete, h)' \subseteq Chain(Complete, h)
    BY <1>2, <1>3, ChainShrinks
  <2>5. \A h \in Complete \ D : h \in Complete'
    BY <1>6
  <2> QED BY <1>2, <1>5, <1>6, <2>1, <2>3, <2>4, <2>5 DEF Succeeded
<1> QED BY <1>7 DEF DoomedInv

\* The order of the snapshots is kept by every step.
LEMMA NextKeepsOrderInv == Inv /\ OrderInv /\ [Next]_vars => OrderInv'
<1> SUFFICES ASSUME Inv, OrderInv, [Next]_vars PROVE OrderInv'
  OBVIOUS
<1>1. Inv' /\ HistoryInv /\ NoneSkipped /\ DoomedInv
  BY NextKeepsInv DEF OrderInv
<1>2. ASSUME NEW p \in Procs, Step(p) PROVE OrderInv'
  <2>1. HistoryInv' /\ NoneSkipped'
    BY <1>1, <1>2, PrepareKeepsHistory, PrepareKeepsNoneSkipped, OthersKeepHistory
  <2>2. DoomedInv'
    <3>1. /\ \A q \in Procs \ {p} : doomed'[q] = {}
          /\ Rotate(p) \/ Remove(p) \/ doomed'[p] = {}
      BY <1>1, <1>2, NothingDoomed
    <3>2. CASE doomed'[p] = {}
      BY <3>1, <3>2 DEF DoomedInv
    <3> QED BY <1>1, <3>1, <3>2, RotateKeepsDoomedInv, RemoveKeepsDoomedInv
  <2> QED BY <2>1, <2>2 DEF OrderInv
<1>3. ASSUME NEW n \in Names, Damage(n) PROVE OrderInv'
  <2>1. HistoryInv' /\ NoneSkipped'
    BY <1>1, <1>3, DamageKeepsHistory
  <2>2. \A p \in Procs : doomed'[p] = {}
    BY <1>3, OnlyOneWorks DEF Damage, locals, Inv, ProcInv
  <2>3. DoomedInv'
    BY <2>2 DEF DoomedInv
  <2> QED BY <2>1, <2>3 DEF OrderInv
<1>4. ASSUME UNCHANGED vars PROVE OrderInv'
  BY <1>1, <1>4
  DEF vars, disk, locals, OrderInv, HistoryInv, NoneSkipped, DoomedInv, NamesFollowClock,
      Given, Complete, In, Succeeded, Chain
<1> QED BY <1>2, <1>3, <1>4 DEF Next

\* The order holds in every reachable state, whatever the clock and the faults do.
LEMMA OrderHolds == Spec => []OrderInv
<1>1. Init => OrderInv
  <2> SUFFICES ASSUME Init PROVE OrderInv
    OBVIOUS
  <2>1. Given = {} /\ Complete = {}
    BY DEF Init, Given, Complete, In
  <2>2. HistoryInv
    BY <2>1 DEF Init, HistoryInv
  <2>3. NoneSkipped
    BY <2>1 DEF NoneSkipped
  <2>4. DoomedInv
    BY DEF Init, DoomedInv
  <2> QED BY <2>2, <2>3, <2>4 DEF OrderInv
<1> QED BY <1>1, InvHolds, NextKeepsOrderInv, PTL DEF Spec

\* The latest link only ever moves to the newest snapshot that the verifier accepts,
\* after a create and in maintenance, as long as the names or the chain tell the order.
THEOREM LinkMovesToTheNewest == Spec => LatestMovesToNewest
<1> DEFINE ToNewest ==
      latest' # latest /\ OrderKnown => \A n \in Complete : made[n] <= made[latest']
<1>1. Inv /\ OrderInv /\ [Next]_vars => [ToNewest]_vars
  <2> SUFFICES ASSUME Inv, OrderInv, Next, latest' # latest, OrderKnown, NEW n \in Complete
               PROVE  made[n] <= made[latest']
    OBVIOUS
  <2>1. HistoryInv /\ n \in Given
    BY CompleteIsGiven DEF OrderInv
  <2>2. PICK p \in Procs : PointLatest(p) \/ Relink(p)
    BY DEF Next, Step, BeginCreate, Prepare, PreflightRaises, PublishPending, CopyRaises,
       ValidationPasses, ValidationFails, Accept, Reject, Diagnose, Discard, RecordRaises,
       Sync, BeginMaintain, RelinkRaises, BeginPrune, BeginRead, EndRead, Rotate, Remove,
       RemoveRaises, Rotated, Return, Crash, Damage, disk
  <2>3. CASE PointLatest(p)
    <3>1. latest' = cur[p] /\ pc[p] = "latest"
      BY <2>3 DEF PointLatest
    <3>2. cur[p] \in Names /\ cur[p] # NoSnap
      BY <3>1 DEF Inv, ProcInv, StateAt, Names, NoSnap
    <3> QED BY <2>1, <3>1, <3>2 DEF HistoryInv
  <2>4. CASE Relink(p)
    <3>1. latest' = Head(Complete)
      BY <2>4 DEF Relink
    <3>2. TypeOK /\ Complete \in SUBSET Names /\ Complete \in SUBSET Given /\ Aged(Complete)
      BY <2>1, CompleteIsGiven, GivenIsAged DEF Inv
    <3>3. CASE NamesFollowClock
      BY <3>1, <3>2, <3>3, HeadIsYoungestByName
    <3>4. CASE Complete \subseteq Chain(Complete, Head(Complete))
      <4>1. n \in Chain(Complete, Head(Complete)) /\ Head(Complete) \in Complete
        BY <3>2, <3>4, HeadIsMember
      <4> QED BY <3>1, <3>2, <4>1, ChainIsOlder
    <3> QED BY <3>3, <3>4 DEF OrderKnown
  <2> QED BY <2>2, <2>3, <2>4
<1>2. Spec => [][ToNewest]_vars
  BY <1>1, InvHolds, OrderHolds, PTL DEF Spec
<1> QED BY <1>2 DEF LatestMovesToNewest

\* Rotation removes a snapshot only when Keep newer ones are there that the verifier
\* accepts, in the order in which they were really made.
THEOREM RotationTakesTheOldest == Spec => RotationTakesOldest
<1> DEFINE Oldest(n) ==
      state[n] = "verified" /\ state'[n] = "gone" /\ OrderKnown
      => Cardinality({m \in Complete : made[m] > made[n]}) >= Keep
<1>1. Inv /\ OrderInv /\ [Next]_vars => [\A n \in Names : Oldest(n)]_vars
  <2> SUFFICES ASSUME Inv, OrderInv, Next, NEW n \in Names,
                      state[n] = "verified", state'[n] = "gone", OrderKnown
               PROVE  Cardinality({m \in Complete : made[m] > made[n]}) >= Keep
    OBVIOUS
  <2>1. PICK p \in Procs : Step(p)
    BY DEF Next, Damage, Inv, TypeOK
  <2>2. n # cur[p] \/ pc[p] \notin DOMAIN StateAt \/ StateAt[pc[p]] = "verified"
    BY DEF Inv, ProcInv
  <2>3. Remove(p) /\ n = Smallest(doomed[p])
    BY <2>1, <2>2 DEF Step, BeginCreate, Prepare, PreflightRaises, PublishPending, CopyRaises,
       ValidationPasses, ValidationFails, Accept, Reject, Diagnose, Discard, RecordRaises,
       Sync, PointLatest, BeginMaintain, Relink, RelinkRaises, BeginPrune, BeginRead, EndRead,
       Rotate, Remove, RemoveRaises, Rotated, Return, Crash, CutShort, disk, Inv, TypeOK,
       StateAt
  <2>4. n \in doomed[p] /\ n \in Complete
    BY <2>3, NextToGo DEF Remove, Complete, In
  <2>5. PICK K \in SUBSET (Complete \ doomed[p]) :
          /\ Cardinality(K) >= Keep
          /\ \/ \A k \in K : made[k] > made[n]
             \/ /\ \E h \in Complete \ doomed[p] :
                     h \notin Chain(Complete, n) /\ n \notin Chain(Complete, h)
                /\ NamesFollowClock => \A k \in K : made[k] > made[n]
    BY <2>4 DEF OrderInv, DoomedInv, Succeeded
  <2>6. ASSUME Complete \subseteq Chain(Complete, Head(Complete)), NEW h \in Complete
        PROVE  h \in Chain(Complete, n) \/ n \in Chain(Complete, h)
    <3>1. Complete \in SUBSET Names /\ Head(Complete) \in Complete
      BY <2>4, CompleteIsGiven, HeadIsMember
    <3> QED BY <2>4, <2>6, <3>1, ChainIsALine
  <2>7. \A k \in K : made[k] > made[n]
    BY <2>5, <2>6 DEF OrderKnown
  <2>8. K \subseteq {m \in Complete : made[m] > made[n]}
    BY <2>7
  <2>9. {m \in Complete : made[m] > made[n]} \in SUBSET Names
    BY CompleteIsGiven
  <2>10. PICK W \in SUBSET Names : W = {m \in Complete : made[m] > made[n]}
    BY <2>9
  <2>11. Cardinality(K) <= Cardinality(W) /\ Cardinality(W) \in Nat /\ Cardinality(K) \in Nat
    BY <2>8, <2>10, FewerIsLess, NamesAreFinite
  <2>12. Cardinality(W) >= Keep
    BY <2>5, <2>11, RepositoryAssumption
  <2> QED BY <2>10, <2>12
<1> QED
  BY <1>1, InvHolds, OrderHolds, PTL DEF Spec, RotationTakesOldest

------------------------------------------------------------------------------
(***************************************************************************)
(* BoundInv is inductive: how many are accepted, and how many of them stay.*)
(***************************************************************************)

\* What stays is part of what is verified, and all of it when nothing is doomed.
LEMMA StayingFacts ==
  /\ Staying \subseteq Complete /\ Complete \subseteq Names
  /\ (\A p \in Procs : doomed[p] = {}) => Staying = Complete
BY DEF Staying, Complete, In

\* The counts of the bound are natural numbers.
LEMMA CountsAreNumbers ==
  ASSUME Inv
  PROVE  /\ Cardinality(Complete) \in Nat /\ Cardinality(Staying) \in Nat
         /\ faults \in Nat /\ Keep \in Nat \ {0}
<1>1. Complete \in SUBSET Names /\ Staying \in SUBSET Names
  BY StayingFacts
<1> QED BY <1>1, NamesAreFinite, RepositoryAssumption DEF Inv, TypeOK

\* While one process works outside rotation nothing is doomed.
LEMMA NothingDoomedYet ==
  ASSUME Inv, NEW p \in Procs, pc[p] # "idle", pc[p] # "remove" \/ doomed[p] = {}
  PROVE  (\A q \in Procs : doomed[q] = {}) /\ Staying = Complete
<1>1. \A q \in Procs : q # p => pc[q] = "idle"
  BY OnlyOneWorks
<1>2. \A q \in Procs : doomed[q] = {}
  BY <1>1 DEF Inv, ProcInv
<1> QED BY <1>2, StayingFacts

\* With one head every snapshot is on its chain.
LEMMA OneHeadLinksAll ==
  ASSUME TypeOK, NEW S \in SUBSET Names, S # {}, Aged(S), OneHead(S)
  PROVE  S \subseteq Linked(S)
<1> DEFINE U == S \ Linked(S)
<1>1. SUFFICES ASSUME U # {} PROVE FALSE
  OBVIOUS
<1>2. U \in SUBSET Names /\ U \subseteq S
  OBVIOUS
<1>3. PICK n \in U : \A m \in U : made[m] <= made[n]
  <2> HIDE DEF U
  <2> QED BY <1>1, <1>2, YoungestExists
<1>4. Head(S) \in Linked(S) /\ Linked(S) \subseteq S
  BY LinkedFacts
<1>5. PICK m \in S : prev[m] = n
  BY <1>3, <1>4 DEF OneHead
<1>6. m \notin Linked(S)
  <2>1. m \in Linked(S) => n \in Linked(S)
    BY <1>4, <1>5, ChainCloses DEF Linked
  <2> QED BY <2>1
<1>7. made[n] < made[m] /\ made[m] <= made[n]
  BY <1>3, <1>5, <1>6 DEF Aged
<1>8. made[n] \in Nat /\ made[m] \in Nat
  BY DEF TypeOK
<1> QED BY ONLY <1>7, <1>8

\* The Keep newest of one chain are one chain.
LEMMA NewestAreOneChain ==
  ASSUME TypeOK, NEW S \in SUBSET Names, S # {}, Aged(S), OneHead(S)
  PROVE  OneHead({n \in S : Rank(S, n) < Keep})
<1> DEFINE W == {n \in S : Rank(S, n) < Keep}
<1>1. ASSUME NEW n \in W, n # Head(S) PROVE \E m \in W : prev[m] = n
  <2>1. PICK m \in S : prev[m] = n
    BY <1>1 DEF OneHead
  <2>2. n \in Linked(S) /\ m \in Linked(S)
    BY <2>1, OneHeadLinksAll
  <2>3. n \in Chain(S, m)
    BY <2>1, ChainCloses
  <2>4. m # n
    <3>1. m = n => made[n] < made[n]
      BY <2>1 DEF Aged
    <3>2. made[n] \in Nat
      BY DEF TypeOK
    <3> QED BY <3>1, <3>2
  <2>5. Before(S, m, n)
    BY <2>2, <2>3, <2>4, BeforeAll
  <2>6. \A x \in S : Before(S, x, m) => Before(S, x, n)
    BY <2>5, BeforeIsTransitive
  <2>7. Ahead(S)[m] \subseteq Ahead(S)[n] /\ Ahead(S)[n] \in SUBSET Names
    BY <2>6, AheadFacts
  <2>8. Rank(S, m) <= Rank(S, n)
    BY <2>7, AheadFacts, FewerIsLess
  <2>9. Rank(S, n) < Keep /\ Rank(S, m) \in Nat /\ Rank(S, n) \in Nat /\ Keep \in Nat
    BY AheadFacts, RepositoryAssumption
  <2>10. Rank(S, m) < Keep
    BY ONLY <2>8, <2>9
  <2> QED BY <2>1, <2>10
<1>2. Head(S) \in W
  BY HeadIsFirst, HeadIsMember, RepositoryAssumption
<1>3. Aged(W) /\ W \in SUBSET Names /\ W # {}
  BY <1>2 DEF Aged
<1>4. Head(W) = Head(S)
  <2> HIDE DEF W
  <2>1. Head(W) \in W /\ \A m \in W : prev[m] # Head(W)
    BY <1>3, HeadIsUnreferred
  <2> QED BY <1>1, <2>1
<1>5. OneHead(W)
  <2> HIDE DEF W
  <2> QED BY <1>1, <1>4 DEF OneHead
<1> QED BY <1>5

\* Among so few nothing is removable.
LEMMA FewAreKept ==
  ASSUME TypeOK, NEW S \in SUBSET Names, Aged(S), Cardinality(S) <= Keep, NEW n \in S
  PROVE  Rank(S, n) < Keep
<1>1. PICK A \in SUBSET S : Rank(S, n) = Cardinality(A) /\ n \notin A
  <2>1. n \notin Ahead(S)[n]
    BY AheadFacts, BeforeIsStrict
  <2> QED BY <2>1, AheadFacts
<1>2. A \cup {n} \in SUBSET S /\ IsFiniteSet(A) /\ Cardinality(A) \in Nat /\ A \in SUBSET Names
  BY NamesAreFinite
<1>3. Cardinality(A \cup {n}) = Cardinality(A) + 1
  BY <1>1, <1>2, FS_AddElement
<1>4. Cardinality(A \cup {n}) <= Cardinality(S) /\ Cardinality(S) \in Nat
  BY <1>2, FewerIsLess, NamesAreFinite
<1>5. Cardinality(A) + 1 <= Keep /\ Keep \in Nat
  <2>1. Keep \in Nat
    BY RepositoryAssumption
  <2>2. PICK b : b = Cardinality(A \cup {n})
    OBVIOUS
  <2> QED BY <1>2, <1>3, <1>4, <2>1, <2>2
<1> QED BY <1>1, <1>2, <1>5

\* The head depends on the accepted snapshots and their predecessors alone.
LEMMA HeadStays ==
  ASSUME Complete' = Complete, \A m \in Complete : prev'[m] = prev[m]
  PROVE  Head(Complete)' = Head(Complete) /\ OneHead(Complete)' = OneHead(Complete)
<1>1. PICK S : S = Complete /\ S = Complete'
  OBVIOUS
<1>2. {n \in S : \A m \in S : prev'[m] # n} = {n \in S : \A m \in S : prev[m] # n}
  BY <1>1
<1>3. Head(Complete)' = Head(Complete)
  BY <1>1, <1>2 DEF Head
<1>4. OneHead(Complete)' = OneHead(Complete)
  BY <1>1, <1>3 DEF OneHead
<1> QED BY <1>3, <1>4

\* A fault raises the bound by one: all that is verified may stay.
LEMMA FaultKeepsBound ==
  ASSUME Inv, BoundInv, faults' = faults + 1,
         Cardinality(Complete') <= Keep + faults + 1, \A q \in Procs : HeadPlace(q)'
  PROVE  BoundInv'
<1>1. Complete' \in SUBSET Names /\ Staying' \in SUBSET Complete'
  BY DEF Staying, Complete, In
<1>2. Cardinality(Complete') \in Nat /\ Cardinality(Staying') \in Nat
      /\ Cardinality(Staying') <= Cardinality(Complete')
  BY <1>1, NamesAreFinite, FewerIsLess
<1>3. faults \in Nat /\ Keep \in Nat
  BY RepositoryAssumption DEF Inv, TypeOK
<1>4. Cardinality(Complete') <= Keep + faults' + 1
  BY <1>2, <1>3
<1>5. Cardinality(Staying') <= Keep + faults'
  BY <1>2, <1>3
<1>6. faults' # 0
  BY <1>3
<1> QED BY <1>4, <1>5, <1>6 DEF BoundInv

\* A step with a fault accepts at most one more snapshot, and the bound grows by one.
LEMMA FaultStepKeepsBoundInv ==
  ASSUME Inv, BoundInv, NEW p \in Procs, Step(p), faults' # faults
  PROVE  BoundInv'
<1>1. faults' = faults + 1 /\ CutShort(p)
  BY DEF Step, BeginCreate, Prepare, PreflightRaises, PublishPending, CopyRaises,
     ValidationPasses, ValidationFails, Accept, Reject, Diagnose, Discard, RecordRaises, Sync,
     PointLatest, BeginMaintain, Relink, RelinkRaises, BeginPrune, BeginRead, EndRead, Rotate,
     Remove, RemoveRaises, Rotated, Return, Crash, Fault, CutShort, disk
<1>2. /\ Cardinality(Complete) \in Nat /\ Cardinality(Staying) \in Nat
      /\ faults \in Nat /\ Keep \in Nat
  BY CountsAreNumbers
<1>3. ProcInv(p)
  BY DEF Inv
<1>4. pc[p] # "idle"
  <2>1. faults' = faults + 1 /\ faults \in Nat
    BY <1>1, <1>2
  <2> QED
    BY <2>1 DEF Step, BeginCreate, Prepare, PreflightRaises, PublishPending, CopyRaises,
     ValidationPasses, ValidationFails, Accept, Reject, Diagnose, Discard, RecordRaises, Sync,
     PointLatest, BeginMaintain, Relink, RelinkRaises, BeginPrune, BeginRead, EndRead, Rotate,
     Remove, RemoveRaises, Rotated, Return, Crash
<1>5. Cardinality(Complete') <= Keep + faults + 1
  <2>0. Complete' \in SUBSET Names /\ Complete \in SUBSET Names
    BY DEF Complete, In
  <2>1. \A m \in Complete' : m \in Complete \/ (m = cur[p] /\ pc[p] = "accept")
    BY <1>1, CutShortKeepsNames
  <2>2. CASE pc[p] # "accept"
    <3>1. Cardinality(Complete') <= Cardinality(Complete)
      BY <2>0, <2>1, <2>2, FewerIsLess
    <3>2. Cardinality(Complete') \in Nat /\ Cardinality(Complete) <= Keep + faults + 1
      BY <2>0, NamesAreFinite DEF BoundInv
    <3> QED BY <1>2, <3>1, <3>2
  <2>3. CASE pc[p] = "accept"
    <3>1. Staying = Complete
      BY <2>3, NothingDoomedYet
    <3>2. \A q \in Procs : ~ Fresh(q)
      <4>1. \A q \in Procs : q # p => pc[q] = "idle"
        BY <1>4, OnlyOneWorks
      <4> QED BY <2>3, <4>1 DEF Fresh
    <3>3. Cardinality(Complete) <= Keep + faults
      BY <3>1, <3>2 DEF BoundInv
    <3>4. cur[p] \in Names
      BY <1>3, <2>3 DEF ProcInv, StateAt
    <3>5. Cardinality(Complete') <= Cardinality(Complete) + 1
      BY <2>0, <2>1, <3>4, OneMore
    <3>6. Cardinality(Complete') \in Nat
      BY <2>0, NamesAreFinite
    <3> QED BY <1>2, <3>3, <3>5, <3>6
  <2> QED BY <2>2, <2>3
<1>6. ASSUME NEW q \in Procs PROVE HeadPlace(q)'
  <2>1. CASE q # p
    <3>1. pc'[q] = "idle"
      BY <2>1, OthersStayIdle
    <3> QED BY <3>1 DEF HeadPlace
  <2>2. CASE q = p /\ PointLatest(p)
    <3>1. pc[p] = "latest" /\ pc'[p] = "rotate" /\ cur' = cur /\ UNCHANGED <<state, prev>>
      BY <2>2 DEF PointLatest, Goto, Inv, TypeOK
    <3>2. Head(Complete)' = Head(Complete)
      BY <3>1, HeadStays DEF Complete, In
    <3>3. faults' >= 1 /\ (faults' = 1 => faults = 0)
      BY <1>1, <1>2
    <3>4. faults = 0 => cur[p] = Head(Complete)
      BY <3>1 DEF BoundInv, HeadPlace
    <3> QED BY <2>2, <3>1, <3>2, <3>3, <3>4 DEF HeadPlace
  <2>3. CASE q = p /\ ~ PointLatest(p)
    <3>1. pc'[p] \in {"idle", "returned", "remove"}
      <4>1. faults' = faults + 1 /\ faults \in Nat
        BY <1>1, <1>2
      <4>2. Finish(p) => pc'[p] = "idle"
        BY DEF Finish, Goto, Inv, TypeOK
      <4>3. Sync(p) => pc'[p] = "returned"
        BY <4>1 DEF Sync, Goto, Inv, TypeOK
      <4>4. RemoveRaises(p) => pc'[p] = "remove"
        BY DEF RemoveRaises
      <4> QED
        BY <2>3, <4>1, <4>2, <4>3, <4>4
        DEF Step, BeginCreate, Prepare, PreflightRaises, PublishPending, CopyRaises,
            ValidationPasses, ValidationFails, Accept, Reject, Diagnose, Discard, RecordRaises,
            BeginMaintain, Relink, RelinkRaises, BeginPrune, BeginRead, EndRead,
            Rotate, Remove, Rotated, Return, Crash
    <3> QED BY <2>3, <3>1 DEF HeadPlace
  <2> QED BY <2>1, <2>2, <2>3
<1> QED BY <1>1, <1>5, <1>6, FaultKeepsBound

\* A step that accepts nothing and decides nothing keeps what is verified.
LEMMA QuietStepKeepsComplete ==
  ASSUME Inv, NEW p \in Procs, Step(p), faults' = faults,
         ~ Accept(p), ~ Remove(p)
  PROVE  Complete' = Complete /\ \A m \in Complete : prev'[m] = prev[m]
<1>1. ProcInv(p) /\ faults \in Nat /\ faults # faults + 1
  BY DEF Inv, TypeOK
<1>2. CASE Prepare(p)
  BY <1>2, PrepareAdds, CompleteIsGiven
<1>3. CASE ~ Prepare(p)
  <2>1. prev' = prev
    BY <1>3, OldNames
  <2>2. CASE UNCHANGED state
    BY <2>1, <2>2 DEF Complete, In
  <2>3. CASE PublishPending(p) \/ CopyRaises(p) \/ Reject(p) \/ Discard(p)
    <3>1. cur[p] \in Names /\ state[cur[p]] # "verified"
      BY <1>1, <2>3 DEF PublishPending, CopyRaises, Reject, Discard, ProcInv, StateAt
    <3>2. \/ UNCHANGED state
          \/ \E what \in {"pending", "gone", "failed"} :
               state' = [state EXCEPT ![cur[p]] = what]
      BY <2>3 DEF PublishPending, CopyRaises, Reject, Discard
    <3>3. \A m \in Names : state'[m] = "verified" <=> state[m] = "verified"
      BY <3>1, <3>2 DEF Inv, TypeOK
    <3> QED BY <2>1, <3>3 DEF Complete, In
  <2> QED
    BY <1>1, <1>3, <2>2, <2>3
    DEF Step, BeginCreate, PreflightRaises, ValidationPasses, ValidationFails, Diagnose,
        RecordRaises, Sync, PointLatest, BeginMaintain, Relink, RelinkRaises, BeginPrune,
        BeginRead, EndRead, Rotate, RemoveRaises, Rotated, Return, Crash, Fault, disk
<1> QED BY <1>2, <1>3

\* How a snapshot in the making goes from place to place.
LEMMA HowPlacesFollow ==
  ASSUME Inv, NEW p \in Procs, Step(p), faults' = faults, ~ Accept(p), ~ Prepare(p)
  PROVE  /\ pc'[p] \in {"copy", "validate", "accept"} =>
              pc[p] \in {"copy", "validate"} /\ cur'[p] = cur[p]
         /\ pc'[p] \in {"sync", "latest"} => pc[p] = "sync" /\ cur'[p] = cur[p]
         /\ pc'[p] = "rotate" /\ cur'[p] # NoSnap =>
              pc[p] = "latest" /\ cur'[p] = cur[p] /\ latest' = cur[p]
         /\ Fresh(p) /\ ~ Rotate(p) => Fresh(p)'
<1>1. ProcInv(p) /\ faults \in Nat /\ faults # faults + 1
  BY DEF Inv, TypeOK
<1> USE DEF Inv, TypeOK, Goto
<1>2. CASE Finish(p)
  <2>1. pc'[p] = "idle"
    BY <1>2 DEF Finish
  <2>2. ~ Fresh(p)
    BY <1>1, <1>2
    DEF Finish, Fresh, Step, BeginCreate, PreflightRaises, PublishPending,
        CopyRaises, ValidationPasses, ValidationFails, Reject, Diagnose, Discard, RecordRaises,
        Sync, PointLatest, BeginMaintain, Relink, RelinkRaises, BeginPrune, BeginRead,
        EndRead, Rotate, Remove, RemoveRaises, Rotated, Return, Crash, Fault
  <2> QED BY <2>1, <2>2
<1>3. CASE RetryOrRaise(p) /\ ~ Finish(p)
  <2>1. pc'[p] = "preflight"
    BY <1>3 DEF RetryOrRaise
  <2>2. ~ Fresh(p)
    <3>1. ~ (Sync(p) \/ PointLatest(p) \/ Rotate(p))
      BY <2>1 DEF Sync, PointLatest, Rotate
    <3>2. ~ Crash(p)
      BY <1>3 DEF Crash
    <3> HIDE DEF Inv, TypeOK, Goto
    <3> QED
      BY <3>1, <3>2
      DEF Fresh, Step, BeginCreate, PreflightRaises, PublishPending, CopyRaises,
          ValidationPasses, ValidationFails, Reject, Diagnose, Discard, RecordRaises,
          BeginMaintain, Relink, RelinkRaises, BeginPrune, BeginRead, EndRead, Remove,
          RemoveRaises, Rotated, Return, Acquire
  <2> QED BY <2>1, <2>2
<1>4. CASE BeginCreate(p) \/ BeginMaintain(p) \/ BeginRead(p) \/ BeginPrune(p)
  BY <1>1, <1>4
  DEF BeginCreate, BeginMaintain, BeginRead, BeginPrune, Acquire, ProcInv, Fresh
<1>5. CASE PublishPending(p) \/ ValidationPasses(p) \/ ValidationFails(p) \/ Diagnose(p)
  BY <1>1, <1>5 DEF PublishPending, ValidationPasses, ValidationFails, Diagnose, Fresh
<1>6. CASE Sync(p) \/ PointLatest(p)
  <2>1. cur[p] # NoSnap
    BY <1>1, <1>6 DEF Sync, PointLatest, ProcInv, StateAt, Names, NoSnap
  <2> QED BY <1>1, <1>6, <2>1 DEF Sync, PointLatest, Fresh, Fault
<1>7. CASE Relink(p)
  BY <1>1, <1>7 DEF Relink, ProcInv, Fresh
<1>8. CASE Rotate(p) \/ Remove(p) \/ RemoveRaises(p) \/ Rotated(p)
  BY <1>8 DEF Rotate, Remove, RemoveRaises, Rotated, Fresh
<1>9. CASE Reject(p) /\ ~ Finish(p) /\ ~ RetryOrRaise(p)
  BY <1>9 DEF Reject, Fresh
<1> QED
  BY <1>2, <1>3, <1>4, <1>5, <1>6, <1>7, <1>8, <1>9
  DEF Step, PreflightRaises, CopyRaises, Discard, RecordRaises, RelinkRaises, EndRead,
      Return, Crash

\* The process's snapshot keeps its place before the head, or as the head.
LEMMA QuietStepKeepsHeadPlace ==
  ASSUME Inv, BoundInv, NEW p \in Procs, Step(p), faults' = faults,
         ~ Accept(p), ~ Remove(p), NEW q \in Procs
  PROVE  HeadPlace(q)'
<1>1. Complete' = Complete /\ \A m \in Complete : prev'[m] = prev[m]
  BY QuietStepKeepsComplete
<1>2. Head(Complete)' = Head(Complete)
  BY <1>1, HeadStays
<1>3. HeadPlace(p)
  BY DEF BoundInv
<1>4. CASE q # p
  <2>1. pc'[q] = "idle"
    BY <1>4, OthersStayIdle
  <2> QED BY <2>1 DEF HeadPlace
<1>5. CASE q = p /\ Prepare(p)
  <2>1. pc'[p] = "copy"
    BY <1>5 DEF Prepare, Goto, Inv, TypeOK
  <2>2. prev'[cur'[p]] = Head(Complete)
    BY <1>5, PrepareAdds
  <2> QED BY <1>2, <1>5, <2>1, <2>2 DEF HeadPlace
<1>6. CASE q = p /\ ~ Prepare(p)
  <2>1. prev' = prev
    BY <1>6, OldNames
  <2>2. pc'[p] \in {"copy", "validate", "accept"} => prev'[cur'[p]] = Head(Complete)'
    BY <1>2, <1>3, <1>6, <2>1, HowPlacesFollow DEF HeadPlace
  <2>3. pc'[p] \in {"sync", "latest"} /\ faults' = 0 => cur'[p] = Head(Complete)'
    BY <1>2, <1>3, <1>6, HowPlacesFollow DEF HeadPlace
  <2>4. pc'[p] = "rotate" /\ cur'[p] # NoSnap =>
          latest' = cur'[p] /\ (faults' = 0 => cur'[p] = Head(Complete)')
    BY <1>2, <1>3, <1>6, HowPlacesFollow DEF HeadPlace
  <2> QED BY <1>6, <2>2, <2>3, <2>4 DEF HeadPlace
<1> QED BY <1>4, <1>5, <1>6

\* The bound is kept by steps that accept, decide and remove nothing.
LEMMA QuietStepKeepsBoundInv ==
  ASSUME Inv, Inv', BoundInv, NEW p \in Procs, Step(p), faults' = faults,
         ~ Accept(p), ~ Remove(p), ~ Rotate(p)
  PROVE  BoundInv'
<1>1. Complete' = Complete /\ \A m \in Complete : prev'[m] = prev[m]
  BY QuietStepKeepsComplete
<1>2. OneHead(Complete)' = OneHead(Complete)
  BY <1>1, HeadStays
<1>3. Staying' = Complete'
  <2>1. \A q \in Procs : doomed'[q] = {}
    BY NothingDoomed
  <2> QED BY <2>1 DEF Staying
<1>4. Staying = Complete
  <2>1. CASE pc[p] = "idle"
    <3>1. lock = Nobody
      BY <2>1
      DEF Step, BeginCreate, Prepare, PreflightRaises, PublishPending, CopyRaises,
          ValidationPasses, ValidationFails, Accept, Reject, Diagnose, Discard, RecordRaises,
          Sync, PointLatest, BeginMaintain, Relink, RelinkRaises, BeginPrune, BeginRead,
          EndRead, Rotate, Remove, RemoveRaises, Rotated, Return, Crash, Acquire
    <3>2. \A q \in Procs : doomed[q] = {}
      BY <3>1, OnlyOneWorks DEF Inv, ProcInv
    <3> QED BY <3>2, StayingFacts
  <2>2. CASE pc[p] # "idle"
    <3>1. pc[p] # "remove" \/ doomed[p] = {}
      <4>1. faults \in Nat /\ faults # faults + 1
        BY DEF Inv, TypeOK
      <4> QED
        BY <4>1
        DEF Step, BeginCreate, Prepare, PreflightRaises, PublishPending, CopyRaises,
            ValidationPasses, ValidationFails, Accept, Reject, Diagnose, Discard,
            RecordRaises, Sync, PointLatest, BeginMaintain, Relink, RelinkRaises,
            BeginPrune, BeginRead, EndRead, Rotate, RemoveRaises, Rotated,
            Return, Crash, Acquire, Fault
    <3> QED BY <2>2, <3>1, NothingDoomedYet
  <2> QED BY <2>1, <2>2
<1>5. ASSUME \A q \in Procs : ~ Fresh(q)' PROVE \A q \in Procs : ~ Fresh(q)
  <2>1. \A q \in Procs : q # p => ~ Fresh(q)
    BY OthersStayIdle DEF Fresh
  <2>2. ~ Fresh(p)
    <3>1. CASE Prepare(p)
      BY <3>1 DEF Prepare, Fresh
    <3>2. CASE ~ Prepare(p)
      BY <1>5, <3>2, HowPlacesFollow
    <3> QED BY <3>1, <3>2
  <2> QED BY <2>1, <2>2
<1>6. \A q \in Procs : HeadPlace(q)'
  BY QuietStepKeepsHeadPlace
<1>7. (\A q \in Procs : ~ Fresh(q)') => Cardinality(Staying') <= Keep + faults'
  BY <1>1, <1>3, <1>4, <1>5 DEF BoundInv
<1>8. Cardinality(Complete') <= Keep + faults' + 1
  BY <1>1 DEF BoundInv
<1>9. faults' = 0 => OneHead(Staying)'
  <2>1. faults' = 0 => OneHead(Complete)
    BY <1>4 DEF BoundInv
  <2>2. OneHead(Staying)' = OneHead(Complete)'
    BY <1>3 DEF OneHead, Head
  <2> QED BY <1>2, <2>1, <2>2
<1> QED BY <1>6, <1>7, <1>8, <1>9 DEF BoundInv

\* The accepted snapshot is the new head, and the chain goes on from it.
LEMMA AcceptedIsHead ==
  ASSUME TypeOK, NEW S \in SUBSET Names, NEW c \in Names \ S, Aged(S \cup {c}),
         prev[c] = Head(S), OneHead(S)
  PROVE  OneHead(S \cup {c}) /\ Head(S \cup {c}) = c
<1> DEFINE R == S \cup {c}
<1>1. R \in SUBSET Names /\ c \in R /\ S \subseteq R /\ Aged(R)
  OBVIOUS
<1>2. \A n \in S : \E m \in R : prev[m] = n
  BY <1>1 DEF OneHead
<1>3. Head(R) \in R /\ \A m \in R : prev[m] # Head(R)
  <2> HIDE DEF R
  <2> QED BY <1>1, HeadIsUnreferred
<1>4. Head(R) = c
  BY <1>2, <1>3
<1>5. OneHead(R)
  <2>1. \A n \in R : n = c \/ n \in S
    OBVIOUS
  <2> HIDE DEF R
  <2> QED BY <1>2, <1>4, <2>1 DEF OneHead
<1> QED BY <1>4, <1>5

\* An accepted snapshot is one above the bound, which its rotation makes good.
LEMMA AcceptKeepsBoundInv ==
  ASSUME Inv, Inv', HistoryInv, BoundInv, NEW p \in Procs, Accept(p)
  PROVE  BoundInv'
<1>1. /\ pc[p] = "accept" /\ pc' = [pc EXCEPT ![p] = "sync"]
      /\ state' = [state EXCEPT ![cur[p]] = "verified"]
      /\ prev' = prev /\ cur' = cur /\ doomed' = doomed /\ faults' = faults
  BY DEF Accept, Goto
<1>2. cur[p] \in Names /\ state[cur[p]] = "pending"
  BY <1>1 DEF Inv, ProcInv, StateAt
<1>3. PICK c \in Names : c = cur[p]
  BY <1>2
<1>4. Complete' = Complete \cup {c} /\ c \notin Complete
  BY <1>1, <1>2, <1>3 DEF Inv, TypeOK, Complete, In
<1>5. (\A q \in Procs : doomed[q] = {}) /\ Staying = Complete
  BY <1>1, NothingDoomedYet
<1>6. Staying' = Complete'
  BY <1>1, <1>5 DEF Staying
<1>7. pc'[p] = "sync" /\ \A q \in Procs : q # p => pc[q] = "idle" /\ pc'[q] = "idle"
  BY <1>1, OnlyOneWorks DEF Inv, TypeOK
<1>8. Cardinality(Complete) <= Keep + faults
  <2>1. \A q \in Procs : ~ Fresh(q)
    BY <1>1, <1>7 DEF Fresh
  <2> QED BY <1>5, <2>1 DEF BoundInv
<1>9. Cardinality(Complete') <= Keep + faults' + 1
  <2>1. Complete \in SUBSET Names /\ Complete' \in SUBSET Names
    BY DEF Complete, In
  <2>2. Cardinality(Complete') <= Cardinality(Complete) + 1 /\ Cardinality(Complete') \in Nat
    BY <1>4, <2>1, OneMore, NamesAreFinite
  <2>3. Cardinality(Complete) \in Nat /\ faults \in Nat /\ Keep \in Nat
    BY CountsAreNumbers
  <2> QED BY <1>1, <1>8, <2>2, <2>3
<1>10. ~ (\A q \in Procs : ~ Fresh(q)')
  BY <1>7 DEF Fresh
<1>11. ASSUME faults = 0 PROVE OneHead(Staying)' /\ Head(Complete)' = c
  <2>1. PICK S \in SUBSET Names : S = Complete
    BY CompleteIsGiven
  <2>2. TypeOK /\ c \in Names \ S /\ prev[c] = Head(S) /\ OneHead(S)
    BY <1>1, <1>3, <1>4, <1>5, <1>11, <2>1 DEF Inv, BoundInv, HeadPlace
  <2>3. Aged(S \cup {c})
    <3>1. c \in Given
      BY <1>2, <1>3 DEF Given, In
    <3> QED BY <2>1, <3>1, CompleteIsGiven, GivenIsAged
  <2>4. OneHead(S \cup {c}) /\ Head(S \cup {c}) = c
    BY <2>2, <2>3, AcceptedIsHead
  <2>5. PICK R : R = S \cup {c} /\ R = Complete' /\ R = Staying'
    BY <1>4, <1>6, <2>1
  <2>6. Head(Complete)' = Head(R) /\ Head(Staying)' = Head(R)
    BY <1>1, <2>5 DEF Head
  <2> QED BY <1>1, <2>4, <2>5, <2>6 DEF OneHead
<1>12. ASSUME NEW q \in Procs PROVE HeadPlace(q)'
  <2>1. CASE q # p
    BY <1>7, <2>1 DEF HeadPlace
  <2>2. CASE q = p
    BY <1>1, <1>3, <1>7, <1>11, <2>2 DEF HeadPlace
  <2> QED BY <2>1, <2>2
<1> QED BY <1>1, <1>9, <1>10, <1>11, <1>12 DEF BoundInv

\* A removal does not change what stays.
LEMMA RemoveKeepsBoundInv ==
  ASSUME Inv, BoundInv, NEW p \in Procs, Remove(p)
  PROVE  BoundInv'
<1> DEFINE g == Smallest(doomed[p])
<1>1. g \in doomed[p] /\ doomed[p] \subseteq Complete /\ g \in Names
  BY NextToGo DEF Remove, Inv, ProcInv
<1>2. /\ state' = [state EXCEPT ![g] = "gone"]
      /\ doomed'[p] = doomed[p] \ {g} /\ (\A q \in Procs : q # p => doomed'[q] = doomed[q])
      /\ UNCHANGED <<prev, pc, cur, faults>> /\ pc[p] = "remove"
  BY DEF Remove, Inv, TypeOK
<1> HIDE DEF g
<1>3. Complete' = Complete \ {g}
  BY <1>1, <1>2 DEF Inv, TypeOK, Complete, In
<1>4. \A q \in Procs : q # p => pc[q] = "idle" /\ doomed[q] = {}
  BY <1>2, OnlyOneWorks DEF Inv, ProcInv
<1>5. Staying' = Staying
  BY <1>1, <1>2, <1>3, <1>4 DEF Staying
<1>6. Cardinality(Complete') <= Keep + faults' + 1
  <2>1. Complete \in SUBSET Names /\ Complete' \subseteq Complete
    BY <1>3, CompleteIsGiven
  <2>2. Cardinality(Complete') <= Cardinality(Complete) /\ Cardinality(Complete') \in Nat
    BY <2>1, FewerIsLess, NamesAreFinite
  <2>3. Cardinality(Complete) \in Nat /\ faults \in Nat /\ Keep \in Nat
    BY CountsAreNumbers
  <2> QED BY <1>2, <2>2, <2>3 DEF BoundInv
<1>7. (\A q \in Procs : ~ Fresh(q)') => Cardinality(Staying') <= Keep + faults'
  <2>1. \A q \in Procs : Fresh(q)' = Fresh(q)
    BY <1>2 DEF Fresh
  <2> QED BY <1>2, <1>5, <2>1 DEF BoundInv
<1>8. faults' = 0 => OneHead(Staying)'
  <2>1. OneHead(Staying)' = OneHead(Staying)
    BY <1>2, <1>5 DEF OneHead, Head
  <2> QED BY <1>2, <2>1 DEF BoundInv
<1>9. \A q \in Procs : HeadPlace(q)'
  BY <1>2, <1>4 DEF HeadPlace
<1> QED BY <1>6, <1>7, <1>8, <1>9 DEF BoundInv

\* Rotation leaves the Keep newest, the new snapshot and the link's target, and the
\* last two are among the newest unless a fault came between.
LEMMA RotateKeepsBoundInv ==
  ASSUME Inv, HistoryInv, BoundInv, NEW p \in Procs, Rotate(p)
  PROVE  BoundInv'
<1>1. /\ pc[p] = "rotate" /\ pc' = [pc EXCEPT ![p] = "remove"]
      /\ doomed' = [doomed EXCEPT ![p] = Removable(cur[p])]
      /\ UNCHANGED <<state, prev, latest, cur, faults>>
  BY DEF Rotate, Goto, disk
<1>2. Complete' = Complete /\ TypeOK /\ Complete \in SUBSET Names /\ Aged(Complete)
  BY <1>1, CompleteIsGiven, GivenIsAged DEF Complete, In, Inv
<1>3. (\A q \in Procs : doomed[q] = {}) /\ Staying = Complete
  BY <1>1, NothingDoomedYet
<1>4. pc'[p] = "remove" /\ \A q \in Procs : q # p => pc[q] = "idle" /\ pc'[q] = "idle"
  BY <1>1, OnlyOneWorks DEF Inv, TypeOK
<1>5. Staying' = Complete \ Removable(cur[p])
  <2>1. doomed'[p] = Removable(cur[p]) /\ \A q \in Procs : q # p => doomed'[q] = {}
    BY <1>1, <1>3 DEF Inv, TypeOK
  <2> QED BY <1>2, <2>1 DEF Staying
<1>6. PICK S \in SUBSET Names : S = Complete /\ Aged(S)
  BY <1>2
<1> DEFINE W == {n \in S : Rank(S, n) < Keep}
<1>7. W \in SUBSET Names /\ W \subseteq S /\ Cardinality(W) <= Keep /\ Cardinality(W) \in Nat
  <2>1. Cardinality(W) <= Keep
    BY <1>2, <1>6, FewKept
  <2> QED BY <2>1, NamesAreFinite
<1>8. \A n : n \in Staying' <=> n \in W \/ (n \in S /\ n \in {cur[p], latest})
  <2>1. \A n \in S : Rank(S, n) \in Nat /\ Keep \in Nat
    BY AheadFacts, RepositoryAssumption
  <2> QED BY <1>5, <1>6, <2>1 DEF Removable
<1>9. S # {} => Head(S) \in W
  BY <1>2, <1>6, HeadIsFirst, HeadIsMember, RepositoryAssumption
<1>10. /\ Cardinality(S) \in Nat /\ faults \in Nat /\ Keep \in Nat
       /\ Cardinality(S) <= Keep + faults + 1
  BY <1>6, CountsAreNumbers DEF BoundInv
<1>11. cur[p] = NoSnap => Cardinality(S) <= Keep + faults
  <2>1. cur[p] = NoSnap => \A q \in Procs : ~ Fresh(q)
    BY <1>1, <1>4 DEF Fresh
  <2> QED BY <1>3, <1>6, <2>1 DEF BoundInv
<1>12. cur[p] # NoSnap => cur[p] \in S
  BY <1>1, <1>6 DEF Inv, TypeOK, ProcInv, Complete, In
<1>13. ASSUME faults = 0, Staying' # S PROVE Staying' = W
  <2>1. CASE cur[p] = NoSnap
    <3>1. Cardinality(S) <= Keep
      BY <1>10, <1>11, <1>13, <2>1
    <3>2. W = S
      BY <1>2, <1>6, <3>1, FewAreKept
    <3> QED BY <1>8, <3>2
  <2>2. CASE cur[p] # NoSnap
    <3>1. cur[p] = Head(S) /\ latest = cur[p]
      BY <1>1, <1>6, <1>13, <2>2 DEF BoundInv, HeadPlace
    <3>2. cur[p] \in W /\ latest \in W
      BY <1>9, <1>12, <2>2, <3>1
    <3> QED BY <1>8, <3>2
  <2> QED BY <2>1, <2>2
<1>14. Cardinality(Staying') <= Keep + faults
  <2>0. PICK Y \in SUBSET Names : Y = Staying'
    BY <1>5, <1>6
  <2>1. Cardinality(Y) \in Nat
    BY NamesAreFinite
  <2>2. CASE cur[p] = NoSnap
    <3>1. Cardinality(Y) <= Cardinality(S)
      BY <1>5, <1>6, <2>0, FewerIsLess
    <3> QED BY <1>10, <1>11, <2>0, <2>1, <2>2, <3>1
  <2>3. CASE faults = 0 /\ cur[p] # NoSnap
    <3>1. cur[p] = Head(S) /\ latest = cur[p] /\ cur[p] \in W
      BY <1>1, <1>6, <1>9, <1>12, <2>3 DEF BoundInv, HeadPlace
    <3>2. Y = W
      BY <1>8, <2>0, <3>1
    <3> QED BY <1>7, <1>10, <2>0, <3>2
  <2>4. ASSUME faults >= 1, NEW x \in Names, Y \subseteq W \cup {x}
        PROVE  Cardinality(Y) <= Keep + faults
    <3>1. Cardinality(Y) <= Cardinality(W) + 1
      BY <1>7, <2>4, OneMore
    <3> QED BY ONLY <1>7, <1>10, <2>1, <2>4, <3>1
  <2>5. CASE faults >= 1 /\ cur[p] # NoSnap /\ (latest = cur[p] \/ cur[p] = Head(S))
    <3>1. cur[p] \in Names /\ cur[p] \in S
      BY <1>12, <2>5
    <3>2. CASE latest = cur[p]
      BY <1>8, <2>0, <2>4, <2>5, <3>1, <3>2
    <3>3. CASE cur[p] = Head(S) /\ latest \in S
      <4>1. Y \subseteq W \cup {latest} /\ latest \in Names
        BY <1>8, <1>9, <2>0, <3>1, <3>3
      <4> QED BY <2>0, <2>4, <2>5, <4>1
    <3>4. CASE latest \notin S
      <4>1. Y \subseteq W \cup {cur[p]}
        BY <1>8, <2>0, <3>4
      <4> QED BY <2>0, <2>4, <2>5, <3>1, <4>1
    <3> QED BY <2>5, <3>2, <3>3, <3>4
  <2>6. CASE faults >= 2 /\ cur[p] # NoSnap
    <3>1. Y \subseteq S /\ cur[p] \in Names
      BY <1>5, <1>6, <1>12, <2>0, <2>6
    <3>2. W \cup {cur[p]} \in SUBSET Names
      BY <1>7, <3>1
    <3>3. CASE latest \notin S
      <4>1. Y \subseteq W \cup {cur[p]} /\ faults >= 1
        BY <1>8, <1>10, <2>0, <2>6, <3>3
      <4> QED BY <2>0, <2>4, <3>1, <4>1
    <3>4. CASE latest \in S
      <4>1. PICK V \in SUBSET Names : V = W \cup {cur[p]}
        BY <3>2
      <4>2. Y \subseteq V \cup {latest} /\ latest \in Names
        BY <1>8, <2>0, <3>4, <4>1
      <4>3. Cardinality(V) <= Cardinality(W) + 1
        BY <1>7, <3>1, <4>1, OneMore
      <4>4. Cardinality(Y) <= Cardinality(V) + 1 /\ Cardinality(V) \in Nat
        BY <4>2, OneMore, NamesAreFinite
      <4>5. Cardinality(Y) <= Keep + faults
        BY ONLY <1>7, <1>10, <2>1, <2>6, <4>3, <4>4
      <4> QED BY <2>0, <4>5
    <3> QED BY <3>3, <3>4
  <2>7. cur[p] # NoSnap => latest = cur[p] \/ (faults >= 1 /\ (faults = 1 => cur[p] = Head(S)))
    BY <1>1, <1>6 DEF BoundInv, HeadPlace
  <2>8. faults = 0 \/ faults = 1 \/ faults >= 2
    BY <1>10
  <2>9. faults >= 2 => faults >= 1
    BY <1>10
  <2> QED BY <2>2, <2>3, <2>5, <2>6, <2>7, <2>8, <2>9
<1>15. ASSUME faults = 0 PROVE OneHead(Staying)'
  <2>1. OneHead(S)
    BY <1>3, <1>6, <1>15 DEF BoundInv
  <2>2. PICK Y : Y = Staying'
    OBVIOUS
  <2>3. OneHead(Y)
    <3>1. CASE Y = S
      BY <2>1, <3>1
    <3>2. CASE Y # S
      <4>1. Y = W /\ S # {}
        BY <1>8, <1>13, <1>15, <2>2, <3>2
      <4> QED BY <1>2, <1>6, <2>1, <4>1, NewestAreOneChain
    <3> QED BY <3>1, <3>2
  <2>4. Head(Staying)' = Head(Y)
    BY <1>1, <2>2 DEF Head
  <2> QED BY <1>1, <2>2, <2>3, <2>4 DEF OneHead
<1>16. \A q \in Procs : HeadPlace(q)'
  BY <1>4 DEF HeadPlace
<1>17. Cardinality(Complete') <= Keep + faults' + 1
  BY <1>1, <1>2 DEF BoundInv
<1> HIDE DEF W
<1> QED BY <1>1, <1>14, <1>15, <1>16, <1>17 DEF BoundInv

\* The bound is kept by every step.
LEMMA NextKeepsBoundInv == Inv /\ OrderInv /\ BoundInv /\ [Next]_vars => BoundInv'
<1> SUFFICES ASSUME Inv, OrderInv, BoundInv, [Next]_vars PROVE BoundInv'
  OBVIOUS
<1>1. Inv' /\ HistoryInv
  BY NextKeepsInv DEF OrderInv
<1>2. ASSUME NEW p \in Procs, Step(p) PROVE BoundInv'
  <2>1. CASE faults' # faults
    BY <1>2, <2>1, FaultStepKeepsBoundInv
  <2>2. CASE faults' = faults
    BY <1>1, <1>2, <2>2, QuietStepKeepsBoundInv, AcceptKeepsBoundInv, RemoveKeepsBoundInv,
       RotateKeepsBoundInv
  <2> QED BY <2>1, <2>2
<1>3. ASSUME NEW n \in Names, Damage(n) PROVE BoundInv'
  <2>1. /\ lock = Nobody /\ state[n] = "verified" /\ faults' = faults + 1
        /\ state' = [state EXCEPT ![n] = "broken"] /\ pc' = pc
    BY <1>3 DEF Damage, Fault, locals
  <2>2. Complete' \subseteq Complete /\ Complete \in SUBSET Names
    BY <2>1 DEF Inv, TypeOK, Complete, In
  <2>3. Cardinality(Complete') <= Cardinality(Complete) /\ Cardinality(Complete') \in Nat
    BY <2>2, FewerIsLess, NamesAreFinite
  <2>4. Cardinality(Complete') <= Keep + faults + 1
    BY <2>3, CountsAreNumbers DEF BoundInv
  <2>5. \A q \in Procs : HeadPlace(q)'
    BY <2>1, OnlyOneWorks DEF HeadPlace
  <2> QED BY <2>1, <2>4, <2>5, FaultKeepsBound
<1>4. ASSUME UNCHANGED vars PROVE BoundInv'
  <2>1. UNCHANGED <<state, prev, latest, pc, cur, doomed, faults>>
    BY <1>4 DEF vars, disk, locals
  <2>2. Complete' = Complete /\ Staying' = Staying
    BY <2>1 DEF Complete, In, Staying
  <2>3. Head(Complete)' = Head(Complete) /\ OneHead(Staying)' = OneHead(Staying)
    BY <2>1, <2>2 DEF Head, OneHead
  <2>4. \A q \in Procs : HeadPlace(q)' = HeadPlace(q) /\ Fresh(q)' = Fresh(q)
    BY <2>1, <2>3 DEF HeadPlace, Fresh
  <2> QED BY <2>1, <2>2, <2>3, <2>4 DEF BoundInv
<1> QED BY <1>2, <1>3, <1>4 DEF Next

\* At rest the repository holds at most keep_snapshots verified snapshots, and one more
\* for each fault that kept rotation or the link from doing its work.
THEOREM VerifiedAreBounded == Spec => []VerifiedBounded
<1>1. Init => BoundInv
  <2> SUFFICES ASSUME Init PROVE BoundInv
    OBVIOUS
  <2>1. Complete = {} /\ Staying = {}
    BY DEF Init, Complete, In, Staying
  <2>2. Cardinality({}) = 0
    BY FS_EmptySet
  <2>3. Cardinality(Complete) <= Keep + faults + 1 /\ Cardinality(Staying) <= Keep + faults
    BY <2>1, <2>2, RepositoryAssumption DEF Init
  <2>4. OneHead(Staying)
    BY <2>1 DEF OneHead
  <2>5. \A p \in Procs : HeadPlace(p)
    BY DEF Init, HeadPlace
  <2> QED BY <2>3, <2>4, <2>5 DEF BoundInv
<1>2. Inv /\ BoundInv => VerifiedBounded
  <2> SUFFICES ASSUME Inv, BoundInv, lock = Nobody
               PROVE  Cardinality(Complete) <= Keep + faults
    BY DEF VerifiedBounded
  <2>1. \A p \in Procs : pc[p] = "idle"
    BY OnlyOneWorks
  <2>2. \A p \in Procs : doomed[p] = {} /\ ~ Fresh(p)
    BY <2>1 DEF Inv, ProcInv, Fresh
  <2> QED BY <2>2, StayingFacts DEF BoundInv
<1> QED
  BY InvHolds, OrderHolds, <1>1, <1>2, NextKeepsBoundInv, PTL DEF Spec
==============================================================================
