-------------------------- MODULE StopWindowProofs ---------------------------
(***************************************************************************)
(* Proofs about StopWindow: whatever timeouts Config.validate accepts, a   *)
(* hold under way at SIGTERM ends inside the stop window.  The argument    *)
(* is a budget: Spent bounds the seconds since SIGTERM by the longest that *)
(* the phases of this hold before the present one may have taken, and what *)
(* the present one may still take does not reach the window, unless the    *)
(* cut, which has no bound, took more than its share.                      *)
(***************************************************************************)
EXTENDS StopWindow, TLAPS

\* The budget of a hold the signal found under way.
Spent ==
  spent # Running /\ ~late =>
    /\ phase = "hold" => spent <= 0
    /\ phase = "copy" => spent <= config.ready + 10
    /\ phase = "cut" => spent <= config.ready + 310
    /\ phase = "resume" => spent <= config.ready + 310 + cut

\* A killed watcher takes no step.
Dead == killedIn # "none" => phase = "killed"

Inv == TypeOK /\ Spent /\ Dead /\ HoldUnderWayIsResumed

\* What a configuration promises: integers in their ranges, the sum bounded.
LEMMA ConfigBounds ==
  ASSUME NEW c \in Configs
  PROVE  /\ c.ready \in 1..300 /\ c.resume \in 1..300 /\ c.verification \in 1..300
         /\ c.list \in 1..300
         /\ c.ready + c.resume <= 119
         /\ c.attempts \in 1..3
<1>1. /\ c \in [ready : Timeouts \cap 1..300, resume : Timeouts \cap 1..300,
                list : Timeouts \cap 1..300, verification : Timeouts \cap 1..300,
                attempts : 1..3]
      /\ c.ready + c.resume + c.list <= 120
  BY DEF Configs, Valid, SumLimit
<1>2. /\ c.ready \in 1..300 /\ c.resume \in 1..300 /\ c.list \in 1..300
      /\ c.verification \in 1..300 /\ c.attempts \in 1..3
  BY <1>1
<1>3. \A x, y, z \in 1..300 : x + y + z <= 120 => x + y <= 119
  OBVIOUS
<1>. QED  BY <1>1, <1>2, <1>3

LEMMA LongestIs ==
  ASSUME TypeOK
  PROVE  /\ Longest.hold = config.ready + 10
         /\ Longest.copy = 300
         /\ Longest.cut = CutMax
         /\ Longest.resume = config.resume + 23
<1>1. config.resume \in Int /\ config.ready \in Int
  BY ConfigBounds DEF TypeOK
<1>2. 10 + 2 + config.resume + 10 + 1 = config.resume + 23
  BY ONLY <1>1
<1>3. Longest.resume = 10 + 2 + config.resume + 10 + 1
  BY DEF Longest, JournalTimeout, ResumeRetries
<1>4. /\ Longest.hold = config.ready + 10
      /\ Longest.copy = 300
      /\ Longest.cut = CutMax
  BY DEF Longest, JournalTimeout, RsyncTimeout
<1>. QED  BY <1>2, <1>3, <1>4

LEMMA LongestNat ==
  ASSUME TypeOK
  PROVE  \A p \in Phases : Longest[p] \in Nat
<1>1. /\ config.ready \in Nat /\ config.resume \in Nat /\ config.verification \in Nat
      /\ config.list \in Nat
  BY ConfigBounds DEF TypeOK
<1>2. CutMax \in Nat /\ HashMax \in Nat
  BY StopWindowAssumption
<1>. QED  BY <1>1, <1>2 DEF Longest, Phases, Held, JournalTimeout, RsyncTimeout,
               ResumeRetries, ShutdownTimeout

\* A phase that ends inside the window adds at most its longest.
LEMMA TakesAdds ==
  ASSUME TypeOK, NEW p \in Phases, Takes(p)
  PROVE  /\ config' = config /\ killedIn' = killedIn /\ phase = p
         /\ spent' \in -1..Window
         /\ spent' # Running <=> spent # Running
         /\ spent # Running => spent' <= spent + Longest[p]
         /\ spent' - spent \in 0..Window
<1>. DEFINE L == Longest[p]
<1>1. L \in Nat
  BY LongestNat
<1>2. PICK d \in (Durations \cap 0..L) \cup {L} :
        IF spent = Running THEN UNCHANGED spent
        ELSE spent + d <= Window /\ spent' = spent + d
  BY DEF Takes
<1>3. d \in Nat /\ d <= L
  BY <1>1, <1>2, StopWindowAssumption
<1>4. spent \in -1..600
  BY DEF TypeOK, Window
<1>. HIDE DEF L
<1>5. CASE spent = Running
  <2>1. spent' = spent
    BY <1>2, <1>5
  <2>2. spent' - spent = 0
    BY ONLY <1>4, <2>1
  <2>3. spent' - spent \in 0..Window
    BY <2>2 DEF Window
  <2>4. config' = config /\ killedIn' = killedIn /\ phase = p
    BY DEF Takes
  <2>. QED  BY <1>5, <2>1, <2>3, <2>4 DEF TypeOK
<1>6. CASE spent # Running
  <2>1. spent + d <= 600 /\ spent' = spent + d
    BY <1>2, <1>6 DEF Window
  <2>2. spent \in 0..600
    BY <1>4, <1>6 DEF Running
  <2>3. spent' \in 0..600 /\ spent' <= spent + L /\ spent' - spent \in 0..600
    BY <1>1, <1>3, <2>1, <2>2
  <2>4. /\ spent' \in -1..Window /\ spent' # Running
        /\ spent' - spent \in 0..Window
    BY <2>3 DEF Window, Running
  <2>5. config' = config /\ killedIn' = killedIn /\ phase = p
    BY DEF Takes
  <2>6. spent' <= spent + Longest[p]
    BY <2>3 DEF L
  <2>. QED  BY <1>6, <2>4, <2>5, <2>6
<1>. QED  BY <1>5, <1>6

------------------------------------------------------------------------------
LEMMA InitInv == Init => Inv
<1>. SUFFICES ASSUME Init PROVE Inv
  OBVIOUS
<1>1. TypeOK
  <2>1. spent \in -1..Window
    BY DEF Init, Running, Window
  <2>2. phase \in Phases /\ killedIn \in Phases \cup {"none"}
    BY DEF Init, Phases
  <2>3. late \in BOOLEAN
    BY DEF Init
  <2>4. cut \in 0..Window
    BY DEF Init, Window
  <2>. QED  BY <2>1, <2>2, <2>3, <2>4 DEF Init, TypeOK
<1>2. Spent
  BY DEF Init, Spent
<1>3. HoldUnderWayIsResumed /\ Dead
  BY DEF Init, HoldUnderWayIsResumed, Held, Dead
<1>. QED  BY <1>1, <1>2, <1>3 DEF Inv

\* The steps that leave the time alone.
LEMMA DueInv ==
  ASSUME Inv, Due
  PROVE  Inv'
<1>1. TypeOK'
  BY DEF Inv, Due, TypeOK, Phases
<1>2. Spent'
  BY DEF Due, Spent
<1>3. Dead' /\ HoldUnderWayIsResumed'
  BY DEF Inv, Due, Dead, HoldUnderWayIsResumed
<1>. QED  BY <1>1, <1>2, <1>3 DEF Inv

LEMMA LoopEndsInv ==
  ASSUME Inv, LoopEnds
  PROVE  Inv'
<1>1. TypeOK'
  BY DEF Inv, LoopEnds, TypeOK, Phases
<1>2. Spent'
  BY DEF LoopEnds, Spent
<1>3. Dead' /\ HoldUnderWayIsResumed'
  BY DEF Inv, LoopEnds, Dead, HoldUnderWayIsResumed
<1>. QED  BY <1>1, <1>2, <1>3 DEF Inv

LEMMA QueryInv ==
  ASSUME Inv, Query
  PROVE  Inv'
<1>1. /\ config' = config /\ killedIn' = killedIn /\ phase = "query"
      /\ spent' \in -1..Window
  BY TakesAdds DEF Query, Inv, Phases
<1>2. /\ phase' \in {"before", "loop"} /\ attempt' \in {attempt, 1}
      /\ failure' = failure /\ late' = late /\ cut' = cut
  BY DEF Query
<1>3. TypeOK'
  BY <1>1, <1>2 DEF Inv, TypeOK, Phases
<1>4. Spent'
  BY <1>2 DEF Spent
<1>5. Dead' /\ HoldUnderWayIsResumed'
  BY <1>1, <1>2 DEF Inv, Dead, HoldUnderWayIsResumed
<1>. QED  BY <1>3, <1>4, <1>5 DEF Inv

LEMMA LeaveTypes ==
  ASSUME NEW place \in {"loop", "query"}, Leave(place)
  PROVE  /\ phase' \in Phases /\ phase' \in {"loop", "query"}
         /\ attempt' \in 0..3 /\ failure' \in {"none", "error"} /\ late' \in BOOLEAN
<1>1. late' \in BOOLEAN
  BY DEF Leave
<1>. QED  BY <1>1 DEF Leave, Phases

LEMMA BeforeInv ==
  ASSUME Inv, Before
  PROVE  Inv'
<1>1. /\ config' = config /\ killedIn' = killedIn /\ phase = "before"
      /\ spent' \in -1..Window /\ (spent' # Running <=> spent # Running) /\ cut' = cut
  BY TakesAdds DEF Before, Inv, Phases
<1>2. \/ /\ phase' = "hold" /\ late' = (spent # Running)
         /\ attempt' = attempt /\ failure' = failure
      \/ Leave("loop")
  BY DEF Before, Raise
<1>3. TypeOK'
  BY <1>1, <1>2, LeaveTypes DEF Inv, TypeOK, Phases, Held
<1>4. Spent'
  BY <1>1, <1>2, LeaveTypes DEF Spent
<1>5. Dead' /\ HoldUnderWayIsResumed'
  BY <1>1 DEF Inv, Dead, HoldUnderWayIsResumed, Held
<1>. QED  BY <1>3, <1>4, <1>5 DEF Inv

LEMMA HoldInv ==
  ASSUME Inv, Hold
  PROVE  Inv'
<1>1. /\ config' = config /\ killedIn' = killedIn /\ phase = "hold"
      /\ spent' \in -1..Window /\ (spent' # Running <=> spent # Running)
      /\ spent # Running => spent' <= spent + (config.ready + 10)
  BY TakesAdds, LongestIs DEF Hold, Inv, Phases, Held
<1>2. /\ phase' \in {"copy", "resume"} /\ failure' \in {failure, "error"}
      /\ attempt' = attempt /\ late' = late /\ cut' = cut
  BY DEF Hold
<1>3. TypeOK'
  BY <1>1, <1>2 DEF Inv, TypeOK, Phases, Held
<1>4. Spent'
  <2>1. spent # Running /\ ~late => spent <= 0
    BY <1>1 DEF Inv, Spent
  <2>2. config.ready \in Nat /\ cut \in Nat /\ spent \in Int /\ spent' \in Int
    BY <1>1, ConfigBounds DEF Inv, TypeOK, Window
  <2>3. spent # Running /\ ~late => spent' <= config.ready + 10
    BY <1>1, <2>1, <2>2
  <2>. QED  BY <1>1, <1>2, <2>2, <2>3 DEF Spent
<1>5. Dead' /\ HoldUnderWayIsResumed'
  BY <1>1, <1>2 DEF Inv, Dead, HoldUnderWayIsResumed
<1>. QED  BY <1>3, <1>4, <1>5 DEF Inv

LEMMA CopyInv ==
  ASSUME Inv, Copy
  PROVE  Inv'
<1>1. /\ config' = config /\ killedIn' = killedIn /\ phase = "copy"
      /\ spent' \in -1..Window /\ (spent' # Running <=> spent # Running)
      /\ spent # Running => spent' <= spent + 300
  BY TakesAdds, LongestIs DEF Copy, Inv, Phases, Held
<1>2. /\ phase' \in {"cut", "resume"} /\ failure' \in {failure, "error"}
      /\ attempt' = attempt /\ late' = late /\ cut' = cut
  BY DEF Copy
<1>3. TypeOK'
  BY <1>1, <1>2 DEF Inv, TypeOK, Phases, Held
<1>4. Spent'
  <2>1. spent # Running /\ ~late => spent <= config.ready + 10
    BY <1>1 DEF Inv, Spent
  <2>2. config.ready \in Nat /\ cut \in Nat /\ spent \in Int /\ spent' \in Int
    BY <1>1, ConfigBounds DEF Inv, TypeOK, Window
  <2>3. spent # Running /\ ~late => spent' <= config.ready + 310
    BY <1>1, <2>1, <2>2
  <2>. QED  BY <1>1, <1>2, <2>2, <2>3 DEF Spent
<1>5. Dead' /\ HoldUnderWayIsResumed'
  BY <1>1, <1>2 DEF Inv, Dead, HoldUnderWayIsResumed
<1>. QED  BY <1>3, <1>4, <1>5 DEF Inv

LEMMA CutInv ==
  ASSUME Inv, Cut
  PROVE  Inv'
<1>1. /\ config' = config /\ killedIn' = killedIn /\ phase = "cut"
      /\ spent' \in -1..Window /\ (spent' # Running <=> spent # Running)
      /\ spent' - spent \in 0..Window
  BY TakesAdds DEF Cut, Inv, Phases, Held
<1>2. /\ phase' = "resume" /\ failure' \in {"none", "error"}
      /\ attempt' = attempt /\ late' = late /\ cut' = spent' - spent
  BY DEF Cut
<1>3. TypeOK'
  BY <1>1, <1>2 DEF Inv, TypeOK, Phases, Held
<1>4. Spent'
  <2>1. spent # Running /\ ~late => spent <= config.ready + 310
    BY <1>1 DEF Inv, Spent
  <2>2. config.ready \in Nat /\ spent \in Int /\ spent' \in Int
    BY <1>1, ConfigBounds DEF Inv, TypeOK, Window
  <2>3. spent # Running /\ ~late => spent' <= config.ready + 310 + cut'
    BY <1>2, <2>1, <2>2
  <2>. QED  BY <1>1, <1>2, <2>3 DEF Spent
<1>5. Dead' /\ HoldUnderWayIsResumed'
  BY <1>1, <1>2 DEF Inv, Dead, HoldUnderWayIsResumed, Held
<1>. QED  BY <1>3, <1>4, <1>5 DEF Inv

LEMMA ResumeInv ==
  ASSUME Inv, Resume
  PROVE  Inv'
<1>1. /\ config' = config /\ killedIn' = killedIn /\ phase = "resume"
      /\ spent' \in -1..Window
  BY TakesAdds DEF Resume, Inv, Phases, Held
<1>2. /\ phase' \in {"validate", "loop"} /\ attempt' \in {attempt, 0}
      /\ failure' \in {failure, "none"} /\ late' \in BOOLEAN /\ cut' = cut
  BY DEF Resume, Raise, Leave
<1>3. TypeOK'
  BY <1>1, <1>2 DEF Inv, TypeOK, Phases
<1>4. Spent'
  BY <1>2 DEF Spent
<1>5. Dead' /\ HoldUnderWayIsResumed'
  BY <1>1 DEF Inv, Dead, HoldUnderWayIsResumed, Held
<1>. QED  BY <1>3, <1>4, <1>5 DEF Inv

LEMMA ValidateInv ==
  ASSUME Inv, Validate
  PROVE  Inv'
<1>1. /\ config' = config /\ killedIn' = killedIn /\ phase = "validate"
      /\ spent' \in -1..Window
  BY TakesAdds DEF Validate, Inv, Phases, Held
<1>2. /\ phase' \in {"before", "loop", "query"} /\ failure' = "none" /\ late' \in BOOLEAN
      /\ attempt' = 0 \/ (attempt' = attempt + 1 /\ attempt < config.attempts)
      /\ cut' = cut
  BY DEF Validate, Raise, Return, Leave, Inv, TypeOK
<1>3. attempt' \in 0..3
  <2>1. attempt \in 0..3 /\ config.attempts \in 1..3
    BY ConfigBounds DEF Inv, TypeOK
  <2>. QED  BY <1>2, <2>1
<1>4. TypeOK'
  BY <1>1, <1>2, <1>3 DEF Inv, TypeOK, Phases
<1>5. Spent'
  BY <1>2 DEF Spent
<1>6. Dead' /\ HoldUnderWayIsResumed'
  BY <1>1 DEF Inv, Dead, HoldUnderWayIsResumed, Held
<1>. QED  BY <1>4, <1>5, <1>6 DEF Inv

LEMMA TerminateInv ==
  ASSUME Inv, Terminate
  PROVE  Inv'
<1>1. /\ config' = config /\ killedIn' = killedIn /\ spent = Running /\ spent' = 0
      /\ phase # "stopped" /\ cut' = cut
  BY DEF Terminate
<1>2. \/ phase' = phase /\ attempt' = attempt /\ late' = late /\ failure' \in {failure, "error"}
      \/ phase \in {"query", "before"} /\ Leave("loop")
      \/ /\ phase \in {"hold", "copy"} /\ phase' = "resume" /\ failure' = "error"
         /\ attempt' = attempt /\ late' = late
  BY DEF Terminate, Raise
<1>3. TypeOK'
  BY <1>1, <1>2, LeaveTypes DEF Inv, TypeOK, Phases, Held, Window
<1>4. Spent'
  <2>1. config.ready \in Nat /\ cut \in Nat
    BY ConfigBounds DEF Inv, TypeOK
  <2>2. /\ 0 <= config.ready + 10 /\ 0 <= config.ready + 310
        /\ 0 <= config.ready + 310 + cut
    BY <2>1
  <2>. QED  BY <1>1, <2>2 DEF Spent
<1>5. Dead'
  BY <1>1, <1>2 DEF Inv, Dead
<1>6. HoldUnderWayIsResumed'
  BY <1>1, <1>2 DEF Inv, Dead, HoldUnderWayIsResumed, Held
<1>. QED  BY <1>3, <1>4, <1>5, <1>6 DEF Inv

LEMMA CutBudgetIs == CutBudget = 148
  BY DEF CutBudget, Window, JournalTimeout, RsyncTimeout, ResumeRetries, SumLimit

\* Where SIGKILL can still find the hold, and what the cut must then have taken.
LEMMA Budget ==
  ASSUME NEW ready \in Int, NEW resume \in Int, NEW c \in Int, NEW s \in Int,
         ready >= 1, resume >= 1, ready + resume <= 119
  PROVE  /\ s <= 0 => ~(s + (ready + 10) > 600)
         /\ s <= ready + 10 => ~(s + 300 > 600)
         /\ s <= ready + 310 => 600 - s > 148
         /\ s <= ready + 310 + c /\ s + (resume + 23) > 600 => c > 148
  OBVIOUS

\* The budget: what is left of a hold under way ends before the window does.
LEMMA KillInv ==
  ASSUME Inv, Kill
  PROVE  Inv'
<1>1. /\ config' = config /\ spent' = spent /\ phase' = "killed" /\ killedIn' = phase
      /\ attempt' = attempt /\ failure' = failure /\ late' = late
      /\ cut' = (IF phase = "cut" THEN 600 - spent ELSE cut)
      /\ spent # Running /\ spent + Longest[phase] > 600
  BY DEF Kill, Window
<1>2. TypeOK'
  <2>1. spent \in 0..600
    BY <1>1 DEF Inv, TypeOK, Window, Running
  <2>2. 600 - spent \in 0..600
    BY ONLY <2>1
  <2>3. cut' \in 0..Window
    BY <1>1, <2>2 DEF Inv, TypeOK, Window
  <2>. QED  BY <1>1, <2>3 DEF Inv, TypeOK, Phases
<1>3. Spent'
  BY <1>1 DEF Spent
<1>4. Dead'
  BY <1>1 DEF Dead
<1>5. HoldUnderWayIsResumed'
  <2>. SUFFICES ASSUME phase \in Held, ~late PROVE cut' > 148
    BY <1>1, CutBudgetIs DEF HoldUnderWayIsResumed, Inv, TypeOK
  <2>1. /\ config.ready \in Int /\ config.resume \in Int /\ cut \in Int /\ spent \in Int
        /\ config.ready >= 1 /\ config.resume >= 1 /\ config.ready + config.resume <= 119
    BY ConfigBounds DEF Inv, TypeOK, Window
  <2>2. CASE phase = "hold"
    <3>1. spent <= 0 /\ spent + (config.ready + 10) > 600
      BY <1>1, <2>2, LongestIs DEF Inv, Spent
    <3>. QED  BY <2>1, <3>1, Budget
  <2>3. CASE phase = "copy"
    <3>1. spent <= config.ready + 10 /\ spent + 300 > 600
      BY <1>1, <2>3, LongestIs DEF Inv, Spent
    <3>. QED  BY <2>1, <3>1, Budget
  <2>4. CASE phase = "cut"
    <3>1. spent <= config.ready + 310 /\ cut' = 600 - spent
      BY <1>1, <2>4 DEF Inv, Spent
    <3>. QED  BY <2>1, <3>1, Budget
  <2>5. CASE phase = "resume"
    <3>1. /\ spent <= config.ready + 310 + cut /\ cut' = cut
          /\ spent + (config.resume + 23) > 600
      BY <1>1, <2>5, LongestIs DEF Inv, Spent
    <3>. QED  BY <2>1, <3>1, Budget
  <2>. QED  BY <2>2, <2>3, <2>4, <2>5 DEF Held
<1>. QED  BY <1>2, <1>3, <1>4, <1>5 DEF Inv

LEMMA NextInv == Inv /\ [Next]_vars => Inv'
<1>. SUFFICES ASSUME Inv, [Next]_vars PROVE Inv'
  OBVIOUS
<1>1. CASE UNCHANGED vars
  BY <1>1 DEF Inv, TypeOK, Spent, Dead, HoldUnderWayIsResumed, vars
<1>2. CASE Next
  BY <1>2, DueInv, QueryInv, LoopEndsInv, BeforeInv, HoldInv, CopyInv, CutInv, ResumeInv,
     ValidateInv, TerminateInv, KillInv DEF Next
<1>. QED  BY <1>1, <1>2

LEMMA InvHolds == Spec => []Inv
<1>. QED  BY InitInv, NextInv, PTL DEF Spec

\* Type correctness: attempts and the window are never exceeded.
THEOREM TypeCorrect == Spec => []TypeOK
<1>1. Inv => TypeOK
  BY DEF Inv
<1>. QED  BY <1>1, InvHolds, PTL

\* Whatever the accepted configuration and however long each phase takes, if
\* SIGKILL finds a hold that SIGTERM found under way, cutting and syncing its
\* copy alone took more than 148 seconds of the window.
THEOREM HoldIsResumed == Spec => []HoldUnderWayIsResumed
<1>1. Inv => HoldUnderWayIsResumed
  BY DEF Inv
<1>. QED  BY <1>1, InvHolds, PTL
=============================================================================
