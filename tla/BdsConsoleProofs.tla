--------------------------- MODULE BdsConsoleProofs ---------------------------
(***************************************************************************)
(* What the console guarantees for every number of players, queries and    *)
(* faults and every size of the FIFO.  The first parts hold for a BDS of   *)
(* any promptness, the last for one that answers within the timeouts.      *)
(***************************************************************************)
EXTENDS BdsConsole, SequenceTheorems, TLAPS

------------------------------------------------------------------------------
(***************************************************************************)
(* Types.                                                                  *)
(***************************************************************************)

LEMMA EndKeepsTypes ==
  ASSUME TypeOK, End, ConsoleAssumption
  PROVE  /\ pc' \in Places /\ journal' \in Seq(Lines)
         /\ queries' \in 0..MaxQueries /\ tries' \in 0..ResumeAttempts
         /\ confirm' \in BOOLEAN /\ sound' \in BOOLEAN /\ count' \in 0..MaxPlayers
         /\ restarted' \in BOOLEAN /\ since' \subseteq 0..MaxPlayers
<1>1. pc' \in Places /\ journal' \in Seq(Lines)
  BY DEF TypeOK, End, Goto, Places
<1>2. queries' \in 0..MaxQueries /\ tries' \in 0..ResumeAttempts
  BY DEF End, ConsoleAssumption, ResumeAttempts
<1>3. confirm' \in BOOLEAN
  BY DEF End
<1>4. sound' \in BOOLEAN
  BY DEF End
<1>5. count' \in 0..MaxPlayers
  BY DEF End, ConsoleAssumption
<1>6. restarted' \in BOOLEAN /\ since' \subseteq 0..MaxPlayers
  BY DEF End
<1> QED BY <1>1, <1>2, <1>3, <1>4, <1>5, <1>6

LEMMA SendKeepsTypes ==
  ASSUME TypeOK, NEW command \in Commands, Send(command)
  PROVE  fifo' \in Seq(Commands)
BY DEF TypeOK, Send

LEMMA SendRaisesKeepsTypes ==
  ASSUME TypeOK, NEW command \in Commands, SendRaises(command)
  PROVE  fifo' \in Seq(Commands) /\ faults' \in Nat
<1>1. fifo' \in Seq(Commands)
  <2>1. CASE UNCHANGED fifo
    BY <2>1 DEF TypeOK
  <2>2. CASE Send(command)
    BY <2>2, SendKeepsTypes
  <2> QED BY <2>1, <2>2 DEF SendRaises
<1>2. faults' \in Nat
  BY DEF TypeOK, SendRaises, Fault
<1> QED BY <1>1, <1>2

LEMMA CommandsSent ==
  {"list", "save hold", "save query", "save resume"} \subseteq Commands
BY DEF Commands

LEMMA TakeKeepsTypes ==
  ASSUME TypeOK, NEW command, Take(command)
  PROVE  fifo' \in Seq(Commands)
BY DEF TypeOK, Take

LEMMA PrintsKeepsTypes ==
  ASSUME TypeOK, NEW lines \in Seq(Lines), Prints(lines)
  PROVE  output' \in Seq(Lines)
BY DEF TypeOK, Prints

LEMMA InitTypes == ConsoleAssumption /\ Init => TypeOK
<1> SUFFICES ASSUME ConsoleAssumption, Init
             PROVE  TypeOK
  OBVIOUS
<1>1. pc \in Places /\ journal \in Seq(Lines) /\ fifo \in Seq(Commands) /\ output \in Seq(Lines)
  BY DEF Init, Places
<1>2. queries \in 0..MaxQueries /\ tries \in 0..ResumeAttempts /\ count \in 0..MaxPlayers
      /\ players \in 0..MaxPlayers /\ faults \in Nat
  BY DEF Init, ConsoleAssumption, ResumeAttempts
<1>3. confirm \in BOOLEAN
  BY DEF Init
<1>4. sound \in BOOLEAN
  BY DEF Init
<1>5. up \in BOOLEAN
  BY DEF Init
<1>6. restarted \in BOOLEAN
  BY DEF Init
<1>7. abandoned \in BOOLEAN
  BY DEF Init
<1>8. save \in {"free", "saving", "ready"} /\ since \subseteq 0..MaxPlayers
  BY DEF Init
<1> QED BY <1>1, <1>2, <1>3, <1>4, <1>5, <1>6, <1>7, <1>8 DEF TypeOK

LEMMA NextKeepsTypes == ConsoleAssumption /\ TypeOK /\ [Next]_vars => TypeOK'
<1> SUFFICES ASSUME ConsoleAssumption, TypeOK
             PROVE  [Next]_vars => TypeOK'
  OBVIOUS
<1> USE DEF TypeOK
<1>1. ASSUME BeginList PROVE TypeOK'
  BY <1>1 DEF BeginList, Begin, Goto, Places, server
<1>2. ASSUME BeginPause PROVE TypeOK'
  BY <1>2 DEF BeginPause, Begin, Goto, Places, server
<1>3. ASSUME ListCursor PROVE TypeOK'
  BY <1>3 DEF ListCursor, TakeCursor, Goto, Places, server, observed
<1>4. ASSUME HoldCursor PROVE TypeOK'
  BY <1>4 DEF HoldCursor, TakeCursor, Goto, Places, server, observed
<1>5. ASSUME SendList PROVE TypeOK'
  <2>1. fifo' \in Seq(Commands)
    BY <1>5, SendKeepsTypes, CommandsSent DEF SendList
  <2> QED BY <1>5, <2>1 DEF SendList, Goto, Places, observed
<1>6. ASSUME SendHold PROVE TypeOK'
  <2>1. fifo' \in Seq(Commands)
    BY <1>6, SendKeepsTypes, CommandsSent DEF SendHold
  <2> QED BY <1>6, <2>1 DEF SendHold, Goto, Places, observed
<1>7. ASSUME SendResume PROVE TypeOK'
  <2>1. fifo' \in Seq(Commands)
    BY <1>7, SendKeepsTypes, CommandsSent DEF SendResume
  <2> QED BY <1>7, <2>1 DEF SendResume, Goto, Places, observed
<1>8. ASSUME SendQuery PROVE TypeOK'
  <2>1. fifo' \in Seq(Commands)
    BY <1>8, SendKeepsTypes, CommandsSent DEF SendQuery
  <2>2. queries \in 0..MaxQueries /\ MaxQueries \in Nat
    BY DEF ConsoleAssumption
  <2>3. queries' = queries + 1 /\ queries < MaxQueries
    BY <1>8 DEF SendQuery
  <2>4. queries' \in 0..MaxQueries
    BY ONLY <2>2, <2>3
  <2> QED BY <1>8, <2>1, <2>4 DEF SendQuery, Goto, Places, observed
<1>9. ASSUME ReadCount PROVE TypeOK'
  <2>1. count' \in 0..MaxPlayers
    BY <1>9 DEF ReadCount, Lines, Line
  <2> QED BY <1>9, <2>1 DEF ReadCount, Goto, Places, server, observed
<1>10. ASSUME ListRaises PROVE TypeOK'
  <2>1. CASE SendRaises("list")
    BY <1>10, <2>1, SendRaisesKeepsTypes, EndKeepsTypes, CommandsSent DEF ListRaises
  <2>2. CASE Fault /\ UNCHANGED fifo
    BY <1>10, <2>2, EndKeepsTypes DEF ListRaises, Fault
  <2>3. CASE UNCHANGED <<fifo, faults>>
    BY <1>10, <2>3, EndKeepsTypes DEF ListRaises
  <2> QED BY <1>10, <2>1, <2>2, <2>3 DEF ListRaises
<1>11. ASSUME HoldCursorRaises PROVE TypeOK'
  BY <1>11, EndKeepsTypes DEF HoldCursorRaises, Fault, server
<1>12. ASSUME ReadReady PROVE TypeOK'
  BY <1>12 DEF ReadReady, Goto, Places, server, observed
<1>13. ASSUME CopyDone PROVE TypeOK'
  BY <1>13 DEF CopyDone, Goto, Places, server, observed
<1>14. ASSUME BodyRaises PROVE TypeOK'
  <2>1. fifo' \in Seq(Commands) /\ faults' \in Nat
    <3>1. CASE SendRaises("save hold") \/ SendRaises("save query")
      BY <3>1, SendRaisesKeepsTypes, CommandsSent
    <3>2. CASE Fault /\ UNCHANGED fifo
      BY <3>2 DEF Fault
    <3>3. CASE UNCHANGED <<fifo, faults>>
      BY <3>3
    <3> QED BY <1>14, <3>1, <3>2, <3>3 DEF BodyRaises, BodyFails
  <2>2. sound' \in BOOLEAN
    BY <1>14 DEF BodyRaises
  <2> QED BY <1>14, <2>1, <2>2 DEF BodyRaises, Goto, Places
<1>15. ASSUME ResumeCursor PROVE TypeOK'
  <2>1. confirm' \in BOOLEAN
    BY <1>15 DEF ResumeCursor
  <2>2. CASE TakeCursor /\ UNCHANGED faults
    BY <1>15, <2>1, <2>2 DEF ResumeCursor, TakeCursor, Goto, Places, server
  <2>3. CASE UNCHANGED journal /\ Fault
    BY <1>15, <2>1, <2>3 DEF ResumeCursor, Fault, Goto, Places, server
  <2> QED BY <1>15, <2>2, <2>3 DEF ResumeCursor
<1>16. ASSUME ResumeRefused PROVE TypeOK'
  <2>1. fifo' \in Seq(Commands) /\ faults' \in Nat
    BY <1>16, SendRaisesKeepsTypes, CommandsSent DEF ResumeRefused
  <2>2. tries' \in 0..ResumeAttempts
    <3>1. tries' = tries + 1 /\ tries' < 3 /\ tries \in 0..3
      BY <1>16 DEF ResumeRefused, ResumeAttempts
    <3> QED BY ONLY <3>1 DEF ResumeAttempts
  <2> QED BY <1>16, <2>1, <2>2 DEF ResumeRefused
<1>17. ASSUME ResumeGivenUp PROVE TypeOK'
  <2>1. fifo' \in Seq(Commands) /\ faults' \in Nat
    BY <1>17, SendRaisesKeepsTypes, CommandsSent DEF ResumeGivenUp
  <2> QED BY <1>17, <2>1, EndKeepsTypes DEF ResumeGivenUp
<1>18. ASSUME Resumed PROVE TypeOK'
  <2>1. CASE sound
    BY <1>18, <2>1 DEF Resumed, Goto, Places, server
  <2>2. CASE ~sound
    BY <1>18, <2>2, EndKeepsTypes DEF Resumed, server
  <2> QED BY <2>1, <2>2
<1>19. ASSUME ResumeNotConfirmed PROVE TypeOK'
  BY <1>19, EndKeepsTypes DEF ResumeNotConfirmed, Fault, server
<1>20. ASSUME Return PROVE TypeOK'
  BY <1>20, EndKeepsTypes DEF Return, server
<1>21. ASSUME Crash PROVE TypeOK'
  <2>1. abandoned' \in BOOLEAN
    BY <1>21 DEF Crash
  <2> QED BY <1>21, <2>1, EndKeepsTypes DEF Crash, Fault, server
<1>22. ASSUME ExecuteList PROVE TypeOK'
  <2>1. fifo' \in Seq(Commands)
    BY <1>22, TakeKeepsTypes DEF ExecuteList
  <2>2. output' \in Seq(Lines)
    <3>1. <<[text |-> "players", count |-> players]>> \in Seq(Lines)
      BY DEF Lines
    <3> QED BY <1>22, <3>1, PrintsKeepsTypes DEF ExecuteList
  <2> QED BY <1>22, <2>1, <2>2 DEF ExecuteList, caller, observed
<1>23. ASSUME ExecuteHold PROVE TypeOK'
  <2>1. fifo' \in Seq(Commands)
    BY <1>23, TakeKeepsTypes DEF ExecuteHold
  <2> QED BY <1>23, <2>1 DEF ExecuteHold, caller, observed
<1>24. ASSUME ExecuteQuery PROVE TypeOK'
  <2>1. fifo' \in Seq(Commands)
    BY <1>24, TakeKeepsTypes DEF ExecuteQuery
  <2>2. output' \in Seq(Lines)
    <3>1. <<Line("ready"), Line("files")>> \in Seq(Lines)
      BY DEF Lines
    <3> QED BY <1>24, <3>1, PrintsKeepsTypes DEF ExecuteQuery
  <2> QED BY <1>24, <2>1, <2>2 DEF ExecuteQuery, caller, observed
<1>25. ASSUME ExecuteResume PROVE TypeOK'
  <2>1. fifo' \in Seq(Commands)
    BY <1>25, TakeKeepsTypes DEF ExecuteResume
  <2>2. output' \in Seq(Lines)
    <3>1. <<Line("resumed")>> \in Seq(Lines)
      BY DEF Lines
    <3> QED BY <1>25, <3>1, PrintsKeepsTypes DEF ExecuteResume
  <2>3. abandoned' \in BOOLEAN
    BY <1>25 DEF ExecuteResume
  <2> QED BY <1>25, <2>1, <2>2, <2>3 DEF ExecuteResume, caller, observed
<1>26. ASSUME Flushed PROVE TypeOK'
  BY <1>26 DEF Flushed, caller, observed
<1>27. ASSUME Stored PROVE TypeOK'
  BY <1>27 DEF Stored, observed
<1>28. ASSUME PlayersChange PROVE TypeOK'
  BY <1>28 DEF PlayersChange, caller
<1>29. ASSUME ServerDies PROVE TypeOK'
  <2>1. up' \in BOOLEAN
    BY <1>29 DEF ServerDies
  <2>2. restarted' \in BOOLEAN
    BY <1>29 DEF ServerDies
  <2>3. abandoned' \in BOOLEAN
    BY <1>29 DEF ServerDies
  <2>4. players' \in 0..MaxPlayers /\ since' \subseteq 0..MaxPlayers
    BY <1>29 DEF ServerDies, ConsoleAssumption
  <2> QED BY <1>29, <2>1, <2>2, <2>3, <2>4 DEF ServerDies, caller
<1>30. ASSUME ServerStarts PROVE TypeOK'
  BY <1>30 DEF ServerStarts, caller, observed
<1>31. ASSUME UNCHANGED vars PROVE TypeOK'
  BY <1>31 DEF vars, caller, server, observed
<1> QED
  BY <1>1, <1>2, <1>3, <1>4, <1>5, <1>6, <1>7, <1>8, <1>9, <1>10, <1>11, <1>12, <1>13,
     <1>14, <1>15, <1>16, <1>17, <1>18, <1>19, <1>20, <1>21, <1>22, <1>23, <1>24, <1>25,
     <1>26, <1>27, <1>28, <1>29, <1>30, <1>31 DEF Next, Call, Server, Execute

\* Every variable keeps its type; a resume is sent three times at most.
THEOREM TypeCorrect == Spec => []TypeOK
BY ConsoleAssumption, InitTypes, NextKeepsTypes, PTL DEF Spec

------------------------------------------------------------------------------
(***************************************************************************)
(* NotLeftHeld.  What a call may leave behind is a FIFO that frees the     *)
(* saves; only a call between its hold and its resume owes them one.       *)
(***************************************************************************)
HoldPlaces == {"query", "read", "copy", "resume_cursor", "resume"}

\* A resume is on its way, and no hold behind it.
Resuming(commands) ==
  \E i \in DOMAIN commands :
    /\ commands[i] = "save resume"
    /\ \A j \in DOMAIN commands : commands[j] = "save hold" => j < i

Freed == (save = "free" /\ NoHoldIn(fifo)) \/ Resuming(fifo)

HoldInv == Freed \/ abandoned \/ pc \in HoldPlaces

\* The commands in the FIFO, and those after a send or a read, by their places.
LEMMA AppendFacts ==
  ASSUME NEW s \in Seq(Commands), NEW e \in Commands
  PROVE  /\ Len(s) \in Nat /\ DOMAIN s = 1..Len(s)
         /\ DOMAIN Append(s, e) = 1..(Len(s) + 1)
         /\ \A i \in 1..Len(s) : Append(s, e)[i] = s[i]
         /\ Append(s, e)[Len(s) + 1] = e
<1>1. Append(s, e) \in Seq(Commands) /\ Len(Append(s, e)) = Len(s) + 1
  BY AppendProperties
<1>2. DOMAIN Append(s, e) = 1..(Len(s) + 1)
  BY <1>1, LenProperties
<1> QED BY <1>2, AppendProperties, LenProperties

LEMMA TailFacts ==
  ASSUME NEW s \in Seq(Commands), s # <<>>
  PROVE  /\ Len(s) \in Nat /\ DOMAIN s = 1..Len(s)
         /\ DOMAIN Tail(s) = 1..(Len(s) - 1)
         /\ \A i \in 1..(Len(s) - 1) : Tail(s)[i] = s[i + 1]
<1>1. Tail(s) \in Seq(Commands) /\ Len(Tail(s)) = Len(s) - 1
  BY HeadTailProperties
<1>2. DOMAIN Tail(s) = 1..(Len(s) - 1)
  BY <1>1, LenProperties
<1>3. \A i \in 1..(Len(s) - 1) : Tail(s)[i] = s[i + 1]
  BY <1>1, HeadTailProperties
<1> QED BY <1>2, <1>3, LenProperties

LEMMA HeadIsFirst ==
  ASSUME NEW s \in Seq(Commands), s # <<>>
  PROVE  Head(s) = s[1]
OBVIOUS

LEMMA LastOrBefore ==
  ASSUME NEW n \in Nat, NEW i \in 1..(n + 1)
  PROVE  i = n + 1 \/ i \in 1..n
OBVIOUS

LEMMA NextPlace ==
  ASSUME NEW n \in Nat, NEW i \in 1..(n - 1)
  PROVE  i + 1 \in 1..n /\ i \in Int /\ i + 1 > 1
OBVIOUS

LEMMA AppendKeepsNoHold ==
  ASSUME NEW s \in Seq(Commands), NEW e \in Commands, e # "save hold", NoHoldIn(s)
  PROVE  NoHoldIn(Append(s, e))
<1> DEFINE t == Append(s, e)
<1>1. ASSUME NEW i \in DOMAIN t PROVE t[i] # "save hold"
  <2>1. i = Len(s) + 1 \/ i \in 1..Len(s)
    BY <1>1, AppendFacts, LastOrBefore
  <2>2. CASE i = Len(s) + 1
    BY <2>2, AppendFacts
  <2>3. CASE i \in 1..Len(s)
    <3>1. t[i] = s[i] /\ i \in DOMAIN s
      BY <2>3, AppendFacts
    <3> QED BY <3>1 DEF NoHoldIn
  <2> QED BY <2>1, <2>2, <2>3
<1> QED BY <1>1 DEF NoHoldIn

LEMMA AppendKeepsResuming ==
  ASSUME NEW s \in Seq(Commands), NEW e \in Commands, e # "save hold", Resuming(s)
  PROVE  Resuming(Append(s, e))
<1> DEFINE t == Append(s, e)
<1>1. PICK i \in DOMAIN s :
        s[i] = "save resume" /\ \A j \in DOMAIN s : s[j] = "save hold" => j < i
  BY DEF Resuming
<1>2. i \in DOMAIN t /\ t[i] = "save resume"
  <2>1. Len(s) \in Nat /\ i \in 1..Len(s)
    BY AppendFacts
  <2>2. i \in 1..(Len(s) + 1)
    BY ONLY <2>1
  <2> QED BY <1>1, <2>1, <2>2, AppendFacts
<1>3. ASSUME NEW j \in DOMAIN t, t[j] = "save hold" PROVE j < i
  <2>1. j = Len(s) + 1 \/ j \in 1..Len(s)
    BY <1>3, AppendFacts, LastOrBefore
  <2>2. j # Len(s) + 1
    <3>1. t[Len(s) + 1] = e
      BY AppendFacts
    <3> QED BY <1>3, <3>1
  <2>3. j \in DOMAIN s /\ s[j] = "save hold"
    BY <1>3, <2>1, <2>2, AppendFacts
  <2> QED BY <1>1, <2>3
<1> QED BY <1>2, <1>3 DEF Resuming

LEMMA AppendResume ==
  ASSUME NEW s \in Seq(Commands)
  PROVE  Resuming(Append(s, "save resume"))
<1> DEFINE t == Append(s, "save resume")
<1>0. "save resume" \in Commands
  BY CommandsSent
<1>1. Len(s) + 1 \in DOMAIN t /\ t[Len(s) + 1] = "save resume"
  <2>1. Len(s) \in Nat
    BY LenProperties
  <2>2. Len(s) + 1 \in 1..(Len(s) + 1)
    BY ONLY <2>1
  <2>3. DOMAIN t = 1..(Len(s) + 1)
    BY <1>0, AppendFacts
  <2>4. t[Len(s) + 1] = "save resume"
    BY <1>0, AppendFacts
  <2> QED BY <2>2, <2>3, <2>4
<1>2. ASSUME NEW j \in DOMAIN t, t[j] = "save hold" PROVE j < Len(s) + 1
  <2>1. j = Len(s) + 1 \/ j \in 1..Len(s)
    BY <1>0, <1>2, AppendFacts, LastOrBefore
  <2>2. j # Len(s) + 1
    BY <1>1, <1>2
  <2>3. Len(s) \in Nat /\ j \in 1..Len(s)
    BY <2>1, <2>2, LenProperties
  <2> QED BY ONLY <2>3
<1> QED BY <1>1, <1>2 DEF Resuming

LEMMA TailKeepsNoHold ==
  ASSUME NEW s \in Seq(Commands), s # <<>>, NoHoldIn(s)
  PROVE  NoHoldIn(Tail(s))
<1>1. ASSUME NEW j \in DOMAIN Tail(s) PROVE Tail(s)[j] # "save hold"
  <2>1. j \in 1..(Len(s) - 1) /\ Len(s) \in Nat
    BY <1>1, TailFacts
  <2>2. j + 1 \in DOMAIN s /\ Tail(s)[j] = s[j + 1]
    BY <2>1, TailFacts, NextPlace
  <2> QED BY <2>2 DEF NoHoldIn
<1> QED BY <1>1 DEF NoHoldIn

\* A resume that is not the next command stays, and so does what is behind it.
LEMMA TailKeepsLater ==
  ASSUME NEW s \in Seq(Commands), s # <<>>, NEW i \in DOMAIN s, i # 1,
         s[i] = "save resume", \A j \in DOMAIN s : s[j] = "save hold" => j < i
  PROVE  Resuming(Tail(s))
<1>1. Len(s) \in Nat /\ i \in 1..Len(s)
  BY TailFacts
<1>2. i - 1 \in 1..(Len(s) - 1) /\ (i - 1) + 1 = i /\ i \in Int
  BY ONLY <1>1, i # 1
<1>3. i - 1 \in DOMAIN Tail(s) /\ Tail(s)[i - 1] = "save resume"
  <2>1. Tail(s)[i - 1] = s[(i - 1) + 1]
    BY <1>2, TailFacts
  <2> QED BY <1>2, <2>1, TailFacts
<1>4. ASSUME NEW j \in DOMAIN Tail(s), Tail(s)[j] = "save hold"
      PROVE  j < i - 1
  <2>1. j \in 1..(Len(s) - 1)
    BY <1>4, TailFacts
  <2>2. j + 1 \in DOMAIN s /\ s[j + 1] = "save hold" /\ j \in Int
    BY <1>1, <1>4, <2>1, TailFacts, NextPlace
  <2>3. j + 1 < i
    BY <2>2
  <2>4. i \in Int /\ j \in Int
    BY <1>2, <2>2
  <2> QED BY ONLY <2>3, <2>4
<1> QED BY <1>3, <1>4 DEF Resuming

\* A command other than resume is taken: the resume behind it stays.
LEMMA TailKeepsResuming ==
  ASSUME NEW s \in Seq(Commands), s # <<>>, Head(s) # "save resume", Resuming(s)
  PROVE  Resuming(Tail(s))
<1>1. PICK i \in DOMAIN s :
        s[i] = "save resume" /\ \A j \in DOMAIN s : s[j] = "save hold" => j < i
  BY DEF Resuming
<1>2. i # 1
  <2>1. Head(s) = s[1]
    BY HeadIsFirst
  <2> QED BY <1>1, <2>1
<1> QED BY <1>1, <1>2, TailKeepsLater

\* A resume is taken: no hold was behind it, or another resume is behind that.
LEMMA TailAfterResume ==
  ASSUME NEW s \in Seq(Commands), s # <<>>, Resuming(s)
  PROVE  NoHoldIn(Tail(s)) \/ Resuming(Tail(s))
<1>1. PICK i \in DOMAIN s :
        s[i] = "save resume" /\ \A j \in DOMAIN s : s[j] = "save hold" => j < i
  BY DEF Resuming
<1>2. CASE i = 1
  <2>1. ASSUME NEW j \in DOMAIN Tail(s) PROVE Tail(s)[j] # "save hold"
    <3>1. j \in 1..(Len(s) - 1) /\ Len(s) \in Nat
      BY <2>1, TailFacts
    <3>2. j + 1 \in DOMAIN s /\ Tail(s)[j] = s[j + 1] /\ ~(j + 1 < 1)
      BY <3>1, TailFacts, NextPlace
    <3> QED BY <1>1, <1>2, <3>2
  <2> QED BY <2>1 DEF NoHoldIn
<1>3. CASE i # 1
  BY <1>1, <1>3, TailKeepsLater
<1> QED BY <1>2, <1>3

\* Any command but a hold may be sent.
LEMMA SendKeepsFreed ==
  ASSUME TypeOK, NEW command \in Commands, command # "save hold",
         Send(command), save' = save, Freed
  PROVE  Freed'
<1>1. fifo \in Seq(Commands) /\ fifo' = Append(fifo, command)
  BY DEF TypeOK, Send
<1>2. CASE save = "free" /\ NoHoldIn(fifo)
  <2>1. NoHoldIn(Append(fifo, command))
    BY <1>1, <1>2, AppendKeepsNoHold
  <2> QED BY <1>1, <1>2, <2>1 DEF Freed
<1>3. CASE Resuming(fifo)
  <2>1. Resuming(Append(fifo, command))
    BY <1>1, <1>3, AppendKeepsResuming
  <2> QED BY <1>1, <2>1 DEF Freed
<1> QED BY <1>2, <1>3 DEF Freed

LEMMA StutterKeepsFreed ==
  ASSUME Freed, UNCHANGED <<save, fifo>>
  PROVE  Freed'
BY DEF Freed

LEMMA SendRaisesKeepsFreed ==
  ASSUME TypeOK, NEW command \in Commands, command # "save hold",
         SendRaises(command), save' = save, Freed
  PROVE  Freed'
<1>1. CASE UNCHANGED fifo
  BY <1>1, StutterKeepsFreed
<1>2. CASE Send(command)
  BY <1>2, SendKeepsFreed
<1> QED BY <1>1, <1>2 DEF SendRaises

\* list and save query leave the FIFO as freeing as it was.
LEMMA TakeKeepsFreed ==
  ASSUME TypeOK, NEW command, command # "save resume", Take(command),
         save' = save, Freed
  PROVE  Freed'
<1>1. fifo \in Seq(Commands) /\ fifo # <<>> /\ fifo' = Tail(fifo) /\ Head(fifo) # "save resume"
  BY DEF TypeOK, Take
<1>2. CASE save = "free" /\ NoHoldIn(fifo)
  <2>1. NoHoldIn(Tail(fifo))
    BY <1>1, <1>2, TailKeepsNoHold
  <2> QED BY <1>1, <1>2, <2>1 DEF Freed
<1>3. CASE Resuming(fifo)
  <2>1. Resuming(Tail(fifo))
    BY <1>1, <1>3, TailKeepsResuming
  <2> QED BY <1>1, <2>1 DEF Freed
<1> QED BY <1>2, <1>3 DEF Freed

LEMMA CallKeepsHold == TypeOK /\ HoldInv /\ Call => HoldInv'
<1> SUFFICES ASSUME TypeOK, HoldInv, Call
             PROVE  HoldInv'
  OBVIOUS
<1>1. ASSUME ListCursor \/ ReadCount \/ HoldCursor PROVE HoldInv'
  BY <1>1, StutterKeepsFreed
     DEF ListCursor, ReadCount, HoldCursor, HoldInv, HoldPlaces, server, observed
<1>2. ASSUME SendList PROVE HoldInv'
  <2>1. Freed => Freed'
    BY <1>2, SendKeepsFreed, CommandsSent DEF SendList
  <2> QED BY <1>2, <2>1 DEF SendList, HoldInv, HoldPlaces, observed
<1>3. ASSUME ListRaises PROVE HoldInv'
  <2>1. pc \notin HoldPlaces /\ abandoned' = abandoned /\ save' = save
    BY <1>3 DEF ListRaises, HoldPlaces
  <2>2. UNCHANGED fifo \/ SendRaises("list")
    BY <1>3 DEF ListRaises
  <2>3. Freed => Freed'
    BY <2>1, <2>2, StutterKeepsFreed, SendRaisesKeepsFreed, CommandsSent
  <2> QED BY <2>1, <2>3 DEF HoldInv
<1>4. ASSUME HoldCursorRaises PROVE HoldInv'
  BY <1>4, StutterKeepsFreed DEF HoldCursorRaises, HoldInv, HoldPlaces, server
<1>5. ASSUME SendHold \/ SendQuery \/ ReadReady \/ CopyDone \/ BodyRaises
             \/ ResumeCursor \/ ResumeRefused
      PROVE  HoldInv'
  <2>1. pc' \in HoldPlaces \/ ReadReady
    BY <1>5 DEF SendHold, SendQuery, ReadReady, CopyDone, BodyRaises, ResumeCursor,
                ResumeRefused, Goto, HoldPlaces
  <2>2. ReadReady => pc' \in HoldPlaces
    BY DEF ReadReady, Goto, HoldPlaces
  <2> QED BY <2>1, <2>2 DEF HoldInv
<1>6. ASSUME SendResume PROVE HoldInv'
  <2>1. fifo' = Append(fifo, "save resume") /\ fifo \in Seq(Commands)
    BY <1>6 DEF SendResume, Send, TypeOK
  <2>2. Resuming(Append(fifo, "save resume"))
    BY <2>1, AppendResume
  <2> QED BY <2>1, <2>2 DEF HoldInv, Freed
<1>7. ASSUME ResumeGivenUp PROVE HoldInv'
  BY <1>7 DEF ResumeGivenUp, HoldInv
<1>8. ASSUME Resumed \/ ResumeNotConfirmed \/ Return PROVE HoldInv'
  <2>1. pc \notin HoldPlaces
    BY <1>8 DEF Resumed, ResumeNotConfirmed, Return, HoldPlaces
  <2>2. UNCHANGED <<save, fifo, abandoned>>
    BY <1>8 DEF Resumed, ResumeNotConfirmed, Return, server
  <2> QED BY <2>1, <2>2, StutterKeepsFreed DEF HoldInv
<1> QED BY <1>1, <1>2, <1>3, <1>4, <1>5, <1>6, <1>7, <1>8 DEF Call

LEMMA ServerKeepsHold == TypeOK /\ HoldInv /\ Server => HoldInv'
<1> SUFFICES ASSUME TypeOK, HoldInv, Server
             PROVE  HoldInv'
  OBVIOUS
<1>1. ASSUME ExecuteList PROVE HoldInv'
  <2>1. Freed => Freed'
    BY <1>1, TakeKeepsFreed DEF ExecuteList
  <2> QED BY <1>1, <2>1 DEF ExecuteList, HoldInv, caller, observed
<1>2. ASSUME ExecuteQuery PROVE HoldInv'
  <2>1. Freed => Freed'
    BY <1>2, TakeKeepsFreed DEF ExecuteQuery
  <2> QED BY <1>2, <2>1 DEF ExecuteQuery, HoldInv, caller, observed
<1>3. ASSUME ExecuteHold PROVE HoldInv'
  <2>1. fifo \in Seq(Commands) /\ fifo # <<>> /\ fifo' = Tail(fifo) /\ Head(fifo) = "save hold"
    BY <1>3 DEF ExecuteHold, Take, TypeOK
  <2>2. ~NoHoldIn(fifo)
    <3>1. fifo[1] = "save hold"
      BY <2>1, HeadIsFirst
    <3>2. Len(fifo) \in Nat /\ Len(fifo) # 0 /\ DOMAIN fifo = 1..Len(fifo)
      BY <2>1, EmptySeq, LenProperties
    <3>3. 1 \in DOMAIN fifo
      BY ONLY <3>2
    <3> QED BY <3>1, <3>3 DEF NoHoldIn
  <2>3. Resuming(fifo) => Resuming(Tail(fifo))
    BY <2>1, TailKeepsResuming
  <2>4. Freed => Freed'
    BY <2>1, <2>2, <2>3 DEF Freed
  <2> QED BY <1>3, <2>4 DEF ExecuteHold, HoldInv, caller, observed
<1>4. ASSUME ExecuteResume PROVE HoldInv'
  <2>1. fifo \in Seq(Commands) /\ fifo # <<>> /\ fifo' = Tail(fifo) /\ save' = "free"
    BY <1>4 DEF ExecuteResume, Take, TypeOK
  <2>2. pc' = pc /\ abandoned' = (abandoned /\ ~NoHoldIn(fifo'))
    BY <1>4 DEF ExecuteResume, caller
  <2>3. CASE Freed
    <3>1. NoHoldIn(Tail(fifo)) \/ Resuming(Tail(fifo))
      BY <2>1, <2>3, TailKeepsNoHold, TailAfterResume DEF Freed
    <3>2. Freed'
      BY <2>1, <3>1 DEF Freed
    <3> QED BY <3>2 DEF HoldInv
  <2>4. CASE abandoned
    <3>1. NoHoldIn(fifo') => Freed'
      BY <2>1 DEF Freed
    <3>2. ~NoHoldIn(fifo') => abandoned'
      BY <2>2, <2>4
    <3> QED BY <3>1, <3>2 DEF HoldInv
  <2>5. CASE pc \in HoldPlaces
    BY <2>2, <2>5 DEF HoldInv
  <2> QED BY <2>3, <2>4, <2>5 DEF HoldInv
<1>5. ASSUME Flushed PROVE HoldInv'
  <2>1. Freed => Freed'
    BY <1>5 DEF Flushed, Freed
  <2> QED BY <1>5, <2>1 DEF Flushed, HoldInv, caller, observed
<1>6. ASSUME Stored \/ PlayersChange \/ ServerStarts PROVE HoldInv'
  <2>1. UNCHANGED <<save, fifo, abandoned, pc>>
    BY <1>6 DEF Stored, PlayersChange, ServerStarts, caller, observed
  <2> QED BY <2>1, StutterKeepsFreed DEF HoldInv
<1>7. ASSUME ServerDies PROVE HoldInv'
  <2>1. fifo' = <<>> /\ save' = "free"
    BY <1>7 DEF ServerDies
  <2>2. DOMAIN fifo' = {}
    <3>1. DOMAIN <<>> = {}
      OBVIOUS
    <3> QED BY <2>1, <3>1
  <2>3. Freed'
    BY ONLY <2>1, <2>2 DEF Freed, NoHoldIn
  <2> QED BY <2>3 DEF HoldInv
<1> QED BY <1>1, <1>2, <1>3, <1>4, <1>5, <1>6, <1>7 DEF Server, Execute

LEMMA NextKeepsHold == TypeOK /\ HoldInv /\ [Next]_vars => HoldInv'
<1> SUFFICES ASSUME TypeOK, HoldInv, [Next]_vars
             PROVE  HoldInv'
  OBVIOUS
<1>1. ASSUME BeginList \/ BeginPause PROVE HoldInv'
  <2>1. pc \notin HoldPlaces /\ UNCHANGED <<save, fifo, abandoned>>
    BY <1>1 DEF BeginList, BeginPause, Begin, HoldPlaces, server
  <2> QED BY <2>1, StutterKeepsFreed DEF HoldInv
<1>2. ASSUME Crash PROVE HoldInv'
  <2>1. UNCHANGED <<save, fifo>> /\ abandoned' = (abandoned \/ pc \in HoldPlaces)
    BY <1>2 DEF Crash, HoldPlaces, server
  <2> QED BY <2>1, StutterKeepsFreed DEF HoldInv
<1>3. ASSUME UNCHANGED vars PROVE HoldInv'
  <2>1. UNCHANGED <<save, fifo, abandoned, pc>>
    BY <1>3 DEF vars, caller, server, observed
  <2> QED BY <2>1, StutterKeepsFreed DEF HoldInv
<1> QED BY <1>1, <1>2, <1>3, CallKeepsHold, ServerKeepsHold DEF Next

\* No failure leaves the world held: an idle console with nothing unread in the
\* FIFO has a BDS that saves freely, unless its caller was killed or all three
\* attempts to resume were refused.
THEOREM NeverLeftHeld == Spec => []NotLeftHeld
<1>1. Init => HoldInv
  BY DEF Init, HoldInv, Freed, NoHoldIn
<1>2. HoldInv => NotLeftHeld
  <2>1. ASSUME pc = "idle", fifo = <<>>, Freed PROVE save = "free"
    BY <2>1 DEF Freed, Resuming
  <2> QED BY <2>1 DEF HoldInv, HoldPlaces, NotLeftHeld
<1> QED BY <1>1, <1>2, NextKeepsHold, TypeCorrect, PTL DEF Spec
------------------------------------------------------------------------------
(***************************************************************************)
(* A prompt BDS: a line that is read belongs to the call that reads it.    *)
(***************************************************************************)

\* What is behind the next command.
Behind(commands) == IF commands = <<>> THEN {} ELSE Range(Tail(commands))

\* What was printed and not read over by a cursor, and whether a text is in it.
Printed == Range(output) \cup Range(journal)
Shown(text) == \E line \in Printed : line.text = text

StartPlaces == {"list_cursor", "list", "hold_cursor", "hold"}
QueryPlaces == {"query", "read", "copy"}
PausePlaces == QueryPlaces \cup {"resume_cursor", "resume", "resume_wait", "paused"}

\* A call starts when everything sent before it was answered.
QuietStart ==
  /\ pc \in StartPlaces => Quiet
  /\ pc \in {"list", "hold"} => journal = <<>>

\* Until the resume only the hold and queries are sent, and BDS announces what
\* it holds.
HoldingInv ==
  pc \in QueryPlaces =>
    /\ Range(fifo) \subseteq {"save hold", "save query"}
    /\ ~restarted /\ Shown("ready") => save = "ready"
    /\ pc = "copy" => Has("ready")

\* The hold is before everything else, so a confirmed resume came after it.
ResumingInv ==
  pc \in PausePlaces =>
    /\ "save hold" \notin Behind(fifo)
    /\ Shown("resumed") => save = "free" /\ "save hold" \notin Range(fifo)
    /\ pc = "paused" => Has("resumed")

\* A list is answered with a number of this call.
CountingInv ==
  /\ pc # "idle" => players \in since
  /\ pc = "list_wait" =>
       \A line \in Printed : line.text = "players" => line.count \in since
  /\ pc = "counted" => count \in since

PromptInv == QuietStart /\ HoldingInv /\ ResumingInv /\ CountingInv

LEMMA RangeOfNone == Range(<<>>) = {}
<1>1. DOMAIN <<>> = {}
  OBVIOUS
<1> QED BY <1>1 DEF Range

LEMMA RangeOfOne ==
  ASSUME NEW e
  PROVE  Range(<<e>>) = {e}
<1>1. DOMAIN <<e>> = {1} /\ <<e>>[1] = e
  OBVIOUS
<1> QED BY <1>1 DEF Range

LEMMA RangeOfTwo ==
  ASSUME NEW d, NEW e
  PROVE  Range(<<d, e>>) = {d, e}
<1>1. DOMAIN <<d, e>> = {1, 2} /\ <<d, e>>[1] = d /\ <<d, e>>[2] = e
  OBVIOUS
<1> QED BY <1>1 DEF Range

LEMMA RangeOfAppend ==
  ASSUME NEW S, NEW s \in Seq(S), NEW e \in S
  PROVE  Range(Append(s, e)) = Range(s) \cup {e}
<1>1. Append(s, e) = s \o <<e>> /\ <<e>> \in Seq(S)
  BY AppendIsConcat
<1>2. Range(s \o <<e>>) = Range(s) \cup Range(<<e>>)
  BY <1>1, RangeConcatenation
<1> QED BY <1>1, <1>2, RangeOfOne

LEMMA RangeOfTail ==
  ASSUME NEW S, NEW s \in Seq(S), s # <<>>
  PROVE  Range(s) = {Head(s)} \cup Range(Tail(s))
<1>1. s = <<Head(s)>> \o Tail(s) /\ <<Head(s)>> \in Seq(S) /\ Tail(s) \in Seq(S)
  <2>1. Len(s) \in Nat \ {0} /\ Head(s) \in S /\ Tail(s) \in Seq(S)
    BY EmptySeq, HeadTailProperties
  <2>2. Len(<<Head(s)>>) = 1 /\ <<Head(s)>>[1] = Head(s) /\ <<Head(s)>> \in Seq(S)
    BY <2>1
  <2>3. Len(Tail(s)) = Len(s) - 1 /\ \A i \in 1..(Len(s) - 1) : Tail(s)[i] = s[i + 1]
    BY HeadTailProperties
  <2> DEFINE t == <<Head(s)>> \o Tail(s)
  <2>4. t \in Seq(S) /\ Len(t) = 1 + (Len(s) - 1)
        /\ \A i \in 1..(1 + (Len(s) - 1)) :
             t[i] = IF i <= 1 THEN <<Head(s)>>[i] ELSE Tail(s)[i - 1]
    BY <2>1, <2>2, <2>3, ConcatProperties
  <2> HIDE DEF t
  <2>5. Head(s) = s[1]
    OBVIOUS
  <2>6. ASSUME NEW i \in 1..Len(s) PROVE s[i] = t[i]
    <3>1. t[i] = IF i <= 1 THEN <<Head(s)>>[i] ELSE Tail(s)[i - 1]
      BY <2>1, <2>4
    <3>2. CASE i = 1
      BY <2>2, <2>5, <3>1, <3>2
    <3>3. CASE i # 1
      <4>1. i - 1 \in 1..(Len(s) - 1) /\ (i - 1) + 1 = i /\ ~(i <= 1)
        BY <2>1, <3>3
      <4>2. Tail(s)[i - 1] = s[(i - 1) + 1]
        BY <2>3, <4>1
      <4> QED BY <3>1, <4>1, <4>2
    <3> QED BY <3>2, <3>3
  <2>7. Len(t) = Len(s)
    BY <2>1, <2>4
  <2>8. s = t
    BY <2>4, <2>6, <2>7, SeqEqual
  <2> QED BY <2>1, <2>2, <2>8 DEF t
<1>2. Range(<<Head(s)>> \o Tail(s)) = Range(<<Head(s)>>) \cup Range(Tail(s))
  BY <1>1, RangeConcatenation
<1>3. Range(<<Head(s)>>) = {Head(s)}
  BY RangeOfOne
<1> QED BY <1>1, <1>2, <1>3

\* A command sent is behind all others.
LEMMA SentFacts ==
  ASSUME TypeOK, NEW command \in Commands, Send(command)
  PROVE  /\ Range(fifo') = Range(fifo) \cup {command}
         /\ Behind(fifo)' \subseteq Behind(fifo) \cup {command}
         /\ fifo = <<>> => Behind(fifo)' = {}
<1>1. fifo \in Seq(Commands) /\ fifo' = Append(fifo, command)
  BY DEF TypeOK, Send
<1>2. Range(fifo') = Range(fifo) \cup {command}
  BY <1>1, RangeOfAppend
<1>3. Tail(fifo') = IF fifo = <<>> THEN <<>> ELSE Append(Tail(fifo), command)
  BY <1>1, HeadTailAppend
<1>4. CASE fifo = <<>>
  <2>1. Behind(fifo)' = {}
    BY <1>3, <1>4, RangeOfNone DEF Behind
  <2> QED BY <1>2, <2>1
<1>5. CASE fifo # <<>>
  <2>1. Tail(fifo) \in Seq(Commands)
    BY <1>1, <1>5, HeadTailProperties
  <2>2. Range(Tail(fifo')) = Range(Tail(fifo)) \cup {command}
    <3>1. PICK rest \in Seq(Commands) : rest = Tail(fifo)
      BY <2>1
    <3>2. Range(Append(rest, command)) = Range(rest) \cup {command}
      BY RangeOfAppend
    <3> QED BY <1>3, <1>5, <3>1, <3>2
  <2>3. Behind(fifo) = Range(Tail(fifo))
    BY <1>5 DEF Behind
  <2>4. Behind(fifo)' \subseteq Range(Tail(fifo'))
    BY DEF Behind
  <2> QED BY <1>2, <1>5, <2>2, <2>3, <2>4
<1> QED BY <1>4, <1>5

\* A command taken was the first.
LEMMA TakenFacts ==
  ASSUME TypeOK, NEW command, Take(command)
  PROVE  /\ command \in Range(fifo) /\ Range(fifo') = Behind(fifo)
         /\ Range(fifo') \subseteq Range(fifo)
         /\ Behind(fifo)' \subseteq Behind(fifo)
<1>1. fifo \in Seq(Commands) /\ fifo # <<>> /\ fifo' = Tail(fifo) /\ Head(fifo) = command
  BY DEF TypeOK, Take
<1>2. Range(fifo) = {command} \cup Range(fifo')
  BY <1>1, RangeOfTail
<1>3. Range(fifo') = Behind(fifo)
  BY <1>1 DEF Behind
<1>4. Behind(fifo)' \subseteq Range(fifo')
  <2>1. CASE fifo' = <<>>
    BY <2>1 DEF Behind
  <2>2. CASE fifo' # <<>>
    <3>1. fifo' \in Seq(Commands)
      BY <1>1, HeadTailProperties
    <3>2. Range(fifo') = {Head(fifo')} \cup Range(Tail(fifo'))
      BY <2>2, <3>1, RangeOfTail
    <3> QED BY <2>2, <3>2 DEF Behind
  <2> QED BY <2>1, <2>2
<1> QED BY <1>2, <1>3, <1>4

LEMMA PrintedFacts ==
  ASSUME TypeOK, NEW lines \in Seq(Lines), Prints(lines), journal' = journal
  PROVE  Printed' = Printed \cup Range(lines)
<1>1. Range(output') = Range(output) \cup Range(lines)
  BY RangeConcatenation DEF TypeOK, Prints
<1> QED BY <1>1 DEF Printed

\* A line that journald stores was on its way.
LEMMA StoredFacts ==
  ASSUME TypeOK, Stored
  PROVE  Printed' = Printed /\ \A text : Has(text) => Has(text)'
<1>1. output \in Seq(Lines) /\ output # <<>> /\ output' = Tail(output)
      /\ journal \in Seq(Lines) /\ journal' = Append(journal, Head(output))
  BY DEF TypeOK, Stored
<1>2. Head(output) \in Lines
  BY <1>1, HeadTailProperties
<1>3. Range(output) = {Head(output)} \cup Range(output')
  BY <1>1, RangeOfTail
<1>4. Range(journal') = Range(journal) \cup {Head(output)}
  BY <1>1, <1>2, RangeOfAppend
<1>5. ASSUME NEW text, Has(text) PROVE Has(text)'
  <2>1. \E line \in Range(journal) : line.text = text
    BY <1>5 DEF Has, Range
  <2>2. \E line \in Range(journal') : line.text = text
    BY <1>4, <2>1
  <2> QED BY <2>2 DEF Has, Range
<1> QED BY <1>3, <1>4, <1>5 DEF Printed

LEMMA HasIsShown ==
  ASSUME NEW text, Has(text)
  PROVE  Shown(text)
BY DEF Has, Shown, Printed, Range

LEMMA QuietFacts ==
  ASSUME Quiet
  PROVE  Range(fifo) = {} /\ Behind(fifo) = {} /\ Range(output) = {}
BY RangeOfNone DEF Quiet, Behind

\* A call that ends owes nothing.
LEMMA EndKeepsPrompt ==
  ASSUME End
  PROVE  PromptInv'
<1>1. pc' = "idle"
  BY DEF End, Goto
<1> QED BY <1>1 DEF PromptInv, QuietStart, HoldingInv, ResumingInv, CountingInv,
              StartPlaces, QueryPlaces, PausePlaces

LEMMA StutterKeepsPrompt ==
  ASSUME PromptInv,
         UNCHANGED <<pc, journal, count, fifo, output, save, players, restarted, since>>
  PROVE  PromptInv'
<1>1. QuietStart'
  BY DEF PromptInv, QuietStart, Quiet
<1>2. HoldingInv'
  BY DEF PromptInv, HoldingInv, Shown, Printed, Has
<1>3. ResumingInv'
  BY DEF PromptInv, ResumingInv, Shown, Printed, Has, Behind
<1>4. CountingInv'
  BY DEF PromptInv, CountingInv, Printed
<1> QED BY <1>1, <1>2, <1>3, <1>4 DEF PromptInv

\* Nothing but the cursor and the place moves.
LEMMA CursorKeepsPrompt ==
  ASSUME TypeOK, PromptInv, ListCursor \/ HoldCursor
  PROVE  PromptInv'
<1>1. pc' \in {"list", "hold"} /\ pc \in StartPlaces /\ journal' = <<>>
      /\ UNCHANGED <<count, fifo, output, save, players, restarted, since>>
  BY DEF ListCursor, HoldCursor, Goto, TakeCursor, server, observed, StartPlaces
<1>2. QuietStart'
  BY <1>1 DEF PromptInv, QuietStart, Quiet
<1>3. HoldingInv' /\ ResumingInv'
  BY <1>1 DEF HoldingInv, ResumingInv, QueryPlaces, PausePlaces
<1>4. CountingInv'
  BY <1>1 DEF PromptInv, CountingInv, StartPlaces
<1> QED BY <1>2, <1>3, <1>4 DEF PromptInv

LEMMA BeginKeepsPrompt ==
  ASSUME Prompt, PromptInv, BeginList \/ BeginPause
  PROVE  PromptInv'
<1>1. pc' \in {"list_cursor", "hold_cursor"} /\ Quiet
      /\ UNCHANGED <<fifo, output, players>> /\ since' = {players}
  BY DEF BeginList, BeginPause, Begin, Goto, server, Late
<1>2. QuietStart'
  BY <1>1 DEF QuietStart, Quiet
<1>3. HoldingInv' /\ ResumingInv'
  BY <1>1 DEF HoldingInv, ResumingInv, QueryPlaces, PausePlaces
<1>4. CountingInv'
  BY <1>1 DEF CountingInv
<1> QED BY <1>2, <1>3, <1>4 DEF PromptInv

LEMMA SendListKeepsPrompt ==
  ASSUME TypeOK, PromptInv, SendList
  PROVE  PromptInv'
<1>1. pc = "list" /\ pc' = "list_wait" /\ UNCHANGED <<journal, output, players, since>>
  BY DEF SendList, Goto, observed
<1>2. Quiet /\ journal = <<>>
  BY <1>1 DEF PromptInv, QuietStart, StartPlaces
<1>3. Printed' = {}
  BY <1>1, <1>2, RangeOfNone DEF Printed, Quiet
<1>4. CountingInv'
  BY <1>1, <1>3 DEF PromptInv, CountingInv
<1> QED BY <1>1, <1>4 DEF PromptInv, QuietStart, HoldingInv, ResumingInv,
                      StartPlaces, QueryPlaces, PausePlaces

\* The hold goes into an empty FIFO.
LEMMA SendHoldKeepsPrompt ==
  ASSUME TypeOK, PromptInv, SendHold
  PROVE  PromptInv'
<1>1. pc = "hold" /\ pc' = "query" /\ UNCHANGED <<journal, output, players, since>>
      /\ Send("save hold")
  BY DEF SendHold, Goto, observed
<1>2. Quiet /\ journal = <<>>
  BY <1>1 DEF PromptInv, QuietStart, StartPlaces
<1>3. Printed' = {}
  BY <1>1, <1>2, RangeOfNone DEF Printed, Quiet
<1>4. Range(fifo') = {"save hold"} /\ Behind(fifo)' = {}
  <2>1. fifo = <<>> /\ Range(fifo) = {}
    BY <1>2, QuietFacts DEF Quiet
  <2> QED BY <1>1, <2>1, SentFacts, CommandsSent
<1>5. ~Shown("ready")' /\ ~Shown("resumed")'
  BY <1>3 DEF Shown
<1>6. HoldingInv'
  BY <1>1, <1>4, <1>5 DEF HoldingInv
<1>7. ResumingInv'
  BY <1>1, <1>4, <1>5 DEF ResumingInv
<1>8. CountingInv'
  BY <1>1 DEF PromptInv, CountingInv
<1>9. QuietStart'
  BY <1>1 DEF QuietStart, StartPlaces
<1> QED BY <1>6, <1>7, <1>8, <1>9 DEF PromptInv

LEMMA SendQueryKeepsPrompt ==
  ASSUME TypeOK, PromptInv, SendQuery
  PROVE  PromptInv'
<1>1. pc = "query" /\ pc' = "read" /\ Send("save query")
      /\ UNCHANGED <<journal, output, save, players, restarted, since>>
  BY DEF SendQuery, Goto, observed
<1>2. Range(fifo') = Range(fifo) \cup {"save query"}
      /\ Behind(fifo)' \subseteq Behind(fifo) \cup {"save query"}
  BY <1>1, SentFacts, CommandsSent
<1>3. \A text : Shown(text)' = Shown(text)
  BY <1>1 DEF Shown, Printed
<1>4. HoldingInv'
  BY <1>1, <1>2, <1>3 DEF PromptInv, HoldingInv, QueryPlaces
<1>5. ResumingInv'
  BY <1>1, <1>2, <1>3 DEF PromptInv, ResumingInv, PausePlaces, QueryPlaces
<1>6. CountingInv'
  BY <1>1 DEF PromptInv, CountingInv
<1>7. QuietStart'
  BY <1>1 DEF QuietStart, StartPlaces
<1> QED BY <1>4, <1>5, <1>6, <1>7 DEF PromptInv

LEMMA ReadCountKeepsPrompt ==
  ASSUME TypeOK, PromptInv, ReadCount
  PROVE  PromptInv'
<1>1. pc = "list_wait" /\ pc' = "counted" /\ UNCHANGED <<players, since>>
  BY DEF ReadCount, Goto, server, observed
<1>2. PICK i \in DOMAIN journal : journal[i].text = "players" /\ count' = journal[i].count
  BY DEF ReadCount
<1>3. journal[i] \in Printed
  BY DEF Printed, Range
<1>4. count' \in since
  BY <1>1, <1>2, <1>3 DEF PromptInv, CountingInv
<1>5. CountingInv'
  BY <1>1, <1>4 DEF PromptInv, CountingInv
<1> QED BY <1>1, <1>5 DEF PromptInv, QuietStart, HoldingInv, ResumingInv,
                      StartPlaces, QueryPlaces, PausePlaces

LEMMA ReadReadyKeepsPrompt ==
  ASSUME TypeOK, PromptInv, ReadReady
  PROVE  PromptInv'
<1>1. pc = "read" /\ pc' = (IF FilesListed THEN "copy" ELSE "query")
      /\ UNCHANGED <<journal, fifo, output, save, players, restarted, since>>
  BY DEF ReadReady, Goto, server, observed
<1>2. FilesListed => Has("ready")
  BY DEF FilesListed, Has
<1>3. pc' \in {"copy", "query"} /\ (pc' = "copy" => Has("ready"))
  BY <1>1, <1>2
<1>4. \A text : Shown(text)' = Shown(text) /\ Has(text)' = Has(text)
  BY <1>1 DEF Shown, Printed, Has
<1>5. HoldingInv'
  BY <1>1, <1>3, <1>4 DEF PromptInv, HoldingInv, QueryPlaces
<1>6. Behind(fifo)' = Behind(fifo)
  BY <1>1 DEF Behind
<1>7. ResumingInv'
  BY <1>1, <1>3, <1>4, <1>6 DEF PromptInv, ResumingInv, PausePlaces, QueryPlaces
<1>8. CountingInv'
  BY <1>1, <1>3 DEF PromptInv, CountingInv
<1>9. QuietStart'
  BY <1>3 DEF QuietStart, StartPlaces
<1> QED BY <1>5, <1>7, <1>8, <1>9 DEF PromptInv

\* A send that raises may have gone out.
LEMMA RaisedFacts ==
  ASSUME TypeOK, NEW command \in Commands, SendRaises(command)
  PROVE  /\ Range(fifo') \subseteq Range(fifo) \cup {command}
         /\ Behind(fifo)' \subseteq Behind(fifo) \cup {command}
         /\ fifo = <<>> => Behind(fifo)' = {}
<1>1. CASE UNCHANGED fifo
  BY <1>1, RangeOfNone DEF Behind
<1>2. CASE Send(command)
  BY <1>2, SentFacts
<1> QED BY <1>1, <1>2 DEF SendRaises

\* The way to the resume: nothing is held behind the next command.
LEMMA BodyEndKeepsPrompt ==
  ASSUME TypeOK, PromptInv, BodyRaises \/ CopyDone
  PROVE  PromptInv'
<1>1. pc \in {"hold", "query", "read", "copy"} /\ pc' = "resume_cursor"
      /\ UNCHANGED <<journal, output, save, players, since>>
  BY DEF BodyRaises, BodyFails, CopyDone, Goto, server, observed
<1>2. \A text : Shown(text)' = Shown(text)
  BY <1>1 DEF Shown, Printed
<1>3. ASSUME UNCHANGED fifo PROVE ResumingInv'
  <2>1. Behind(fifo)' = Behind(fifo) /\ Range(fifo') = Range(fifo)
    BY <1>3 DEF Behind
  <2>2. pc = "hold" => Behind(fifo) = {} /\ Range(fifo) = {}
    BY QuietFacts DEF PromptInv, QuietStart, StartPlaces
  <2>3. pc = "hold" => ~Shown("resumed")
    BY RangeOfNone, QuietFacts DEF PromptInv, QuietStart, StartPlaces, Shown, Printed
  <2>4. ResumingInv'
    BY <1>1, <1>2, <2>1, <2>2, <2>3 DEF PromptInv, ResumingInv, PausePlaces, QueryPlaces
  <2> QED BY <2>4
<1>4. ASSUME pc = "hold", SendRaises("save hold") PROVE ResumingInv'
  <2>1. Quiet /\ journal = <<>>
    BY <1>4 DEF PromptInv, QuietStart, StartPlaces
  <2>2. Behind(fifo)' = {}
    BY <1>4, <2>1, RaisedFacts, CommandsSent DEF Quiet
  <2>3. ~Shown("resumed")
    BY <2>1, RangeOfNone DEF Quiet, Shown, Printed
  <2> QED BY <1>1, <1>2, <2>2, <2>3 DEF ResumingInv
<1>5. ASSUME pc = "query", SendRaises("save query") PROVE ResumingInv'
  <2>1. Range(fifo') \subseteq Range(fifo) \cup {"save query"}
        /\ Behind(fifo)' \subseteq Behind(fifo) \cup {"save query"}
    BY <1>5, RaisedFacts, CommandsSent
  <2> QED BY <1>1, <1>2, <1>5, <2>1 DEF PromptInv, ResumingInv, PausePlaces, QueryPlaces
<1>6. ResumingInv'
  BY <1>3, <1>4, <1>5 DEF BodyRaises, BodyFails, CopyDone, server
<1>7. CountingInv'
  BY <1>1 DEF PromptInv, CountingInv
<1>8. QuietStart' /\ HoldingInv'
  BY <1>1 DEF QuietStart, HoldingInv, StartPlaces, QueryPlaces
<1> QED BY <1>6, <1>7, <1>8 DEF PromptInv

LEMMA ResumeCursorKeepsPrompt ==
  ASSUME TypeOK, PromptInv, ResumeCursor
  PROVE  PromptInv'
<1>1. pc = "resume_cursor" /\ pc' = "resume" /\ (journal' = <<>> \/ journal' = journal)
      /\ UNCHANGED <<fifo, output, save, players, since>>
  BY DEF ResumeCursor, TakeCursor, Goto, server
<1>2. \A text : Shown(text)' => Shown(text)
  BY <1>1, RangeOfNone DEF Shown, Printed
<1>3. Behind(fifo)' = Behind(fifo)
  BY <1>1 DEF Behind
<1>4. ResumingInv'
  BY <1>1, <1>2, <1>3 DEF PromptInv, ResumingInv, PausePlaces
<1>5. CountingInv'
  BY <1>1 DEF PromptInv, CountingInv
<1>6. QuietStart' /\ HoldingInv'
  BY <1>1 DEF QuietStart, HoldingInv, StartPlaces, QueryPlaces
<1> QED BY <1>4, <1>5, <1>6 DEF PromptInv

\* Resumes are sent behind the hold.
LEMMA SendResumeKeepsPrompt ==
  ASSUME TypeOK, PromptInv, SendResume \/ ResumeRefused
  PROVE  PromptInv'
<1>1. pc = "resume" /\ pc' \in {"resume", "resume_wait"}
      /\ UNCHANGED <<journal, output, save, players, since>>
  BY DEF SendResume, ResumeRefused, Goto, observed
<1>2. Range(fifo') \subseteq Range(fifo) \cup {"save resume"}
      /\ Behind(fifo)' \subseteq Behind(fifo) \cup {"save resume"}
  BY SentFacts, RaisedFacts, CommandsSent DEF SendResume, ResumeRefused
<1>3. \A text : Shown(text)' = Shown(text)
  BY <1>1 DEF Shown, Printed
<1>4. ResumingInv'
  BY <1>1, <1>2, <1>3 DEF PromptInv, ResumingInv, PausePlaces
<1>5. CountingInv'
  BY <1>1 DEF PromptInv, CountingInv
<1>6. QuietStart' /\ HoldingInv'
  BY <1>1 DEF QuietStart, HoldingInv, StartPlaces, QueryPlaces
<1> QED BY <1>4, <1>5, <1>6 DEF PromptInv

LEMMA ResumedKeepsPrompt ==
  ASSUME TypeOK, PromptInv, Resumed
  PROVE  PromptInv'
<1>1. CASE ~sound
  BY <1>1, EndKeepsPrompt DEF Resumed
<1>2. CASE sound
  <2>1. pc = "resume_wait" /\ pc' = "paused" /\ Has("resumed")
        /\ UNCHANGED <<journal, fifo, output, save, players, since>>
    BY <1>2 DEF Resumed, Goto, server
  <2>2. \A text : Shown(text)' = Shown(text) /\ Has(text)' = Has(text)
    BY <2>1 DEF Shown, Printed, Has
  <2>3. Behind(fifo)' = Behind(fifo)
    BY <2>1 DEF Behind
  <2>4. ResumingInv'
    BY <2>1, <2>2, <2>3 DEF PromptInv, ResumingInv, PausePlaces
  <2>5. CountingInv'
    BY <2>1 DEF PromptInv, CountingInv
  <2>6. QuietStart' /\ HoldingInv'
    BY <2>1 DEF QuietStart, HoldingInv, StartPlaces, QueryPlaces
  <2> QED BY <2>4, <2>5, <2>6 DEF PromptInv
<1> QED BY <1>1, <1>2

(***************************************************************************)
(* The steps of BDS and journald.                                          *)
(***************************************************************************)

\* Neither a player nor a start of BDS concerns the lines of a call.
LEMMA PlayersKeepPrompt ==
  ASSUME PromptInv, PlayersChange \/ ServerStarts
  PROVE  PromptInv'
<1>1. UNCHANGED <<pc, journal, count, fifo, output, save, restarted>>
      /\ since \subseteq since' /\ (players' = players \/ players' \in since')
  BY DEF PlayersChange, ServerStarts, caller, observed
<1>2. QuietStart'
  BY <1>1 DEF PromptInv, QuietStart, Quiet
<1>3. HoldingInv'
  BY <1>1 DEF PromptInv, HoldingInv, Shown, Printed, Has
<1>4. ResumingInv'
  BY <1>1 DEF PromptInv, ResumingInv, Shown, Printed, Has, Behind
<1>5. CountingInv'
  BY <1>1 DEF PromptInv, CountingInv, Printed
<1> QED BY <1>2, <1>3, <1>4, <1>5 DEF PromptInv

LEMMA DeathKeepsPrompt ==
  ASSUME PromptInv, ServerDies
  PROVE  PromptInv'
<1>1. UNCHANGED <<pc, journal, count, output>> /\ fifo' = <<>> /\ save' = "free"
      /\ since \subseteq since' /\ players' \in since'
  BY DEF ServerDies, caller
<1>2. restarted' = TRUE
  BY DEF ServerDies
<1>3. Range(fifo') = {} /\ Behind(fifo)' = {}
  BY <1>1, RangeOfNone DEF Behind
<1>4. QuietStart'
  BY <1>1 DEF PromptInv, QuietStart, Quiet
<1>5. HoldingInv'
  <2>1. pc' = "copy" => Has("ready")'
    BY <1>1 DEF PromptInv, HoldingInv, QueryPlaces, Has
  <2> QED BY <1>2, <1>3, <2>1 DEF HoldingInv
<1>6. ResumingInv'
  <2>1. pc' = "paused" => Has("resumed")'
    BY <1>1 DEF PromptInv, ResumingInv, PausePlaces, Has
  <2> QED BY <1>1, <1>3, <2>1 DEF ResumingInv
<1>7. CountingInv'
  BY <1>1 DEF PromptInv, CountingInv, Printed
<1> QED BY <1>4, <1>5, <1>6, <1>7 DEF PromptInv

LEMMA StoredKeepsPrompt ==
  ASSUME TypeOK, PromptInv, Stored
  PROVE  PromptInv'
<1>1. UNCHANGED <<pc, count, fifo, save, players, restarted, since>> /\ output # <<>>
  BY DEF Stored, observed
<1>2. pc \notin StartPlaces
  BY <1>1 DEF PromptInv, QuietStart, Quiet
<1>3. \A text : Shown(text)' = Shown(text)
  BY StoredFacts DEF Shown
<1>4. QuietStart'
  BY <1>1, <1>2 DEF QuietStart, StartPlaces
<1>5. HoldingInv'
  BY <1>1, <1>3, StoredFacts DEF PromptInv, HoldingInv
<1>6. Behind(fifo)' = Behind(fifo)
  BY <1>1 DEF Behind
<1>7. ResumingInv'
  BY <1>1, <1>3, <1>6, StoredFacts DEF PromptInv, ResumingInv
<1>8. CountingInv'
  BY <1>1, StoredFacts DEF PromptInv, CountingInv
<1> QED BY <1>4, <1>5, <1>7, <1>8 DEF PromptInv

LEMMA FlushedKeepsPrompt ==
  ASSUME PromptInv, Flushed
  PROVE  PromptInv'
<1>1. UNCHANGED <<pc, journal, count, fifo, output, players, restarted, since>>
      /\ save = "saving" /\ save' = "ready"
  BY DEF Flushed, caller, observed
<1>2. QuietStart'
  BY <1>1 DEF PromptInv, QuietStart, Quiet
<1>3. HoldingInv'
  BY <1>1 DEF PromptInv, HoldingInv, Shown, Printed, Has
<1>4. ResumingInv'
  BY <1>1 DEF PromptInv, ResumingInv, Shown, Printed, Has, Behind
<1>5. CountingInv'
  BY <1>1 DEF PromptInv, CountingInv, Printed
<1> QED BY <1>2, <1>3, <1>4, <1>5 DEF PromptInv

\* Nothing is read from the FIFO before the call has sent something.
LEMMA TakenAfterStart ==
  ASSUME PromptInv, NEW command, Take(command)
  PROVE  pc \notin StartPlaces
BY DEF PromptInv, QuietStart, Quiet, Take

LEMMA ListKeepsPrompt ==
  ASSUME TypeOK, PromptInv, ExecuteList
  PROVE  PromptInv'
<1>1. UNCHANGED <<pc, journal, count, save, players, restarted, since>> /\ Take("list")
  BY DEF ExecuteList, caller, observed
<1>2. pc \notin StartPlaces
  BY <1>1, TakenAfterStart
<1> DEFINE line == [text |-> "players", count |-> players]
<1>3. Printed' = Printed \cup {line}
  <2>1. <<line>> \in Seq(Lines)
    BY DEF Lines, TypeOK
  <2>2. Prints(<<line>>)
    BY DEF ExecuteList
  <2> HIDE DEF line
  <2> QED BY <1>1, <2>1, <2>2, PrintedFacts, RangeOfOne
<1>4. line.text = "players" /\ line.count = players
  OBVIOUS
<1> HIDE DEF line
<1>5. \A text : text # "players" => (Shown(text)' <=> Shown(text))
  BY <1>3, <1>4 DEF Shown
<1>6. QuietStart'
  BY <1>1, <1>2 DEF QuietStart, StartPlaces
<1>7. "list" \in Range(fifo) /\ Range(fifo') \subseteq Range(fifo)
      /\ Behind(fifo)' \subseteq Behind(fifo)
  BY <1>1, TakenFacts
<1>8. HoldingInv'
  BY <1>1, <1>7 DEF PromptInv, HoldingInv
<1>9. ResumingInv'
  <2>1. Has("resumed")' = Has("resumed")
    BY <1>1 DEF Has
  <2>2. Shown("resumed")' <=> Shown("resumed")
    BY <1>5
  <2> QED BY <1>1, <1>7, <2>1, <2>2 DEF PromptInv, ResumingInv
<1>10. CountingInv'
  <2>1. pc = "list_wait" => players \in since
    BY DEF PromptInv, CountingInv
  <2> QED BY <1>1, <1>3, <1>4, <2>1 DEF PromptInv, CountingInv
<1> QED BY <1>6, <1>8, <1>9, <1>10 DEF PromptInv

LEMMA HoldKeepsPrompt ==
  ASSUME TypeOK, PromptInv, ExecuteHold
  PROVE  PromptInv'
<1>1. UNCHANGED <<pc, journal, count, output, players, restarted, since>>
      /\ Take("save hold") /\ (save = "ready" => save' = "ready")
  BY DEF ExecuteHold, caller, observed
<1>2. pc \notin StartPlaces
  BY <1>1, TakenAfterStart
<1>3. "save hold" \in Range(fifo) /\ Range(fifo') \subseteq Range(fifo)
      /\ Behind(fifo)' \subseteq Behind(fifo)
  BY <1>1, TakenFacts
<1>4. \A text : Shown(text)' = Shown(text) /\ Has(text)' = Has(text)
  BY <1>1 DEF Shown, Printed, Has
<1>5. QuietStart'
  BY <1>1, <1>2 DEF QuietStart, StartPlaces
<1>6. HoldingInv'
  BY <1>1, <1>3, <1>4 DEF PromptInv, HoldingInv
<1>7. ResumingInv'
  BY <1>1, <1>3, <1>4 DEF PromptInv, ResumingInv
<1>8. CountingInv'
  BY <1>1 DEF PromptInv, CountingInv, Printed
<1> QED BY <1>5, <1>6, <1>7, <1>8 DEF PromptInv

\* BDS announces only what it holds.
LEMMA QueryKeepsPrompt ==
  ASSUME TypeOK, PromptInv, ExecuteQuery
  PROVE  PromptInv'
<1>1. UNCHANGED <<pc, journal, count, save, players, restarted, since>> /\ Take("save query")
  BY DEF ExecuteQuery, caller, observed
<1>2. pc \notin StartPlaces
  BY <1>1, TakenAfterStart
<1>3. Range(fifo') \subseteq Range(fifo) /\ Behind(fifo)' \subseteq Behind(fifo)
  BY <1>1, TakenFacts
<1>4. \/ Printed' = Printed
      \/ save = "ready" /\ Printed' = Printed \cup {Line("ready"), Line("files")}
  <2>1. CASE UNCHANGED output
    BY <1>1, <2>1 DEF Printed
  <2>2. CASE save = "ready" /\ Prints(<<Line("ready"), Line("files")>>)
    <3>1. <<Line("ready"), Line("files")>> \in Seq(Lines)
      BY DEF Lines
    <3> QED BY <1>1, <2>2, <3>1, PrintedFacts, RangeOfTwo
  <2> QED BY <2>1, <2>2 DEF ExecuteQuery
<1>5. Line("ready").text = "ready" /\ Line("files").text = "files"
  BY DEF Line
<1>6. QuietStart'
  BY <1>1, <1>2 DEF QuietStart, StartPlaces
<1>7. HoldingInv'
  <2>1. Has("ready")' = Has("ready")
    BY <1>1 DEF Has
  <2>2. Shown("ready")' => Shown("ready") \/ save = "ready"
    BY <1>4 DEF Shown
  <2> QED BY <1>1, <1>3, <2>1, <2>2 DEF PromptInv, HoldingInv
<1>8. ResumingInv'
  <2>1. Has("resumed")' = Has("resumed")
    BY <1>1 DEF Has
  <2>2. Shown("resumed")' => Shown("resumed")
    BY <1>4, <1>5 DEF Shown
  <2> QED BY <1>1, <1>3, <2>1, <2>2 DEF PromptInv, ResumingInv
<1>9. CountingInv'
  <2>1. ASSUME NEW line \in Printed', line.text = "players" PROVE line \in Printed
    BY <1>4, <1>5, <2>1
  <2> QED BY <1>1, <2>1 DEF PromptInv, CountingInv
<1> QED BY <1>6, <1>7, <1>8, <1>9 DEF PromptInv

\* A resume that is executed has the hold before it: no other is left.
LEMMA ResumeKeepsPrompt ==
  ASSUME TypeOK, PromptInv, ExecuteResume
  PROVE  PromptInv'
<1>1. UNCHANGED <<pc, journal, count, players, restarted, since>> /\ Take("save resume")
      /\ save' = "free"
  BY DEF ExecuteResume, caller
<1>2. pc \notin StartPlaces
  BY <1>1, TakenAfterStart
<1>3. "save resume" \in Range(fifo) /\ Range(fifo') = Behind(fifo)
      /\ Behind(fifo)' \subseteq Behind(fifo)
  BY <1>1, TakenFacts
<1>4. Printed' = Printed \cup {Line("resumed")}
  <2>1. <<Line("resumed")>> \in Seq(Lines)
    BY DEF Lines
  <2> QED BY <1>1, <2>1, PrintedFacts, RangeOfOne DEF ExecuteResume
<1>5. Line("resumed").text = "resumed"
  BY DEF Line
<1>6. QuietStart'
  BY <1>1, <1>2 DEF QuietStart, StartPlaces
<1>7. pc \notin QueryPlaces
  BY <1>3 DEF PromptInv, HoldingInv
<1>8. HoldingInv'
  BY <1>1, <1>7 DEF HoldingInv
<1>9. ResumingInv'
  <2>1. Has("resumed")' = Has("resumed")
    BY <1>1 DEF Has
  <2> QED BY <1>1, <1>3, <2>1 DEF PromptInv, ResumingInv
<1>10. CountingInv'
  <2>1. ASSUME NEW line \in Printed', line.text = "players" PROVE line \in Printed
    BY <1>4, <1>5, <2>1
  <2> QED BY <1>1, <2>1 DEF PromptInv, CountingInv
<1> QED BY <1>6, <1>8, <1>9, <1>10 DEF PromptInv

LEMMA NextKeepsPrompt == Prompt /\ TypeOK /\ PromptInv /\ [Next]_vars => PromptInv'
<1> SUFFICES ASSUME Prompt, TypeOK, PromptInv, [Next]_vars
             PROVE  PromptInv'
  OBVIOUS
<1>1. CASE BeginList \/ BeginPause
  BY <1>1, BeginKeepsPrompt
<1>2. CASE ListRaises \/ HoldCursorRaises \/ ResumeGivenUp \/ ResumeNotConfirmed
           \/ Return \/ Crash
  BY <1>2, EndKeepsPrompt
     DEF ListRaises, HoldCursorRaises, ResumeGivenUp, ResumeNotConfirmed, Return, Crash
<1>3. CASE ListCursor \/ SendList \/ ReadCount \/ HoldCursor \/ SendHold \/ SendQuery
           \/ ReadReady
  BY <1>3, CursorKeepsPrompt, SendListKeepsPrompt, ReadCountKeepsPrompt,
     SendHoldKeepsPrompt, SendQueryKeepsPrompt, ReadReadyKeepsPrompt
<1>4. CASE CopyDone \/ BodyRaises \/ ResumeCursor \/ SendResume \/ ResumeRefused \/ Resumed
  BY <1>4, BodyEndKeepsPrompt, ResumeCursorKeepsPrompt, SendResumeKeepsPrompt,
     ResumedKeepsPrompt
<1>5. CASE Execute
  BY <1>5, ListKeepsPrompt, HoldKeepsPrompt, QueryKeepsPrompt, ResumeKeepsPrompt DEF Execute
<1>6. CASE Flushed \/ Stored \/ PlayersChange \/ ServerDies \/ ServerStarts
  BY <1>6, FlushedKeepsPrompt, StoredKeepsPrompt, PlayersKeepPrompt, DeathKeepsPrompt
<1>7. CASE UNCHANGED vars
  BY <1>7, StutterKeepsPrompt DEF vars, caller, server, observed
<1> QED BY <1>1, <1>2, <1>3, <1>4, <1>5, <1>6, <1>7 DEF Next, Call, Server

LEMMA PromptInvariant == Prompt /\ Spec => []PromptInv
<1>1. Init => PromptInv
  BY DEF Init, PromptInv, QuietStart, HoldingInv, ResumingInv, CountingInv,
         StartPlaces, QueryPlaces, PausePlaces
<1>2. CASE Prompt
  <2>1. TypeOK /\ PromptInv /\ [Next]_vars => PromptInv'
    BY <1>2, NextKeepsPrompt
  <2> QED BY <1>1, <2>1, TypeCorrect, PTL DEF Spec
<1> QED BY <1>2

\* With a BDS that answers within the timeouts, the announcement a call reads
\* is an answer to its own query: as long as BDS runs, the world is held and
\* flushed from the first file copied to the last.
THEOREM WorldIsHeldWhileCopied == Prompt /\ Spec => []HeldWhileCopied
<1>1. PromptInv => HeldWhileCopied
  <2>1. ASSUME PromptInv, pc = "copy", ~restarted PROVE save = "ready"
    <3>1. Has("ready")
      BY <2>1 DEF PromptInv, HoldingInv, QueryPlaces
    <3> QED BY <2>1, <3>1, HasIsShown DEF PromptInv, HoldingInv, QueryPlaces
  <2> QED BY <2>1 DEF HeldWhileCopied
<1> QED BY <1>1, PromptInvariant, PTL

\* With such a BDS a confirmed resume is the last word: when the caller goes on
\* with its copy, BDS saves freely, however often the resume was sent.
THEOREM ResumeIsConfirmed == Prompt /\ Spec => []ResumeConfirmed
<1>1. PromptInv => ResumeConfirmed
  <2>1. ASSUME PromptInv, pc = "paused" PROVE save = "free"
    <3>1. Has("resumed")
      BY <2>1 DEF PromptInv, ResumingInv, PausePlaces
    <3> QED BY <2>1, <3>1, HasIsShown DEF PromptInv, ResumingInv, PausePlaces
  <2> QED BY <2>1 DEF ResumeConfirmed
<1> QED BY <1>1, PromptInvariant, PTL

\* With such a BDS a count is never the answer to an earlier list: it is a
\* number of players there was since the call began.
THEOREM CountIsOfThisCall == Prompt /\ Spec => []CountIsCurrent
<1>1. PromptInv => CountIsCurrent
  BY DEF PromptInv, CountingInv, CountIsCurrent
<1> QED BY <1>1, PromptInvariant, PTL
==============================================================================
