------------------------ MODULE IsolatedValidatorProofs ------------------------
(***************************************************************************)
(* What a validation guarantees for every amount of output and every server. *)
(***************************************************************************)
EXTENDS IsolatedValidator, SequenceTheorems, TLAPS

------------------------------------------------------------------------------
(***************************************************************************)
(* Types.                                                                  *)
(***************************************************************************)

\* The last n of a sequence.
LEMMA LastType ==
  ASSUME NEW s \in Seq(Pieces), NEW n \in Nat
  PROVE  Last(s, n) \in Seq(Pieces) /\ Len(Last(s, n)) <= n
<1>1. CASE Len(s) <= n
  BY <1>1 DEF Last
<1>2. CASE Len(s) > n
  <2>1. Len(s) \in Nat /\ \A i \in 1..Len(s) : s[i] \in Pieces
    BY LenProperties, ElementOfSeq
  <2>2. \A i \in (Len(s) - n + 1)..Len(s) : s[i] \in Pieces
    BY <1>2, <2>1
  <2>3. Len(s) - n + 1 \in Int /\ Len(s) \in Int
    BY <2>1
  <2>4. SubSeq(s, Len(s) - n + 1, Len(s)) \in Seq(Pieces)
    BY <2>2, <2>3, SubSeqProperties
  <2>5. Len(SubSeq(s, Len(s) - n + 1, Len(s))) <= n
    BY <2>1, <2>2, <2>3, SubSeqProperties
  <2> QED BY <1>2, <2>1, <2>4, <2>5 DEF Last
<1> QED BY <1>1, <1>2, LenProperties

LEMMA ConsumeKeepsTypes ==
  ASSUME ValidatorAssumption, TypeOK, Consume
  PROVE  /\ total' \in Nat
         /\ head' \in Seq(Pieces) /\ Len(head') <= Half
         /\ tail' \in Seq(Pieces) /\ Len(tail') <= Half
         /\ complaint' \in BOOLEAN
         /\ pipe' \in Seq(Pieces)
<1>1. Head(pipe) \in Pieces /\ pipe' \in Seq(Pieces)
  BY HeadTailProperties DEF TypeOK, Consume
<1>2. total' \in Nat
  BY DEF TypeOK, Consume
<1>3. head' \in Seq(Pieces) /\ Len(head') <= Half
  <2>1. CASE Len(head) < Half
    <3>1. /\ Append(head, Head(pipe)) \in Seq(Pieces)
          /\ Len(Append(head, Head(pipe))) = Len(head) + 1
      BY <1>1, AppendProperties DEF TypeOK
    <3>2. Len(head) \in Nat
      BY LenProperties DEF TypeOK
    <3> QED BY <2>1, <3>1, <3>2 DEF Consume, ValidatorAssumption
  <2>2. CASE ~(Len(head) < Half)
    BY <2>2 DEF TypeOK, Consume
  <2> QED BY <2>1, <2>2
<1>4. tail' \in Seq(Pieces) /\ Len(tail') <= Half
  <2>1. Append(tail, Head(pipe)) \in Seq(Pieces)
    BY <1>1, AppendProperties DEF TypeOK
  <2> QED BY <2>1, LastType DEF Consume, ValidatorAssumption
<1>5. complaint' \in BOOLEAN
  BY DEF TypeOK, Consume
<1> QED BY <1>1, <1>2, <1>3, <1>4, <1>5

LEMMA TranscriptType ==
  ASSUME ValidatorAssumption, TypeOK
  PROVE  Transcript \in Seq(Pieces \cup {"truncated"})
<1> DEFINE Logged == Pieces \cup {"truncated"}
<1>1. total \in Nat /\ Half \in Nat
  BY DEF TypeOK, ValidatorAssumption
<1>2. head \in Seq(Logged) /\ tail \in Seq(Logged)
  BY SeqMonotonic DEF TypeOK
<1>3. <<"truncated">> \in Seq(Logged)
  OBVIOUS
<1>4. CASE total <= Half
  BY <1>2, <1>4 DEF Transcript
<1>5. CASE total > Half /\ total <= 2 * Half
  <2>1. total - Half \in Nat
    BY <1>5 DEF TypeOK, ValidatorAssumption
  <2>2. Last(tail, total - Half) \in Seq(Pieces)
    BY <2>1, LastType DEF TypeOK
  <2>3. Last(tail, total - Half) \in Seq(Logged)
    BY <2>2, SeqMonotonic
  <2>4. head \o Last(tail, total - Half) \in Seq(Logged)
    BY <1>2, <2>3, ConcatProperties
  <2>5. ~(total <= Half)
    BY <1>5, <1>1
  <2> QED BY <1>5, <2>4, <2>5 DEF Transcript
<1>6. CASE total > 2 * Half
  <2>1. head \o <<"truncated">> \in Seq(Logged)
    BY <1>2, <1>3, ConcatProperties
  <2>2. (head \o <<"truncated">>) \o tail \in Seq(Logged)
    BY <1>2, <2>1, ConcatProperties
  <2>3. ~(total <= Half) /\ ~(total <= 2 * Half)
    BY <1>6, <1>1
  <2> QED BY <2>2, <2>3 DEF Transcript
<1>7. total <= Half \/ (total > Half /\ total <= 2 * Half) \/ total > 2 * Half
  BY <1>1
<1> QED BY ONLY <1>4, <1>5, <1>6, <1>7

LEMMA WriteOutputKeepsTypes ==
  ASSUME ValidatorAssumption, TypeOK, NEW piece \in Pieces, WriteOutput(piece)
  PROVE  TypeOK'
<1>1. /\ pc' \in Places
      /\ began' \in BOOLEAN
      /\ ready' \in BOOLEAN
      /\ complaint' \in BOOLEAN
      /\ eof' \in BOOLEAN
      /\ head' \in Seq(Pieces) /\ Len(head') <= Half
      /\ tail' \in Seq(Pieces) /\ Len(tail') <= Half
      /\ total' \in Nat
      /\ verdict' \in {"failed", "passed"}
      /\ reason' \in BOOLEAN
      /\ complete' \in BOOLEAN
      /\ stage' \in {"none", "there", "partial", "removed"}
      /\ log' \in Seq(Pieces \cup {"truncated"})
      /\ child' \in {"none", "alive", "exited"}
      /\ code' \in {0, 1}
      /\ signal' \in {"none", "term", "kill"}
      /\ writers' \subseteq {"server", "descendant"}
  BY DEF WriteOutput, TypeOK, reader
<1>2. pipe' \in Seq(Pieces)
  BY AppendProperties DEF WriteOutput, TypeOK
<1>3. printed' \in Seq(Pieces)
  BY AppendProperties DEF WriteOutput, TypeOK
<1> QED BY <1>1, <1>2, <1>3 DEF TypeOK

LEMMA ExitKeepsTypes ==
  ASSUME ValidatorAssumption, TypeOK, Exit
  PROVE  TypeOK'
<1>1. /\ pc' \in Places
      /\ began' \in BOOLEAN
      /\ ready' \in BOOLEAN
      /\ complaint' \in BOOLEAN
      /\ eof' \in BOOLEAN
      /\ head' \in Seq(Pieces) /\ Len(head') <= Half
      /\ tail' \in Seq(Pieces) /\ Len(tail') <= Half
      /\ total' \in Nat
      /\ verdict' \in {"failed", "passed"}
      /\ reason' \in BOOLEAN
      /\ complete' \in BOOLEAN
      /\ stage' \in {"none", "there", "partial", "removed"}
      /\ log' \in Seq(Pieces \cup {"truncated"})
      /\ signal' \in {"none", "term", "kill"}
      /\ pipe' \in Seq(Pieces)
      /\ printed' \in Seq(Pieces)
  BY DEF Exit, TypeOK, reader
<1>2. child' \in {"none", "alive", "exited"}
  BY DEF Exit, TypeOK
<1>3. code' \in {0, 1}
  BY DEF Exit, TypeOK
<1>4. writers' \subseteq {"server", "descendant"}
  BY DEF Exit, TypeOK
<1> QED BY <1>1, <1>2, <1>3, <1>4 DEF TypeOK

LEMMA CloseOutputKeepsTypes ==
  ASSUME ValidatorAssumption, TypeOK, NEW writer, CloseOutput(writer)
  PROVE  TypeOK'
<1>1. /\ pc' \in Places
      /\ began' \in BOOLEAN
      /\ ready' \in BOOLEAN
      /\ complaint' \in BOOLEAN
      /\ eof' \in BOOLEAN
      /\ head' \in Seq(Pieces) /\ Len(head') <= Half
      /\ tail' \in Seq(Pieces) /\ Len(tail') <= Half
      /\ total' \in Nat
      /\ verdict' \in {"failed", "passed"}
      /\ reason' \in BOOLEAN
      /\ complete' \in BOOLEAN
      /\ stage' \in {"none", "there", "partial", "removed"}
      /\ log' \in Seq(Pieces \cup {"truncated"})
      /\ child' \in {"none", "alive", "exited"}
      /\ code' \in {0, 1}
      /\ signal' \in {"none", "term", "kill"}
      /\ pipe' \in Seq(Pieces)
      /\ printed' \in Seq(Pieces)
  BY DEF CloseOutput, TypeOK, reader
<1>2. writers' \subseteq {"server", "descendant"}
  BY DEF CloseOutput, TypeOK
<1> QED BY <1>1, <1>2 DEF TypeOK

LEMMA CheckSpaceKeepsTypes ==
  ASSUME ValidatorAssumption, TypeOK, CheckSpace
  PROVE  TypeOK'
<1>1. /\ began' \in BOOLEAN
      /\ ready' \in BOOLEAN
      /\ complaint' \in BOOLEAN
      /\ eof' \in BOOLEAN
      /\ head' \in Seq(Pieces) /\ Len(head') <= Half
      /\ tail' \in Seq(Pieces) /\ Len(tail') <= Half
      /\ total' \in Nat
      /\ verdict' \in {"failed", "passed"}
      /\ complete' \in BOOLEAN
      /\ log' \in Seq(Pieces \cup {"truncated"})
      /\ child' \in {"none", "alive", "exited"}
      /\ code' \in {0, 1}
      /\ signal' \in {"none", "term", "kill"}
      /\ writers' \subseteq {"server", "descendant"}
      /\ pipe' \in Seq(Pieces)
      /\ printed' \in Seq(Pieces)
  BY DEF CheckSpace, TypeOK, server, Unprepared
<1>2. pc' \in Places
  BY DEF CheckSpace, TypeOK, Goto, Unprepared, Places
<1>3. reason' \in BOOLEAN
  BY DEF CheckSpace, TypeOK, Goto, Unprepared
<1>4. stage' \in {"none", "there", "partial", "removed"}
  BY DEF CheckSpace, TypeOK, Goto, Unprepared
<1> QED BY <1>1, <1>2, <1>3, <1>4 DEF TypeOK

LEMMA CopyRuntimeKeepsTypes ==
  ASSUME ValidatorAssumption, TypeOK, CopyRuntime
  PROVE  TypeOK'
<1>1. /\ began' \in BOOLEAN
      /\ ready' \in BOOLEAN
      /\ complaint' \in BOOLEAN
      /\ eof' \in BOOLEAN
      /\ head' \in Seq(Pieces) /\ Len(head') <= Half
      /\ tail' \in Seq(Pieces) /\ Len(tail') <= Half
      /\ total' \in Nat
      /\ verdict' \in {"failed", "passed"}
      /\ complete' \in BOOLEAN
      /\ stage' \in {"none", "there", "partial", "removed"}
      /\ log' \in Seq(Pieces \cup {"truncated"})
      /\ child' \in {"none", "alive", "exited"}
      /\ code' \in {0, 1}
      /\ signal' \in {"none", "term", "kill"}
      /\ writers' \subseteq {"server", "descendant"}
      /\ pipe' \in Seq(Pieces)
      /\ printed' \in Seq(Pieces)
  BY DEF CopyRuntime, TypeOK, server, Unprepared
<1>2. pc' \in Places
  BY DEF CopyRuntime, TypeOK, Goto, Unprepared, Places
<1>3. reason' \in BOOLEAN
  BY DEF CopyRuntime, TypeOK, Goto, Unprepared
<1> QED BY <1>1, <1>2, <1>3 DEF TypeOK

LEMMA SpawnKeepsTypes ==
  ASSUME ValidatorAssumption, TypeOK, Spawn
  PROVE  TypeOK'
<1>1. /\ began' \in BOOLEAN
      /\ ready' \in BOOLEAN
      /\ complaint' \in BOOLEAN
      /\ eof' \in BOOLEAN
      /\ head' \in Seq(Pieces) /\ Len(head') <= Half
      /\ tail' \in Seq(Pieces) /\ Len(tail') <= Half
      /\ total' \in Nat
      /\ verdict' \in {"failed", "passed"}
      /\ complete' \in BOOLEAN
      /\ stage' \in {"none", "there", "partial", "removed"}
      /\ log' \in Seq(Pieces \cup {"truncated"})
      /\ code' \in {0, 1}
      /\ signal' \in {"none", "term", "kill"}
      /\ pipe' \in Seq(Pieces)
      /\ printed' \in Seq(Pieces)
  BY DEF Spawn, TypeOK, server, Unprepared
<1>2. pc' \in Places
  BY DEF Spawn, TypeOK, Goto, Unprepared, Places
<1>3. reason' \in BOOLEAN
  BY DEF Spawn, TypeOK, Goto, Unprepared
<1>4. child' \in {"none", "alive", "exited"}
  BY DEF Spawn, TypeOK, Goto, Unprepared
<1>5. writers' \subseteq {"server", "descendant"}
  BY DEF Spawn, TypeOK, Goto, Unprepared
<1> QED BY <1>1, <1>2, <1>3, <1>4, <1>5 DEF TypeOK

LEMMA ReadStartupKeepsTypes ==
  ASSUME ValidatorAssumption, TypeOK, ReadStartup
  PROVE  TypeOK'
<1>1. /\ pc' \in Places
      /\ ready' \in BOOLEAN
      /\ eof' \in BOOLEAN
      /\ verdict' \in {"failed", "passed"}
      /\ reason' \in BOOLEAN
      /\ complete' \in BOOLEAN
      /\ stage' \in {"none", "there", "partial", "removed"}
      /\ log' \in Seq(Pieces \cup {"truncated"})
      /\ child' \in {"none", "alive", "exited"}
      /\ code' \in {0, 1}
      /\ signal' \in {"none", "term", "kill"}
      /\ writers' \subseteq {"server", "descendant"}
      /\ printed' \in Seq(Pieces)
  BY DEF ReadStartup, TypeOK, server, Consume
<1>2. /\ total' \in Nat
      /\ head' \in Seq(Pieces) /\ Len(head') <= Half
      /\ tail' \in Seq(Pieces) /\ Len(tail') <= Half
      /\ complaint' \in BOOLEAN
      /\ pipe' \in Seq(Pieces)
  BY ConsumeKeepsTypes DEF ReadStartup
<1>3. began' \in BOOLEAN
  BY DEF ReadStartup, TypeOK, Consume
<1> QED BY <1>1, <1>2, <1>3 DEF TypeOK

LEMMA StartupRaisesKeepsTypes ==
  ASSUME ValidatorAssumption, TypeOK, StartupRaises
  PROVE  TypeOK'
<1>1. /\ began' \in BOOLEAN
      /\ ready' \in BOOLEAN
      /\ eof' \in BOOLEAN
      /\ verdict' \in {"failed", "passed"}
      /\ complete' \in BOOLEAN
      /\ stage' \in {"none", "there", "partial", "removed"}
      /\ log' \in Seq(Pieces \cup {"truncated"})
      /\ child' \in {"none", "alive", "exited"}
      /\ code' \in {0, 1}
      /\ signal' \in {"none", "term", "kill"}
      /\ writers' \subseteq {"server", "descendant"}
      /\ printed' \in Seq(Pieces)
  BY DEF StartupRaises, TypeOK, server, NothingRead
<1>2. /\ total' \in Nat
      /\ head' \in Seq(Pieces) /\ Len(head') <= Half
      /\ tail' \in Seq(Pieces) /\ Len(tail') <= Half
      /\ complaint' \in BOOLEAN
      /\ pipe' \in Seq(Pieces)
  BY ConsumeKeepsTypes DEF StartupRaises, NothingRead, TypeOK
<1>3. pc' \in Places
  BY DEF StartupRaises, TypeOK, Goto, NothingRead, Places
<1>4. reason' \in BOOLEAN
  BY DEF StartupRaises, TypeOK, Goto, NothingRead
<1> QED BY <1>1, <1>2, <1>3, <1>4 DEF TypeOK

LEMMA StartupReadyKeepsTypes ==
  ASSUME ValidatorAssumption, TypeOK, StartupReady
  PROVE  TypeOK'
<1>1. /\ began' \in BOOLEAN
      /\ eof' \in BOOLEAN
      /\ verdict' \in {"failed", "passed"}
      /\ reason' \in BOOLEAN
      /\ complete' \in BOOLEAN
      /\ stage' \in {"none", "there", "partial", "removed"}
      /\ log' \in Seq(Pieces \cup {"truncated"})
      /\ child' \in {"none", "alive", "exited"}
      /\ code' \in {0, 1}
      /\ signal' \in {"none", "term", "kill"}
      /\ writers' \subseteq {"server", "descendant"}
      /\ printed' \in Seq(Pieces)
  BY DEF StartupReady, TypeOK, server, NothingRead
<1>2. /\ total' \in Nat
      /\ head' \in Seq(Pieces) /\ Len(head') <= Half
      /\ tail' \in Seq(Pieces) /\ Len(tail') <= Half
      /\ complaint' \in BOOLEAN
      /\ pipe' \in Seq(Pieces)
  BY ConsumeKeepsTypes DEF StartupReady, NothingRead, TypeOK
<1>3. pc' \in Places
  BY DEF StartupReady, TypeOK, Goto, NothingRead, Places
<1>4. ready' \in BOOLEAN
  BY DEF StartupReady, TypeOK, Goto, NothingRead
<1> QED BY <1>1, <1>2, <1>3, <1>4 DEF TypeOK

LEMMA StartupTimesOutKeepsTypes ==
  ASSUME ValidatorAssumption, TypeOK, StartupTimesOut
  PROVE  TypeOK'
<1>1. /\ began' \in BOOLEAN
      /\ ready' \in BOOLEAN
      /\ complaint' \in BOOLEAN
      /\ eof' \in BOOLEAN
      /\ head' \in Seq(Pieces) /\ Len(head') <= Half
      /\ tail' \in Seq(Pieces) /\ Len(tail') <= Half
      /\ total' \in Nat
      /\ verdict' \in {"failed", "passed"}
      /\ complete' \in BOOLEAN
      /\ stage' \in {"none", "there", "partial", "removed"}
      /\ log' \in Seq(Pieces \cup {"truncated"})
      /\ child' \in {"none", "alive", "exited"}
      /\ code' \in {0, 1}
      /\ signal' \in {"none", "term", "kill"}
      /\ writers' \subseteq {"server", "descendant"}
      /\ pipe' \in Seq(Pieces)
      /\ printed' \in Seq(Pieces)
  BY DEF StartupTimesOut, TypeOK, server
<1>2. pc' \in Places
  BY DEF StartupTimesOut, TypeOK, Goto, Places
<1>3. reason' \in BOOLEAN
  BY DEF StartupTimesOut, TypeOK, Goto
<1> QED BY <1>1, <1>2, <1>3 DEF TypeOK

LEMMA TellToStopKeepsTypes ==
  ASSUME ValidatorAssumption, TypeOK, TellToStop
  PROVE  TypeOK'
<1>1. /\ began' \in BOOLEAN
      /\ ready' \in BOOLEAN
      /\ complaint' \in BOOLEAN
      /\ head' \in Seq(Pieces) /\ Len(head') <= Half
      /\ tail' \in Seq(Pieces) /\ Len(tail') <= Half
      /\ total' \in Nat
      /\ complete' \in BOOLEAN
      /\ stage' \in {"none", "there", "partial", "removed"}
      /\ log' \in Seq(Pieces \cup {"truncated"})
      /\ child' \in {"none", "alive", "exited"}
      /\ code' \in {0, 1}
      /\ signal' \in {"none", "term", "kill"}
      /\ writers' \subseteq {"server", "descendant"}
      /\ pipe' \in Seq(Pieces)
      /\ printed' \in Seq(Pieces)
  BY DEF TellToStop, TypeOK, server, Drain, ShutdownRaises
<1>2. pc' \in Places
  BY DEF TellToStop, TypeOK, Goto, Drain, ShutdownRaises, Places
<1>3. eof' \in BOOLEAN
  BY DEF TellToStop, TypeOK, Goto, Drain, ShutdownRaises
<1>4. verdict' \in {"failed", "passed"}
  BY DEF TellToStop, TypeOK, Goto, Drain, ShutdownRaises
<1>5. reason' \in BOOLEAN
  BY DEF TellToStop, TypeOK, Goto, Drain, ShutdownRaises
<1> QED BY <1>1, <1>2, <1>3, <1>4, <1>5 DEF TypeOK

LEMMA DrainReadKeepsTypes ==
  ASSUME ValidatorAssumption, TypeOK, DrainRead
  PROVE  TypeOK'
<1>1. /\ pc' \in Places
      /\ began' \in BOOLEAN
      /\ ready' \in BOOLEAN
      /\ eof' \in BOOLEAN
      /\ verdict' \in {"failed", "passed"}
      /\ reason' \in BOOLEAN
      /\ complete' \in BOOLEAN
      /\ stage' \in {"none", "there", "partial", "removed"}
      /\ log' \in Seq(Pieces \cup {"truncated"})
      /\ child' \in {"none", "alive", "exited"}
      /\ code' \in {0, 1}
      /\ signal' \in {"none", "term", "kill"}
      /\ writers' \subseteq {"server", "descendant"}
      /\ printed' \in Seq(Pieces)
  BY DEF DrainRead, TypeOK, server, Consume
<1>2. /\ total' \in Nat
      /\ head' \in Seq(Pieces) /\ Len(head') <= Half
      /\ tail' \in Seq(Pieces) /\ Len(tail') <= Half
      /\ complaint' \in BOOLEAN
      /\ pipe' \in Seq(Pieces)
  BY ConsumeKeepsTypes DEF DrainRead
<1> QED BY <1>1, <1>2 DEF TypeOK

LEMMA DrainEofKeepsTypes ==
  ASSUME ValidatorAssumption, TypeOK, DrainEof
  PROVE  TypeOK'
<1>1. /\ pc' \in Places
      /\ began' \in BOOLEAN
      /\ ready' \in BOOLEAN
      /\ complaint' \in BOOLEAN
      /\ head' \in Seq(Pieces) /\ Len(head') <= Half
      /\ tail' \in Seq(Pieces) /\ Len(tail') <= Half
      /\ total' \in Nat
      /\ verdict' \in {"failed", "passed"}
      /\ reason' \in BOOLEAN
      /\ complete' \in BOOLEAN
      /\ stage' \in {"none", "there", "partial", "removed"}
      /\ log' \in Seq(Pieces \cup {"truncated"})
      /\ child' \in {"none", "alive", "exited"}
      /\ code' \in {0, 1}
      /\ signal' \in {"none", "term", "kill"}
      /\ writers' \subseteq {"server", "descendant"}
      /\ pipe' \in Seq(Pieces)
      /\ printed' \in Seq(Pieces)
  BY DEF DrainEof, TypeOK, server
<1>2. eof' \in BOOLEAN
  BY DEF DrainEof, TypeOK
<1> QED BY <1>1, <1>2 DEF TypeOK

LEMMA DrainEndsKeepsTypes ==
  ASSUME ValidatorAssumption, TypeOK, DrainEnds
  PROVE  TypeOK'
<1>1. /\ began' \in BOOLEAN
      /\ ready' \in BOOLEAN
      /\ complaint' \in BOOLEAN
      /\ eof' \in BOOLEAN
      /\ head' \in Seq(Pieces) /\ Len(head') <= Half
      /\ tail' \in Seq(Pieces) /\ Len(tail') <= Half
      /\ total' \in Nat
      /\ verdict' \in {"failed", "passed"}
      /\ reason' \in BOOLEAN
      /\ stage' \in {"none", "there", "partial", "removed"}
      /\ log' \in Seq(Pieces \cup {"truncated"})
      /\ child' \in {"none", "alive", "exited"}
      /\ code' \in {0, 1}
      /\ signal' \in {"none", "term", "kill"}
      /\ writers' \subseteq {"server", "descendant"}
      /\ pipe' \in Seq(Pieces)
      /\ printed' \in Seq(Pieces)
  BY DEF DrainEnds, TypeOK, server
<1>2. pc' \in Places
  BY DEF DrainEnds, TypeOK, Goto, Places
<1>3. complete' \in BOOLEAN
  BY DEF DrainEnds, TypeOK, Goto
<1> QED BY <1>1, <1>2, <1>3 DEF TypeOK

LEMMA DrainTimesOutKeepsTypes ==
  ASSUME ValidatorAssumption, TypeOK, DrainTimesOut
  PROVE  TypeOK'
<1>1. /\ began' \in BOOLEAN
      /\ ready' \in BOOLEAN
      /\ complaint' \in BOOLEAN
      /\ eof' \in BOOLEAN
      /\ head' \in Seq(Pieces) /\ Len(head') <= Half
      /\ tail' \in Seq(Pieces) /\ Len(tail') <= Half
      /\ total' \in Nat
      /\ complete' \in BOOLEAN
      /\ stage' \in {"none", "there", "partial", "removed"}
      /\ log' \in Seq(Pieces \cup {"truncated"})
      /\ child' \in {"none", "alive", "exited"}
      /\ code' \in {0, 1}
      /\ signal' \in {"none", "term", "kill"}
      /\ writers' \subseteq {"server", "descendant"}
      /\ pipe' \in Seq(Pieces)
      /\ printed' \in Seq(Pieces)
  BY DEF DrainTimesOut, TypeOK, server, ShutdownRaises
<1>2. pc' \in Places
  BY DEF DrainTimesOut, TypeOK, Goto, ShutdownRaises, Places
<1>3. verdict' \in {"failed", "passed"}
  BY DEF DrainTimesOut, TypeOK, Goto, ShutdownRaises
<1>4. reason' \in BOOLEAN
  BY DEF DrainTimesOut, TypeOK, Goto, ShutdownRaises
<1> QED BY <1>1, <1>2, <1>3, <1>4 DEF TypeOK

LEMMA JudgeKeepsTypes ==
  ASSUME ValidatorAssumption, TypeOK, Judge
  PROVE  TypeOK'
<1>1. /\ began' \in BOOLEAN
      /\ ready' \in BOOLEAN
      /\ complaint' \in BOOLEAN
      /\ eof' \in BOOLEAN
      /\ head' \in Seq(Pieces) /\ Len(head') <= Half
      /\ tail' \in Seq(Pieces) /\ Len(tail') <= Half
      /\ total' \in Nat
      /\ complete' \in BOOLEAN
      /\ stage' \in {"none", "there", "partial", "removed"}
      /\ log' \in Seq(Pieces \cup {"truncated"})
      /\ child' \in {"none", "alive", "exited"}
      /\ code' \in {0, 1}
      /\ signal' \in {"none", "term", "kill"}
      /\ writers' \subseteq {"server", "descendant"}
      /\ pipe' \in Seq(Pieces)
      /\ printed' \in Seq(Pieces)
  BY DEF Judge, TypeOK, server, ShutdownRaises
<1>2. pc' \in Places
  BY DEF Judge, TypeOK, Goto, ShutdownRaises, Places
<1>3. verdict' \in {"failed", "passed"}
  BY DEF Judge, TypeOK, Goto, ShutdownRaises
<1>4. reason' \in BOOLEAN
  BY DEF Judge, TypeOK, Goto, ShutdownRaises
<1> QED BY <1>1, <1>2, <1>3, <1>4 DEF TypeOK

LEMMA SendSignalKeepsTypes ==
  ASSUME ValidatorAssumption, TypeOK, SendSignal
  PROVE  TypeOK'
<1>1. /\ began' \in BOOLEAN
      /\ ready' \in BOOLEAN
      /\ complaint' \in BOOLEAN
      /\ head' \in Seq(Pieces) /\ Len(head') <= Half
      /\ tail' \in Seq(Pieces) /\ Len(tail') <= Half
      /\ total' \in Nat
      /\ verdict' \in {"failed", "passed"}
      /\ reason' \in BOOLEAN
      /\ complete' \in BOOLEAN
      /\ stage' \in {"none", "there", "partial", "removed"}
      /\ log' \in Seq(Pieces \cup {"truncated"})
      /\ child' \in {"none", "alive", "exited"}
      /\ code' \in {0, 1}
      /\ writers' \subseteq {"server", "descendant"}
      /\ pipe' \in Seq(Pieces)
      /\ printed' \in Seq(Pieces)
  BY DEF SendSignal, TypeOK, server, Drain
<1>2. pc' \in Places
  BY DEF SendSignal, TypeOK, Goto, Drain, DrainAfter, SignalAt, Places
<1>3. eof' \in BOOLEAN
  BY DEF SendSignal, TypeOK, Goto, Drain, DrainAfter, SignalAt
<1>4. signal' \in {"none", "term", "kill"}
  BY DEF SendSignal, TypeOK, Goto, Drain, DrainAfter, SignalAt
<1> QED BY <1>1, <1>2, <1>3, <1>4 DEF TypeOK

LEMMA ForcedDrainEndsKeepsTypes ==
  ASSUME ValidatorAssumption, TypeOK, ForcedDrainEnds
  PROVE  TypeOK'
<1>1. /\ began' \in BOOLEAN
      /\ ready' \in BOOLEAN
      /\ complaint' \in BOOLEAN
      /\ eof' \in BOOLEAN
      /\ head' \in Seq(Pieces) /\ Len(head') <= Half
      /\ tail' \in Seq(Pieces) /\ Len(tail') <= Half
      /\ total' \in Nat
      /\ verdict' \in {"failed", "passed"}
      /\ reason' \in BOOLEAN
      /\ stage' \in {"none", "there", "partial", "removed"}
      /\ log' \in Seq(Pieces \cup {"truncated"})
      /\ child' \in {"none", "alive", "exited"}
      /\ code' \in {0, 1}
      /\ signal' \in {"none", "term", "kill"}
      /\ writers' \subseteq {"server", "descendant"}
      /\ pipe' \in Seq(Pieces)
      /\ printed' \in Seq(Pieces)
  BY DEF ForcedDrainEnds, TypeOK, server
<1>2. pc' \in Places
  BY DEF ForcedDrainEnds, TypeOK, Goto, Places
<1>3. complete' \in BOOLEAN
  BY DEF ForcedDrainEnds, TypeOK, Goto
<1> QED BY <1>1, <1>2, <1>3 DEF TypeOK

LEMMA CleanupKeepsTypes ==
  ASSUME ValidatorAssumption, TypeOK, Cleanup
  PROVE  TypeOK'
<1>1. /\ began' \in BOOLEAN
      /\ ready' \in BOOLEAN
      /\ complaint' \in BOOLEAN
      /\ eof' \in BOOLEAN
      /\ head' \in Seq(Pieces) /\ Len(head') <= Half
      /\ tail' \in Seq(Pieces) /\ Len(tail') <= Half
      /\ total' \in Nat
      /\ complete' \in BOOLEAN
      /\ log' \in Seq(Pieces \cup {"truncated"})
      /\ child' \in {"none", "alive", "exited"}
      /\ code' \in {0, 1}
      /\ signal' \in {"none", "term", "kill"}
      /\ writers' \subseteq {"server", "descendant"}
      /\ pipe' \in Seq(Pieces)
      /\ printed' \in Seq(Pieces)
  BY DEF Cleanup, TypeOK, server
<1>2. pc' \in Places
  BY DEF Cleanup, TypeOK, Goto, Places
<1>3. stage' \in {"none", "there", "partial", "removed"}
  BY DEF Cleanup, TypeOK, Goto
<1>4. verdict' \in {"failed", "passed"}
  BY DEF Cleanup, TypeOK, Goto
<1>5. reason' \in BOOLEAN
  BY DEF Cleanup, TypeOK, Goto
<1> QED BY <1>1, <1>2, <1>3, <1>4, <1>5 DEF TypeOK

LEMMA WriteLogKeepsTypes ==
  ASSUME ValidatorAssumption, TypeOK, WriteLog
  PROVE  TypeOK'
<1>1. /\ began' \in BOOLEAN
      /\ ready' \in BOOLEAN
      /\ complaint' \in BOOLEAN
      /\ eof' \in BOOLEAN
      /\ head' \in Seq(Pieces) /\ Len(head') <= Half
      /\ tail' \in Seq(Pieces) /\ Len(tail') <= Half
      /\ total' \in Nat
      /\ complete' \in BOOLEAN
      /\ stage' \in {"none", "there", "partial", "removed"}
      /\ child' \in {"none", "alive", "exited"}
      /\ code' \in {0, 1}
      /\ signal' \in {"none", "term", "kill"}
      /\ writers' \subseteq {"server", "descendant"}
      /\ pipe' \in Seq(Pieces)
      /\ printed' \in Seq(Pieces)
  BY DEF WriteLog, TypeOK, server
<1>2. pc' \in Places
  BY DEF WriteLog, TypeOK, Goto, Places
<1>3. verdict' \in {"failed", "passed"}
  BY DEF WriteLog, TypeOK, Goto
<1>4. reason' \in BOOLEAN
  BY DEF WriteLog, TypeOK, Goto
<1>5. log' \in Seq(Pieces \cup {"truncated"})
  BY TranscriptType DEF WriteLog, TypeOK, Goto
<1> QED BY <1>1, <1>2, <1>3, <1>4, <1>5 DEF TypeOK
LEMMA InitTypes == ValidatorAssumption /\ Init => TypeOK
<1> SUFFICES ASSUME ValidatorAssumption, Init PROVE TypeOK
  OBVIOUS
<1>1. pc \in Places
  BY DEF Init, Places
<1>2. /\ head \in Seq(Pieces) /\ Len(head) <= Half
      /\ tail \in Seq(Pieces) /\ Len(tail) <= Half
      /\ log \in Seq(Pieces \cup {"truncated"})
      /\ pipe \in Seq(Pieces) /\ printed \in Seq(Pieces)
  BY EmptySeq DEF Init, ValidatorAssumption
<1>3. /\ total \in Nat /\ verdict \in {"failed", "passed"}
      /\ stage \in {"none", "there", "partial", "removed"}
      /\ child \in {"none", "alive", "exited"} /\ code \in {0, 1}
      /\ signal \in {"none", "term", "kill"}
      /\ writers \subseteq {"server", "descendant"}
  BY DEF Init
<1>4. began \in BOOLEAN
  BY DEF Init
<1>5. ready \in BOOLEAN
  BY DEF Init
<1>6. complaint \in BOOLEAN
  BY DEF Init
<1>7. eof \in BOOLEAN
  BY DEF Init
<1>8. reason \in BOOLEAN
  BY DEF Init
<1>9. complete \in BOOLEAN
  BY DEF Init
<1> QED BY <1>1, <1>2, <1>3, <1>4, <1>5, <1>6, <1>7, <1>8, <1>9 DEF TypeOK

LEMMA NextKeepsTypes == ValidatorAssumption /\ TypeOK /\ [Next]_vars => TypeOK'
<1> SUFFICES ASSUME ValidatorAssumption, TypeOK, [Next]_vars PROVE TypeOK'
  OBVIOUS
<1>1. CASE Verify
  BY <1>1, CheckSpaceKeepsTypes, CopyRuntimeKeepsTypes, SpawnKeepsTypes,
     ReadStartupKeepsTypes, StartupRaisesKeepsTypes, StartupReadyKeepsTypes,
     StartupTimesOutKeepsTypes, TellToStopKeepsTypes, DrainReadKeepsTypes,
     DrainEofKeepsTypes, DrainEndsKeepsTypes, DrainTimesOutKeepsTypes,
     JudgeKeepsTypes, SendSignalKeepsTypes, ForcedDrainEndsKeepsTypes,
     CleanupKeepsTypes, WriteLogKeepsTypes
     DEF Verify
<1>2. CASE Server
  BY <1>2, WriteOutputKeepsTypes, ExitKeepsTypes, CloseOutputKeepsTypes DEF Server
<1>3. CASE UNCHANGED vars
  BY <1>3 DEF vars, reader, server, TypeOK
<1> QED BY <1>1, <1>2, <1>3 DEF Next

\* The variables have their types in every reachable state.
THEOREM TypeCorrect == Spec => []TypeOK
<1>1. Init => TypeOK
  BY InitTypes, ValidatorAssumption
<1>2. TypeOK /\ [Next]_vars => TypeOK'
  BY NextKeepsTypes, ValidatorAssumption
<1> QED BY <1>1, <1>2, PTL DEF Spec

------------------------------------------------------------------------------
(***************************************************************************)
(* What has been read, and what the code knows of it.                      *)
(***************************************************************************)

Unspawned == {"space", "runtime", "spawn"}

\* The pieces read are the first `total' of those printed, the pipe holds the rest.
PipeHoldsRest ==
  /\ Len(printed) = total + Len(pipe)
  /\ \A i \in 1..Len(pipe) : pipe[i] = printed[total + i]

\* What was read has been noticed.
Noticed ==
  /\ \A i \in 1..total : printed[i] = "complaint" => complaint
  /\ began => \E i \in 1..total : printed[i] = "started"
  /\ ready => began

\* The end of the output is final.
EndIsFinal ==
  /\ pc \in Unspawned => child = "none" /\ writers = {} /\ ~eof
  /\ child = "none" => writers = {} /\ pc \in Unspawned \cup {"cleanup", "log", "done"}
  /\ eof => pipe = <<>> /\ writers = {}
  /\ complete => pipe = <<>> /\ writers = {} /\ child = "exited"

\* The verdict so far.
VerdictEarned ==
  /\ pc = "judge" => complete
  /\ pc \in Unspawned \cup {"startup", "stop", "drain", "judge"} => signal = "none"
  /\ verdict = "passed" =>
       /\ pc \in {"cleanup", "log", "done"}
       /\ complete /\ ready /\ ~complaint
       /\ code = 0 /\ signal = "none"
       /\ pc # "cleanup" => stage = "removed"

\* The stage, and who may outlive the validation.
StageKept ==
  /\ pc \notin {"space", "cleanup", "log", "done"} => stage = "there"
  /\ pc = "cleanup" /\ child # "none" => stage = "there"
  /\ pc = "drain_killed" => child = "exited" \/ signal = "kill"
  /\ pc = "cleanup" /\ child = "alive" => signal = "kill"
  /\ pc \in {"log", "done"} /\ (child = "alive" \/ stage = "there") =>
       signal = "kill" /\ verdict = "failed"

ReadInv == PipeHoldsRest /\ Noticed
VerdictInv == EndIsFinal /\ VerdictEarned /\ StageKept

LEMMA InitEstablishes == ValidatorAssumption /\ Init => ReadInv /\ VerdictInv
<1> SUFFICES ASSUME Init PROVE ReadInv /\ VerdictInv
  OBVIOUS
<1>1. ReadInv
  BY DEF Init, ReadInv, PipeHoldsRest, Noticed
<1>2. EndIsFinal
  BY DEF Init, EndIsFinal, Unspawned
<1>3. VerdictEarned
  BY DEF Init, VerdictEarned
<1>4. StageKept
  BY DEF Init, StageKept
<1> QED BY <1>1, <1>2, <1>3, <1>4 DEF VerdictInv

\* Reading a piece.
LEMMA ConsumeFacts ==
  ASSUME TypeOK, PipeHoldsRest, Consume, UNCHANGED printed
  PROVE  /\ PipeHoldsRest'
         /\ total' = total + 1 /\ total + 1 \in 1..Len(printed)
         /\ printed[total + 1] = Head(pipe)
<1>1. /\ Len(pipe) \in Nat /\ Len(printed) \in Nat /\ total \in Nat
      /\ pipe # <<>> /\ pipe' = Tail(pipe) /\ total' = total + 1
  BY LenProperties DEF TypeOK, Consume
<1>2. /\ Len(pipe') = Len(pipe) - 1
      /\ \A i \in 1..Len(pipe') : pipe'[i] = pipe[i + 1]
      /\ Head(pipe) = pipe[1] /\ Len(pipe) >= 1
  <2>1. pipe \in Seq(Pieces) /\ pipe # <<>>
    BY <1>1 DEF TypeOK
  <2>2. /\ Len(Tail(pipe)) = Len(pipe) - 1
        /\ \A i \in 1..Len(Tail(pipe)) : Tail(pipe)[i] = pipe[i + 1]
    BY <2>1, HeadTailProperties
  <2>3. Len(pipe) # 0
    BY <2>1, EmptySeq
  <2> QED BY <1>1, <2>1, <2>2, <2>3
<1>3. Len(printed) = total + Len(pipe) /\ \A i \in 1..Len(pipe) : pipe[i] = printed[total + i]
  BY DEF PipeHoldsRest
<1>4. total + 1 \in 1..Len(printed) /\ printed[total + 1] = Head(pipe)
  BY <1>1, <1>2, <1>3
<1>5. Len(printed') = total' + Len(pipe')
  BY <1>1, <1>2, <1>3
<1>6. ASSUME NEW i \in 1..Len(pipe') PROVE pipe'[i] = printed'[total' + i]
  <2>1. i + 1 \in 1..Len(pipe) /\ total + (i + 1) = total' + i
    BY <1>1, <1>2, <1>6
  <2> QED BY <1>2, <1>3, <1>6, <2>1
<1> QED BY <1>1, <1>4, <1>5, <1>6 DEF PipeHoldsRest

LEMMA ConsumeKeepsNoticed ==
  ASSUME TypeOK, ReadInv, Consume, UNCHANGED printed,
         began' => began \/ Head(pipe) = "started",
         ready' => began'
  PROVE  ReadInv'
<1>1. /\ PipeHoldsRest' /\ total \in Nat
      /\ total' = total + 1 /\ printed[total + 1] = Head(pipe)
  BY ConsumeFacts DEF ReadInv, TypeOK
<1>2. complaint' = (complaint \/ Head(pipe) = "complaint")
  BY DEF Consume
<1>3. ASSUME NEW i \in 1..total', printed'[i] = "complaint" PROVE complaint'
  <2>1. i \in 1..total \/ i = total + 1
    BY <1>1, <1>3
  <2> QED BY <1>1, <1>2, <1>3, <2>1 DEF ReadInv, Noticed
<1>4. ASSUME began' PROVE \E i \in 1..total' : printed'[i] = "started"
  <2>1. CASE began
    <3>1. PICK i \in 1..total : printed[i] = "started"
      BY <2>1 DEF ReadInv, Noticed
    <3> QED BY <1>1, <3>1
  <2>2. CASE Head(pipe) = "started"
    <3>1. total + 1 \in 1..total'
      BY <1>1
    <3> QED BY <1>1, <2>2, <3>1
  <2> QED BY <1>4, <2>1, <2>2
<1> QED BY <1>1, <1>3, <1>4 DEF ReadInv, Noticed

LEMMA WriteOutputKeepsRead ==
  ASSUME TypeOK, ReadInv, NEW piece \in Pieces, WriteOutput(piece)
  PROVE  ReadInv'
<1>1. /\ pipe \in Seq(Pieces) /\ printed \in Seq(Pieces) /\ total \in Nat
      /\ pipe' = Append(pipe, piece) /\ printed' = Append(printed, piece)
      /\ total' = total /\ complaint' = complaint /\ began' = began /\ ready' = ready
  BY DEF TypeOK, WriteOutput, reader
<1>2. /\ Len(pipe) \in Nat /\ Len(printed) \in Nat
      /\ Len(pipe') = Len(pipe) + 1 /\ Len(printed') = Len(printed) + 1
      /\ \A i \in 1..Len(pipe) : pipe'[i] = pipe[i]
      /\ \A i \in 1..Len(printed) : printed'[i] = printed[i]
      /\ pipe'[Len(pipe) + 1] = piece /\ printed'[Len(printed) + 1] = piece
  BY <1>1, AppendProperties, LenProperties
<1>3. Len(printed) = total + Len(pipe) /\ \A i \in 1..Len(pipe) : pipe[i] = printed[total + i]
  BY DEF ReadInv, PipeHoldsRest
<1>4. ASSUME NEW i \in 1..Len(pipe') PROVE pipe'[i] = printed'[total' + i]
  <2>1. CASE i \in 1..Len(pipe)
    <3>1. total + i \in 1..Len(printed)
      BY <1>1, <1>2, <1>3, <2>1
    <3> QED BY <1>1, <1>2, <1>3, <2>1, <3>1
  <2>2. CASE i = Len(pipe) + 1
    <3>1. total + i = Len(printed) + 1
      BY <1>1, <1>2, <1>3, <2>2
    <3> QED BY <1>1, <1>2, <2>2, <3>1
  <2> QED BY <1>2, <1>4, <2>1, <2>2
<1>5. PipeHoldsRest'
  BY <1>1, <1>2, <1>3, <1>4 DEF PipeHoldsRest
<1>6. \A i \in 1..total : i \in 1..Len(printed)
  BY <1>1, <1>2, <1>3
<1>7. Noticed'
  BY <1>1, <1>2, <1>6 DEF ReadInv, Noticed
<1> QED BY <1>5, <1>7 DEF ReadInv

LEMMA NextKeepsRead ==
  ASSUME TypeOK, ReadInv, VerdictInv, [Next]_vars
  PROVE  ReadInv'
<1>1. ASSUME UNCHANGED <<pipe, printed, total, complaint, began, ready>> PROVE ReadInv'
  BY <1>1 DEF ReadInv, PipeHoldsRest, Noticed
<1>2. CASE \E piece \in Pieces : WriteOutput(piece)
  BY <1>2, WriteOutputKeepsRead
<1>3. CASE Exit
  BY <1>1, <1>3 DEF Exit, reader
<1>4. CASE \E writer \in {"server", "descendant"} : CloseOutput(writer)
  BY <1>1, <1>4 DEF CloseOutput, reader
<1>5. CASE CheckSpace \/ CopyRuntime
  BY <1>1, <1>5 DEF CheckSpace, CopyRuntime, server
<1>6. CASE Spawn
  BY <1>1, <1>6 DEF Spawn
<1>7. CASE ReadStartup
  BY <1>7, ConsumeKeepsNoticed DEF ReadStartup, ReadInv, Noticed
<1>8. CASE StartupRaises
  <2>1. CASE Consume
    BY <1>8, <2>1, ConsumeKeepsNoticed DEF StartupRaises, ReadInv, Noticed
  <2>2. CASE NothingRead
    BY <1>1, <1>8, <2>2 DEF StartupRaises, NothingRead
  <2> QED BY <1>8, <2>1, <2>2 DEF StartupRaises
<1>9. CASE StartupReady
  <2>1. CASE Consume
    BY <1>9, <2>1, ConsumeKeepsNoticed DEF StartupReady, ReadInv, Noticed
  <2>2. CASE NothingRead
    BY <1>9, <2>2 DEF StartupReady, NothingRead, ReadInv, PipeHoldsRest, Noticed
  <2> QED BY <1>9, <2>1, <2>2 DEF StartupReady
<1>10. CASE StartupTimesOut
  BY <1>1, <1>10 DEF StartupTimesOut, server
<1>11. CASE TellToStop
  BY <1>1, <1>11 DEF TellToStop, server
<1>12. CASE DrainRead
  BY <1>12, ConsumeKeepsNoticed DEF DrainRead, ReadInv, Noticed
<1>13. CASE DrainEof
  BY <1>1, <1>13 DEF DrainEof, server
<1>14. CASE DrainEnds
  BY <1>1, <1>14 DEF DrainEnds, server
<1>15. CASE DrainTimesOut
  BY <1>1, <1>15 DEF DrainTimesOut, server
<1>16. CASE Judge
  BY <1>1, <1>16 DEF Judge, server
<1>17. CASE SendSignal
  BY <1>1, <1>17 DEF SendSignal
<1>18. CASE ForcedDrainEnds
  BY <1>1, <1>18 DEF ForcedDrainEnds, server
<1>19. CASE Cleanup
  BY <1>1, <1>19 DEF Cleanup, server
<1>20. CASE WriteLog
  BY <1>1, <1>20 DEF WriteLog, server
<1>21. CASE UNCHANGED vars
  BY <1>1, <1>21 DEF vars, reader, server
<1> QED BY <1>2, <1>3, <1>4, <1>5, <1>6, <1>7, <1>8, <1>9, <1>10, <1>11, <1>12, <1>13,
           <1>14, <1>15, <1>16, <1>17, <1>18, <1>19, <1>20, <1>21 DEF Next, Verify, Server

------------------------------------------------------------------------------
(***************************************************************************)
(* The verdict, the stage and the server's end.                            *)
(***************************************************************************)

LEMMA WriteOutputKeepsVerdict ==
  ASSUME TypeOK, VerdictInv, NEW piece, WriteOutput(piece)
  PROVE  VerdictInv'
<1>1. EndIsFinal'
  BY DEF VerdictInv, EndIsFinal, VerdictEarned, Unspawned, WriteOutput, reader
<1>2. VerdictEarned'
  BY DEF VerdictInv, EndIsFinal, VerdictEarned, StageKept, Unspawned, WriteOutput, reader
<1>3. StageKept'
  BY DEF TypeOK, VerdictInv, EndIsFinal, VerdictEarned, StageKept, Unspawned, WriteOutput, reader
<1> QED BY <1>1, <1>2, <1>3 DEF VerdictInv

LEMMA ExitKeepsVerdict ==
  ASSUME TypeOK, VerdictInv, Exit
  PROVE  VerdictInv'
<1>1. EndIsFinal'
  BY DEF VerdictInv, EndIsFinal, VerdictEarned, Unspawned, Exit, reader
<1>2. VerdictEarned'
  BY DEF VerdictInv, EndIsFinal, VerdictEarned, StageKept, Unspawned, Exit, reader
<1>3. StageKept'
  BY DEF TypeOK, VerdictInv, EndIsFinal, VerdictEarned, StageKept, Unspawned, Exit, reader
<1> QED BY <1>1, <1>2, <1>3 DEF VerdictInv

LEMMA CloseOutputKeepsVerdict ==
  ASSUME TypeOK, VerdictInv, NEW writer, CloseOutput(writer)
  PROVE  VerdictInv'
<1>1. EndIsFinal'
  BY DEF VerdictInv, EndIsFinal, VerdictEarned, Unspawned, CloseOutput, reader
<1>2. VerdictEarned'
  BY DEF VerdictInv, EndIsFinal, VerdictEarned, StageKept, Unspawned, CloseOutput, reader
<1>3. StageKept'
  BY DEF TypeOK, VerdictInv, EndIsFinal, VerdictEarned, StageKept, Unspawned, CloseOutput, reader
<1> QED BY <1>1, <1>2, <1>3 DEF VerdictInv

LEMMA CheckSpaceKeepsVerdict ==
  ASSUME TypeOK, VerdictInv, CheckSpace
  PROVE  VerdictInv'
<1>1. EndIsFinal'
  BY DEF VerdictInv, EndIsFinal, VerdictEarned, Unspawned, CheckSpace, Goto, Unprepared, server
<1>2. VerdictEarned'
  BY DEF VerdictInv, EndIsFinal, VerdictEarned, StageKept, Unspawned, CheckSpace, Goto, Unprepared, server
<1>3. StageKept'
  BY DEF TypeOK, VerdictInv, EndIsFinal, VerdictEarned, StageKept, Unspawned, CheckSpace, Goto, Unprepared, server
<1> QED BY <1>1, <1>2, <1>3 DEF VerdictInv

LEMMA CopyRuntimeKeepsVerdict ==
  ASSUME TypeOK, VerdictInv, CopyRuntime
  PROVE  VerdictInv'
<1>1. EndIsFinal'
  BY DEF VerdictInv, EndIsFinal, VerdictEarned, Unspawned, CopyRuntime, Goto, Unprepared, server
<1>2. VerdictEarned'
  BY DEF VerdictInv, EndIsFinal, VerdictEarned, StageKept, Unspawned, CopyRuntime, Goto, Unprepared, server
<1>3. StageKept'
  BY DEF TypeOK, VerdictInv, EndIsFinal, VerdictEarned, StageKept, Unspawned, CopyRuntime, Goto, Unprepared, server
<1> QED BY <1>1, <1>2, <1>3 DEF VerdictInv

LEMMA SpawnKeepsVerdict ==
  ASSUME TypeOK, VerdictInv, Spawn
  PROVE  VerdictInv'
<1>1. EndIsFinal'
  BY DEF VerdictInv, EndIsFinal, VerdictEarned, Unspawned, Spawn, Goto, Unprepared
<1>2. VerdictEarned'
  BY DEF VerdictInv, EndIsFinal, VerdictEarned, StageKept, Unspawned, Spawn, Goto, Unprepared
<1>3. StageKept'
  BY DEF TypeOK, VerdictInv, EndIsFinal, VerdictEarned, StageKept, Unspawned, Spawn, Goto, Unprepared
<1> QED BY <1>1, <1>2, <1>3 DEF VerdictInv

LEMMA ReadStartupKeepsVerdict ==
  ASSUME TypeOK, VerdictInv, ReadStartup
  PROVE  VerdictInv'
<1>1. EndIsFinal'
  BY DEF VerdictInv, EndIsFinal, VerdictEarned, Unspawned, ReadStartup, Consume
<1>2. VerdictEarned'
  BY DEF VerdictInv, EndIsFinal, VerdictEarned, StageKept, Unspawned, ReadStartup, Consume
<1>3. StageKept'
  BY DEF TypeOK, VerdictInv, EndIsFinal, VerdictEarned, StageKept, Unspawned, ReadStartup, Consume
<1> QED BY <1>1, <1>2, <1>3 DEF VerdictInv

LEMMA StartupRaisesKeepsVerdict ==
  ASSUME TypeOK, VerdictInv, StartupRaises
  PROVE  VerdictInv'
<1>1. EndIsFinal'
  BY DEF VerdictInv, EndIsFinal, VerdictEarned, Unspawned, StartupRaises, Goto, Consume, NothingRead
<1>2. VerdictEarned'
  BY DEF VerdictInv, EndIsFinal, VerdictEarned, StageKept, Unspawned, StartupRaises, Goto, Consume, NothingRead
<1>3. StageKept'
  BY DEF TypeOK, VerdictInv, EndIsFinal, VerdictEarned, StageKept, Unspawned, StartupRaises, Goto, Consume, NothingRead
<1> QED BY <1>1, <1>2, <1>3 DEF VerdictInv

LEMMA StartupReadyKeepsVerdict ==
  ASSUME TypeOK, VerdictInv, StartupReady
  PROVE  VerdictInv'
<1>1. EndIsFinal'
  BY DEF VerdictInv, EndIsFinal, VerdictEarned, Unspawned, StartupReady, Goto, Consume, NothingRead
<1>2. VerdictEarned'
  BY DEF VerdictInv, EndIsFinal, VerdictEarned, StageKept, Unspawned, StartupReady, Goto, Consume, NothingRead
<1>3. StageKept'
  BY DEF TypeOK, VerdictInv, EndIsFinal, VerdictEarned, StageKept, Unspawned, StartupReady, Goto, Consume, NothingRead
<1> QED BY <1>1, <1>2, <1>3 DEF VerdictInv

LEMMA StartupTimesOutKeepsVerdict ==
  ASSUME TypeOK, VerdictInv, StartupTimesOut
  PROVE  VerdictInv'
<1>1. EndIsFinal'
  BY DEF VerdictInv, EndIsFinal, VerdictEarned, Unspawned, StartupTimesOut, Goto, server
<1>2. VerdictEarned'
  BY DEF VerdictInv, EndIsFinal, VerdictEarned, StageKept, Unspawned, StartupTimesOut, Goto, server
<1>3. StageKept'
  BY DEF TypeOK, VerdictInv, EndIsFinal, VerdictEarned, StageKept, Unspawned, StartupTimesOut, Goto, server
<1> QED BY <1>1, <1>2, <1>3 DEF VerdictInv

LEMMA TellToStopKeepsVerdict ==
  ASSUME TypeOK, VerdictInv, TellToStop
  PROVE  VerdictInv'
<1>1. EndIsFinal'
  BY DEF VerdictInv, EndIsFinal, VerdictEarned, Unspawned, TellToStop, Goto, Drain, ShutdownRaises, server
<1>2. VerdictEarned'
  BY DEF VerdictInv, EndIsFinal, VerdictEarned, StageKept, Unspawned, TellToStop, Goto, Drain, ShutdownRaises, server
<1>3. StageKept'
  BY DEF TypeOK, VerdictInv, EndIsFinal, VerdictEarned, StageKept, Unspawned, TellToStop, Goto, Drain, ShutdownRaises, server
<1> QED BY <1>1, <1>2, <1>3 DEF VerdictInv

LEMMA DrainReadKeepsVerdict ==
  ASSUME TypeOK, VerdictInv, DrainRead
  PROVE  VerdictInv'
<1>1. EndIsFinal'
  BY DEF VerdictInv, EndIsFinal, VerdictEarned, Unspawned, DrainRead, Consume, Draining
<1>2. VerdictEarned'
  BY DEF VerdictInv, EndIsFinal, VerdictEarned, StageKept, Unspawned, DrainRead, Consume, Draining
<1>3. StageKept'
  BY DEF TypeOK, VerdictInv, EndIsFinal, VerdictEarned, StageKept, Unspawned, DrainRead, Consume, Draining
<1> QED BY <1>1, <1>2, <1>3 DEF VerdictInv

LEMMA DrainEofKeepsVerdict ==
  ASSUME TypeOK, VerdictInv, DrainEof
  PROVE  VerdictInv'
<1>1. EndIsFinal'
  BY DEF VerdictInv, EndIsFinal, VerdictEarned, Unspawned, DrainEof, Draining, server
<1>2. VerdictEarned'
  BY DEF VerdictInv, EndIsFinal, VerdictEarned, StageKept, Unspawned, DrainEof, Draining, server
<1>3. StageKept'
  BY DEF TypeOK, VerdictInv, EndIsFinal, VerdictEarned, StageKept, Unspawned, DrainEof, Draining, server
<1> QED BY <1>1, <1>2, <1>3 DEF VerdictInv

LEMMA DrainEndsKeepsVerdict ==
  ASSUME TypeOK, VerdictInv, DrainEnds
  PROVE  VerdictInv'
<1>1. EndIsFinal'
  BY DEF VerdictInv, EndIsFinal, VerdictEarned, Unspawned, DrainEnds, Goto, Drained, server
<1>2. VerdictEarned'
  BY DEF VerdictInv, EndIsFinal, VerdictEarned, StageKept, Unspawned, DrainEnds, Goto, Drained, server
<1>3. StageKept'
  BY DEF TypeOK, VerdictInv, EndIsFinal, VerdictEarned, StageKept, Unspawned, DrainEnds, Goto, Drained, server
<1> QED BY <1>1, <1>2, <1>3 DEF VerdictInv

LEMMA DrainTimesOutKeepsVerdict ==
  ASSUME TypeOK, VerdictInv, DrainTimesOut
  PROVE  VerdictInv'
<1>1. EndIsFinal'
  BY DEF VerdictInv, EndIsFinal, VerdictEarned, Unspawned, DrainTimesOut, Goto, ShutdownRaises, server
<1>2. VerdictEarned'
  BY DEF VerdictInv, EndIsFinal, VerdictEarned, StageKept, Unspawned, DrainTimesOut, Goto, ShutdownRaises, server
<1>3. StageKept'
  BY DEF TypeOK, VerdictInv, EndIsFinal, VerdictEarned, StageKept, Unspawned, DrainTimesOut, Goto, ShutdownRaises, server
<1> QED BY <1>1, <1>2, <1>3 DEF VerdictInv

LEMMA JudgeKeepsVerdict ==
  ASSUME TypeOK, VerdictInv, Judge
  PROVE  VerdictInv'
<1>1. EndIsFinal'
  BY DEF VerdictInv, EndIsFinal, VerdictEarned, Unspawned, Judge, Goto, ShutdownRaises, server
<1>2. VerdictEarned'
  BY DEF VerdictInv, EndIsFinal, VerdictEarned, StageKept, Unspawned, Judge, Goto, ShutdownRaises, server
<1>3. StageKept'
  BY DEF TypeOK, VerdictInv, EndIsFinal, VerdictEarned, StageKept, Unspawned, Judge, Goto, ShutdownRaises, server
<1> QED BY <1>1, <1>2, <1>3 DEF VerdictInv

LEMMA SendSignalKeepsVerdict ==
  ASSUME TypeOK, VerdictInv, SendSignal
  PROVE  VerdictInv'
<1>1. EndIsFinal'
  BY DEF VerdictInv, EndIsFinal, VerdictEarned, Unspawned, SendSignal, Goto, Drain, DrainAfter, SignalAt
<1>2. VerdictEarned'
  BY DEF VerdictInv, EndIsFinal, VerdictEarned, StageKept, Unspawned, SendSignal, Goto, Drain, DrainAfter, SignalAt
<1>3. StageKept'
  BY DEF TypeOK, VerdictInv, EndIsFinal, VerdictEarned, StageKept, Unspawned, SendSignal, Goto, Drain, DrainAfter, SignalAt
<1> QED BY <1>1, <1>2, <1>3 DEF VerdictInv

LEMMA ForcedDrainEndsKeepsVerdict ==
  ASSUME TypeOK, VerdictInv, ForcedDrainEnds
  PROVE  VerdictInv'
<1>1. EndIsFinal'
  BY DEF VerdictInv, EndIsFinal, VerdictEarned, Unspawned, ForcedDrainEnds, Goto, Drained, server
<1>2. VerdictEarned'
  BY DEF VerdictInv, EndIsFinal, VerdictEarned, StageKept, Unspawned, ForcedDrainEnds, Goto, Drained, server
<1>3. StageKept'
  BY DEF TypeOK, VerdictInv, EndIsFinal, VerdictEarned, StageKept, Unspawned, ForcedDrainEnds, Goto, Drained, server
<1> QED BY <1>1, <1>2, <1>3 DEF VerdictInv

LEMMA CleanupKeepsVerdict ==
  ASSUME TypeOK, VerdictInv, Cleanup
  PROVE  VerdictInv'
<1>1. EndIsFinal'
  BY DEF VerdictInv, EndIsFinal, VerdictEarned, Unspawned, Cleanup, Goto, server
<1>2. VerdictEarned'
  BY DEF VerdictInv, EndIsFinal, VerdictEarned, StageKept, Unspawned, Cleanup, Goto, server
<1>3. StageKept'
  BY DEF TypeOK, VerdictInv, EndIsFinal, VerdictEarned, StageKept, Unspawned, Cleanup, Goto, server
<1> QED BY <1>1, <1>2, <1>3 DEF VerdictInv

LEMMA WriteLogKeepsVerdict ==
  ASSUME TypeOK, VerdictInv, WriteLog
  PROVE  VerdictInv'
<1>1. EndIsFinal'
  BY DEF VerdictInv, EndIsFinal, VerdictEarned, Unspawned, WriteLog, Goto, server
<1>2. VerdictEarned'
  BY DEF VerdictInv, EndIsFinal, VerdictEarned, StageKept, Unspawned, WriteLog, Goto, server
<1>3. StageKept'
  BY DEF TypeOK, VerdictInv, EndIsFinal, VerdictEarned, StageKept, Unspawned, WriteLog, Goto, server
<1> QED BY <1>1, <1>2, <1>3 DEF VerdictInv

LEMMA NextKeepsVerdict ==
  ASSUME TypeOK, VerdictInv, [Next]_vars
  PROVE  VerdictInv'
<1>1. CASE Verify
  BY <1>1, CheckSpaceKeepsVerdict, CopyRuntimeKeepsVerdict, SpawnKeepsVerdict,
     ReadStartupKeepsVerdict, StartupRaisesKeepsVerdict, StartupReadyKeepsVerdict,
     StartupTimesOutKeepsVerdict, TellToStopKeepsVerdict, DrainReadKeepsVerdict,
     DrainEofKeepsVerdict, DrainEndsKeepsVerdict, DrainTimesOutKeepsVerdict,
     JudgeKeepsVerdict, SendSignalKeepsVerdict, ForcedDrainEndsKeepsVerdict,
     CleanupKeepsVerdict, WriteLogKeepsVerdict
     DEF Verify
<1>2. CASE Server
  BY <1>2, WriteOutputKeepsVerdict, ExitKeepsVerdict, CloseOutputKeepsVerdict DEF Server
<1>3. CASE UNCHANGED vars
  <2>1. EndIsFinal'
    BY <1>3 DEF VerdictInv, EndIsFinal, Unspawned, vars, reader, server
  <2>2. VerdictEarned'
    BY <1>3 DEF VerdictInv, VerdictEarned, Unspawned, vars, reader, server
  <2>3. StageKept'
    BY <1>3 DEF VerdictInv, StageKept, vars, reader, server
  <2> QED BY <2>1, <2>2, <2>3 DEF VerdictInv
<1> QED BY <1>1, <1>2, <1>3 DEF Next

LEMMA Invariant == Spec => [](TypeOK /\ ReadInv /\ VerdictInv)
<1>1. Init => TypeOK /\ ReadInv /\ VerdictInv
  BY InitTypes, InitEstablishes, ValidatorAssumption
<1>2. TypeOK /\ ReadInv /\ VerdictInv /\ [Next]_vars => (TypeOK /\ ReadInv /\ VerdictInv)'
  BY NextKeepsTypes, NextKeepsRead, NextKeepsVerdict, ValidatorAssumption
<1> QED BY <1>1, <1>2, PTL DEF Spec

LEMMA InvariantMeansComplete ==
  ASSUME TypeOK, ReadInv, VerdictInv
  PROVE  CompleteIsComplete
<1> SUFFICES ASSUME complete PROVE pipe = <<>> /\ writers = {} /\ total = Len(printed)
  BY DEF CompleteIsComplete
<1>1. pipe = <<>> /\ writers = {}
  BY DEF VerdictInv, EndIsFinal
<1>2. Len(printed) = total + 0 /\ total \in Nat
  BY <1>1 DEF ReadInv, PipeHoldsRest, TypeOK
<1> QED BY <1>1, <1>2

\* output_complete means that the whole output was read and that nobody can add to it
\* (_drain_until_exit asks for the end of the output and for the exit).
THEOREM CompletenessIsReal == Spec => []CompleteIsComplete
BY Invariant, InvariantMeansComplete, PTL

LEMMA InvariantMeansEarned ==
  ASSUME TypeOK, ReadInv, VerdictInv
  PROVE  PassedIsEarned
<1> SUFFICES ASSUME pc = "done", verdict = "passed"
             PROVE  /\ \E i \in DOMAIN printed : printed[i] = "started"
                    /\ \A i \in DOMAIN printed : printed[i] # "complaint"
                    /\ writers = {}
                    /\ child = "exited" /\ code = 0 /\ signal = "none"
                    /\ stage = "removed"
  BY DEF PassedIsEarned, Ended
<1>1. /\ complete /\ ready /\ ~complaint
      /\ code = 0 /\ signal = "none" /\ stage = "removed"
  BY DEF VerdictInv, VerdictEarned
<1>2. writers = {} /\ child = "exited"
  BY <1>1 DEF VerdictInv, EndIsFinal
<1>3. total = Len(printed)
  BY <1>1, InvariantMeansComplete DEF CompleteIsComplete
<1>4. DOMAIN printed = 1..total
  BY <1>3, LenProperties DEF TypeOK
<1>5. /\ \A i \in 1..total : printed[i] # "complaint"
      /\ \E i \in 1..total : printed[i] = "started"
  BY <1>1 DEF ReadInv, Noticed
<1> QED BY <1>1, <1>2, <1>4, <1>5

\* A passed validation says, of everything the server ever printed, that it started
\* and that no read of it showed a complaint, and that it left by itself with status 0
\* (verify).
THEOREM PassIsEarned == Spec => []PassedIsEarned
BY Invariant, InvariantMeansEarned, PTL

\* Only a server that SIGKILL was sent to, or its stage, outlives a validation, and
\* that validation has failed.
THEOREM SurvivorKilled == Spec => []SurvivorWasKilled
<1>1. TypeOK /\ ReadInv /\ VerdictInv => SurvivorWasKilled
  BY DEF VerdictInv, StageKept, SurvivorWasKilled, Ended
<1> QED BY <1>1, Invariant, PTL

------------------------------------------------------------------------------
(***************************************************************************)
(* validation.log.                                                         *)
(***************************************************************************)

Kept == IF total <= Half THEN total ELSE Half

\* The output kept is the first and the last of what was read.
HeadKept ==
  /\ Len(head) = Kept
  /\ \A i \in 1..Kept : head[i] = printed[i]
TailKept ==
  /\ Len(tail) = Kept
  /\ \A i \in 1..Kept : tail[i] = printed[total - Kept + i]

\* The log is written at the end.
LogWritten ==
  /\ pc # "done" => log = <<>>
  /\ pc = "done" => log \in {<<>>, Transcript}

KeepInv == HeadKept /\ TailKept /\ LogWritten

LEMMA LastElements ==
  ASSUME NEW s \in Seq(Pieces), NEW n \in Nat
  PROVE  /\ Len(Last(s, n)) = IF Len(s) <= n THEN Len(s) ELSE n
         /\ Len(s) <= n => Last(s, n) = s
         /\ Len(s) > n => \A i \in 1..n : Last(s, n)[i] = s[Len(s) - n + i]
<1>1. Len(s) \in Nat
  BY LenProperties
<1>2. CASE Len(s) <= n
  BY <1>1, <1>2 DEF Last
<1>3. CASE Len(s) > n
  <2> DEFINE m == Len(s) - n + 1
  <2>1. m \in Int /\ Len(s) \in Int /\ 1 <= m /\ m <= Len(s) + 1
    BY <1>1, <1>3
  <2>2. \A i \in m..Len(s) : s[i] \in Pieces
    BY <1>1, <2>1, ElementOfSeq
  <2>3. /\ Len(SubSeq(s, m, Len(s))) = IF m <= Len(s) THEN Len(s) - m + 1 ELSE 0
        /\ \A i \in 1..(Len(s) - m + 1) : SubSeq(s, m, Len(s))[i] = s[m + i - 1]
    BY <2>1, <2>2, SubSeqProperties
  <2>4. Last(s, n) = SubSeq(s, m, Len(s))
    BY <1>1, <1>3 DEF Last
  <2>5. Len(Last(s, n)) = n
    BY <1>1, <1>3, <2>3, <2>4
  <2>6. \A i \in 1..n : Last(s, n)[i] = s[Len(s) - n + i]
    BY <1>1, <1>3, <2>3, <2>4
  <2> QED BY <1>1, <1>3, <2>5, <2>6
<1> QED BY <1>1, <1>2, <1>3

LEMMA ConsumeKeepsEnds ==
  ASSUME ValidatorAssumption, TypeOK, ReadInv, HeadKept, TailKept, Consume, UNCHANGED printed
  PROVE  HeadKept' /\ TailKept'
<1>1. /\ Half \in Nat /\ Half >= 1 /\ total \in Nat /\ total' = total + 1
      /\ printed[total + 1] = Head(pipe)
  BY ConsumeFacts DEF ReadInv, TypeOK, ValidatorAssumption
<1>2. Head(pipe) \in Pieces
  BY HeadTailProperties DEF TypeOK, Consume
<1>3. HeadKept'
  <2>1. CASE total < Half
    <3>1. head' = Append(head, Head(pipe)) /\ Len(head) = total
      BY <1>1, <2>1 DEF HeadKept, Kept, Consume
    <3>2. /\ Len(head') = total + 1
          /\ \A i \in 1..total : head'[i] = head[i]
          /\ head'[total + 1] = Head(pipe)
      BY <1>2, <3>1, AppendProperties DEF TypeOK
    <3>3. Kept = total /\ Kept' = total + 1
      BY <1>1, <2>1 DEF Kept
    <3> QED BY <1>1, <3>2, <3>3 DEF HeadKept
  <2>2. CASE total >= Half
    <3>1. Kept = Half /\ Kept' = Half
      BY <1>1, <2>2 DEF Kept
    <3>2. head' = head
      BY <1>1, <3>1 DEF HeadKept, Consume
    <3> QED BY <3>1, <3>2 DEF HeadKept
  <2> QED BY <1>1, <2>1, <2>2
<1>4. TailKept'
  <2> DEFINE longer == Append(tail, Head(pipe))
  <2>1. /\ longer \in Seq(Pieces) /\ Len(longer) = Kept + 1
        /\ \A i \in 1..Kept : longer[i] = tail[i]
        /\ longer[Kept + 1] = Head(pipe)
    BY <1>2, AppendProperties DEF TypeOK, TailKept
  <2>2. tail' = Last(longer, Half)
    BY DEF Consume
  <2>3. Kept \in Nat /\ Kept <= total
    BY <1>1 DEF Kept
  <2>4. ASSUME NEW i \in 1..(Kept + 1)
        PROVE  longer[i] = printed[total - Kept + i]
    <3>1. CASE i \in 1..Kept
      BY <2>1, <3>1 DEF TailKept
    <3>2. CASE i = Kept + 1
      <4>1. total - Kept + i = total + 1
        BY <1>1, <2>3, <3>2
      <4> QED BY <1>1, <2>1, <3>2, <4>1
    <3>3. i \in 1..Kept \/ i = Kept + 1
      BY <2>3, <2>4
    <3> QED BY ONLY <3>1, <3>2, <3>3
  <2>5. CASE total < Half
    <3>1. Kept = total /\ Kept' = total + 1 /\ Len(longer) <= Half
      BY <1>1, <2>1, <2>5 DEF Kept
    <3>2. tail' = longer
      BY <1>1, <2>1, <2>2, <3>1, LastElements
    <3>3. ASSUME NEW i \in 1..Kept' PROVE tail'[i] = printed'[total' - Kept' + i]
      <4>1. total' - Kept' + i = total - Kept + i /\ i \in 1..(Kept + 1)
        BY <1>1, <3>1
      <4> QED BY <2>4, <3>2, <4>1
    <3> QED BY <2>1, <3>1, <3>2, <3>3 DEF TailKept
  <2>6. CASE total >= Half
    <3>1. Kept = Half /\ Kept' = Half
      BY <1>1, <2>6 DEF Kept
    <3>2. Len(longer) > Half /\ Len(longer) - Half = 1
      BY <1>1, <2>1, <3>1
    <3>3. Len(tail') = Half
      <4>1. Len(Last(longer, Half)) = IF Len(longer) <= Half THEN Len(longer) ELSE Half
        BY <1>1, <2>1, LastElements
      <4>2. ~(Len(longer) <= Half)
        BY <1>1, <2>1, <3>1
      <4> HIDE DEF longer
      <4> QED BY <2>2, <4>1, <4>2
    <3>4. ASSUME NEW i \in 1..Half PROVE tail'[i] = longer[i + 1]
      <4>1. tail'[i] = longer[Len(longer) - Half + i]
        BY <1>1, <2>1, <2>2, <3>2, LastElements
      <4>2. Len(longer) - Half + i = i + 1
        BY <1>1, <3>2
      <4> QED BY <4>1, <4>2
    <3>5. ASSUME NEW i \in 1..Kept' PROVE tail'[i] = printed'[total' - Kept' + i]
      <4>1. i \in 1..Half /\ i + 1 \in 1..(Kept + 1)
        BY <1>1, <3>1
      <4>2. total' - Kept' + i = total - Kept + (i + 1)
        BY <1>1, <2>3, <3>1
      <4> QED BY <2>4, <3>4, <4>1, <4>2
    <3> QED BY <3>1, <3>3, <3>5 DEF TailKept
  <2> QED BY <1>1, <2>5, <2>6
<1> QED BY <1>3, <1>4

LEMMA NextKeepsEnds ==
  ASSUME ValidatorAssumption, TypeOK, ReadInv, HeadKept, TailKept, [Next]_vars
  PROVE  HeadKept' /\ TailKept'
<1>1. ASSUME UNCHANGED <<printed, total, head, tail>> PROVE HeadKept' /\ TailKept'
  BY <1>1 DEF HeadKept, TailKept, Kept
<1>2. ASSUME NEW piece \in Pieces, WriteOutput(piece) PROVE HeadKept' /\ TailKept'
  <2>1. /\ total \in Nat /\ Half \in Nat /\ Len(printed) \in Nat
        /\ Len(printed) = total + Len(pipe) /\ Len(pipe) \in Nat
    BY LenProperties DEF TypeOK, ReadInv, PipeHoldsRest, ValidatorAssumption
  <2>2. \A i \in 1..Len(printed) : printed'[i] = printed[i]
    BY <1>2, AppendProperties DEF WriteOutput, TypeOK
  <2>3. total' = total /\ head' = head /\ tail' = tail /\ Kept' = Kept
    BY <1>2 DEF WriteOutput, reader, Kept
  <2>4. Kept \in Nat /\ Kept <= total
    BY <2>1 DEF Kept
  <2>5. \A i \in 1..Kept : i \in 1..Len(printed) /\ total - Kept + i \in 1..Len(printed)
    BY <2>1, <2>4
  <2> QED BY <2>2, <2>3, <2>5 DEF HeadKept, TailKept
<1>3. ASSUME Consume, UNCHANGED printed PROVE HeadKept' /\ TailKept'
  BY <1>3, ConsumeKeepsEnds
<1>4. ASSUME ReadStartup \/ StartupRaises \/ StartupReady \/ DrainRead
      PROVE  HeadKept' /\ TailKept'
  BY <1>1, <1>3, <1>4 DEF ReadStartup, StartupRaises, StartupReady, DrainRead, NothingRead
<1>5. ASSUME Verify, ~(ReadStartup \/ StartupRaises \/ StartupReady \/ DrainRead)
      PROVE  UNCHANGED <<printed, total, head, tail>>
  BY <1>5 DEF Verify, CheckSpace, CopyRuntime, Spawn, StartupTimesOut, TellToStop,
     DrainEof, DrainEnds, DrainTimesOut, Judge, SendSignal, ForcedDrainEnds, Cleanup,
     WriteLog, server
<1>6. ASSUME Exit \/ \E writer \in {"server", "descendant"} : CloseOutput(writer)
      PROVE  UNCHANGED <<printed, total, head, tail>>
  BY <1>6 DEF Exit, CloseOutput, reader
<1>7. ASSUME UNCHANGED vars PROVE UNCHANGED <<printed, total, head, tail>>
  BY <1>7 DEF vars, reader, server
<1> QED BY <1>1, <1>2, <1>4, <1>5, <1>6, <1>7 DEF Next, Server

LEMMA NextKeepsLog ==
  ASSUME LogWritten, [Next]_vars
  PROVE  LogWritten'
<1>1. CASE WriteLog
  <2>1. Transcript' = Transcript
    BY <1>1 DEF WriteLog, Transcript
  <2> QED BY <1>1, <2>1 DEF WriteLog, LogWritten, Goto
<1>2. CASE Verify /\ ~WriteLog
  <2>1. pc # "done" /\ pc' # "done" /\ log' = log
    BY <1>2 DEF Verify, CheckSpace, CopyRuntime, Spawn, ReadStartup, StartupRaises,
       StartupReady, StartupTimesOut, TellToStop, DrainRead, DrainEof, DrainEnds,
       DrainTimesOut, Judge, SendSignal, ForcedDrainEnds, Cleanup, Goto, Unprepared,
       Drain, ShutdownRaises, DrainAfter, Draining
  <2> QED BY <2>1 DEF LogWritten
<1>3. CASE Server \/ UNCHANGED vars
  <2>1. UNCHANGED <<pc, log, head, tail, total>>
    BY <1>3 DEF Server, WriteOutput, Exit, CloseOutput, vars, reader
  <2>2. Transcript' = Transcript
    BY <2>1 DEF Transcript
  <2> QED BY <2>1, <2>2 DEF LogWritten
<1> QED BY <1>1, <1>2, <1>3 DEF Next

LEMMA NextKeepsKept ==
  ASSUME ValidatorAssumption, TypeOK, ReadInv, KeepInv, [Next]_vars
  PROVE  KeepInv'
BY NextKeepsEnds, NextKeepsLog DEF KeepInv

LEMMA KeptInvariant == Spec => [](TypeOK /\ ReadInv /\ VerdictInv /\ KeepInv)
<1>1. Init => KeepInv
  <2> SUFFICES ASSUME Init PROVE KeepInv
    OBVIOUS
  <2>1. Kept = 0
    BY ValidatorAssumption DEF Init, Kept, ValidatorAssumption
  <2> QED BY <2>1 DEF Init, KeepInv, HeadKept, TailKept, LogWritten
<1>2. TypeOK /\ ReadInv /\ KeepInv /\ [Next]_vars => KeepInv'
  BY NextKeepsKept, ValidatorAssumption
<1> QED BY <1>1, <1>2, Invariant, PTL DEF Spec

LEMMA InvariantMeansFaithful ==
  ASSUME ValidatorAssumption, TypeOK, ReadInv, VerdictInv, KeepInv
  PROVE  LogIsFaithful
<1> SUFFICES ASSUME pc = "done", complete, log # <<>>
             PROVE  IF total <= 2 * Half THEN log = printed
                    ELSE log = SubSeq(printed, 1, Half) \o <<"truncated">> \o Last(printed, Half)
  BY DEF LogIsFaithful, Ended
<1>1. /\ total = Len(printed) /\ total \in Nat /\ Half \in Nat /\ Half >= 1
      /\ printed \in Seq(Pieces) /\ head \in Seq(Pieces) /\ tail \in Seq(Pieces)
  BY InvariantMeansComplete DEF CompleteIsComplete, TypeOK, ValidatorAssumption
<1>2. log = Transcript
  BY DEF KeepInv, LogWritten
<1>3. CASE total <= Half
  <2>1. Kept = total
    BY <1>3 DEF Kept
  <2>2. head = printed
    BY <1>1, <2>1, SeqEqual DEF KeepInv, HeadKept
  <2>3. total <= 2 * Half
    BY <1>1, <1>3
  <2> QED BY <1>2, <1>3, <2>2, <2>3 DEF Transcript
<1>4. CASE total > Half /\ total <= 2 * Half
  <2> DEFINE n == total - Half
             rest == Last(tail, n)
  <2>1. Kept = Half /\ n \in Nat /\ n <= Half /\ ~(total <= Half)
    BY <1>1, <1>4 DEF Kept
  <2>2. Len(head) = Half /\ Len(tail) = Half
    BY <2>1 DEF KeepInv, HeadKept, TailKept
  <2>3. rest \in Seq(Pieces)
    BY <1>1, <2>1, LastType
  <2>4. Len(rest) = n /\ \A i \in 1..n : rest[i] = tail[Half - n + i]
    <3>1. CASE n = Half
      <4> HIDE DEF n
      <4>1. Len(tail) <= n
        BY <1>1, <2>2, <3>1
      <4>2. Len(tail) <= n => rest = tail
        BY <1>1, <2>1, LastElements
      <4>3. \A i \in 1..n : Half - n + i = i
        BY <1>1, <2>1, <3>1
      <4> QED BY <2>2, <3>1, <4>1, <4>2, <4>3
    <3>2. CASE n < Half
      <4> HIDE DEF n
      <4>1. Len(tail) > n /\ ~(Len(tail) <= n)
        BY <1>1, <2>1, <2>2, <3>2
      <4>2. /\ Len(rest) = IF Len(tail) <= n THEN Len(tail) ELSE n
            /\ Len(tail) > n => \A i \in 1..n : rest[i] = tail[Len(tail) - n + i]
        BY <1>1, <2>1, LastElements
      <4> QED BY <2>2, <4>1, <4>2
    <3>3. n = Half \/ n < Half
      BY <1>1, <2>1
    <3> QED BY ONLY <3>1, <3>2, <3>3
  <2>5. \A i \in 1..n : rest[i] = printed[Half + i]
    <3> SUFFICES ASSUME NEW i \in 1..n PROVE rest[i] = printed[Half + i]
      OBVIOUS
    <3>1. Half - n + i \in 1..Half /\ total - Half + (Half - n + i) = Half + i
      BY <1>1, <2>1
    <3> QED BY <2>1, <2>4, <3>1 DEF KeepInv, TailKept
  <2>6. /\ head \o rest \in Seq(Pieces) /\ Len(head \o rest) = Half + n
        /\ \A i \in 1..(Half + n) :
             (head \o rest)[i] = IF i <= Half THEN head[i] ELSE rest[i - Half]
    BY <1>1, <2>2, <2>3, <2>4, ConcatProperties
  <2>7. \A i \in 1..total : (head \o rest)[i] = printed[i]
    <3> SUFFICES ASSUME NEW i \in 1..total PROVE (head \o rest)[i] = printed[i]
      OBVIOUS
    <3> HIDE DEF rest
    <3>1. CASE i <= Half
      <4>1. i \in 1..Half /\ i \in 1..(Half + n)
        BY <1>1, <2>1, <3>1
      <4>2. head[i] = printed[i]
        BY <2>1, <4>1 DEF KeepInv, HeadKept
      <4> QED BY <2>6, <3>1, <4>1, <4>2
    <3>2. CASE i > Half
      <4>1. i - Half \in 1..n /\ i \in 1..(Half + n) /\ ~(i <= Half) /\ Half + (i - Half) = i
        BY <1>1, <2>1, <3>2
      <4> QED BY <2>5, <2>6, <4>1
    <3>3. i <= Half \/ i > Half
      BY <1>1
    <3> QED BY ONLY <3>1, <3>2, <3>3
  <2>8. Len(head \o rest) = total
    <3>1. Len(head \o rest) = Half + n
      BY ONLY <2>6
    <3>2. Half + n = total
      BY ONLY <1>1
    <3> QED BY ONLY <3>1, <3>2
  <2>9. head \o rest = printed
    <3> HIDE DEF rest
    <3> QED BY <1>1, <2>6, <2>7, <2>8, SeqEqual
  <2> QED BY <1>2, <1>4, <2>1, <2>9 DEF Transcript
<1>5. CASE total > 2 * Half
  <2>1. Kept = Half /\ ~(total <= Half) /\ ~(total <= 2 * Half) /\ Half <= total
    BY <1>1, <1>5 DEF Kept
  <2>2. /\ SubSeq(printed, 1, Half) \in Seq(Pieces) /\ Len(SubSeq(printed, 1, Half)) = Half
        /\ \A i \in 1..Half : SubSeq(printed, 1, Half)[i] = printed[i]
    <3>1. \A i \in 1..Half : printed[i] \in Pieces
      BY <1>1, <2>1, ElementOfSeq
    <3> QED BY <1>1, <3>1, SubSeqProperties
  <2>3. head = SubSeq(printed, 1, Half)
    BY <1>1, <2>1, <2>2, SeqEqual DEF KeepInv, HeadKept
  <2>4. /\ Last(printed, Half) \in Seq(Pieces) /\ Len(Last(printed, Half)) = Half
        /\ \A i \in 1..Half : Last(printed, Half)[i] = printed[total - Half + i]
    <3>1. /\ Last(printed, Half) \in Seq(Pieces)
          /\ Len(Last(printed, Half)) = IF Len(printed) <= Half THEN Len(printed) ELSE Half
          /\ Len(printed) > Half =>
               \A i \in 1..Half : Last(printed, Half)[i] = printed[Len(printed) - Half + i]
      BY <1>1, LastType, LastElements
    <3>2. Len(printed) > Half /\ ~(Len(printed) <= Half)
      BY <1>1, <1>5
    <3> QED BY <1>1, <3>1, <3>2
  <2>5. tail = Last(printed, Half)
    BY <1>1, <2>1, <2>4, SeqEqual DEF KeepInv, TailKept
  <2> QED BY <1>2, <2>1, <2>3, <2>5 DEF Transcript
<1> QED BY <1>1, <1>3, <1>4, <1>5

\* validation.log shows the output as it was: whole if it fits in two halves, else its
\* first and its last half around a mark (the end of verify).
THEOREM FaithfulLog == Spec => []LogIsFaithful
<1>1. TypeOK /\ ReadInv /\ VerdictInv /\ KeepInv => LogIsFaithful
  BY InvariantMeansFaithful, ValidatorAssumption
<1> QED BY <1>1, KeptInvariant, PTL
==============================================================================
