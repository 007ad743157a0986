-------------------------- MODULE AsrSampleProofs --------------------------
(* asr_sample implements the one step that module VoiceLink makes of it, and  *)
(* the invariants of the connection hold while it runs.                       *)
EXTENDS AsrSample, VoiceLinkProofs

Feeding == {"feed", "last", "result", "parse"}

(* The program runs only while the server waits for it.  From the first chunk *)
(* on, what has been fed and what is left add up to the file; a text needs    *)
(* audio; and no session is open before "begin" or after "end".               *)
AsrInv ==
  /\ AsrTypeOK
  /\ apc # "off" => spc = "recognise"
  /\ apc \in Feeding => fed + left = FileSize
  /\ apc \in {"last", "result", "parse"} => stopped \/ left = 0
  /\ apc \in {"off", "login", "build", "wait", "open", "begin"} => fed = 0
  /\ apc = "begin" => left = FileSize
  /\ text /\ apc # "off" => fed > 0
  /\ apc \in {"login", "build", "wait", "open", "begin", "logout"} => session # "open"
  /\ apc = "off" /\ session = "open" => text

VoiceInv == LinkInv /\ AsrInv

------------------------------------------------------------------------------
(* LinkInv. *)

LEMMA VoiceInitially == VoiceInit => VoiceInv
<1>1. LinkInit => LinkInv
  BY LinkInitially
<1>2. AsrInit => AsrTypeOK
  <2>1. 0 \in Nat
    OBVIOUS
  <2> QED
    BY <2>1, Zenon DEF AsrInit, AsrTypeOK
<1>3. AsrInit => AsrInv
  BY <1>2 DEF AsrInit, AsrInv, Feeding
<1> QED
  BY <1>1, <1>3 DEF VoiceInit, VoiceInv

(* Nothing the program does while the server waits disturbs the connection:   *)
(* the answer is fetched later.                                               *)
LEMMA WaitingKeeps ==
  ASSUME LinkInv, spc = "recognise", spc' \in {"recognise", "answer"},
         result' \in Words \cup {"absent"}, heard' \in Words \cup {"nothing"},
         UNCHANGED <<conn, head, read, leaked, answer, closed, boardVars>>
  PROVE  LinkInv'
<1> USE DEF Busy, Between, boardVars
<1>1. LinkTypeOK'
  BY DEF LinkInv, LinkTypeOK
<1>2. InStep'
  BY DEF LinkInv, InStep
<1>3. Sent'
  BY DEF LinkInv, Sent
<1>4. Taken'
  BY DEF LinkInv, Taken, NoMore
<1>5. Answered'
  BY DEF LinkInv, InStep, Answered
<1> QED
  BY <1>1, <1>2, <1>3, <1>4, <1>5 DEF LinkInv

LEMMA InsideKeeps ==
  ASSUME LinkInv, NEW f, NEW t, Inside(f, t)
  PROVE  LinkInv'
BY LinkStutters DEF Inside

LEMMA ConcludeKeeps ==
  ASSUME LinkInv, NEW f, NEW t, NEW w \in Words \cup {"nothing"}, Conclude(f, t, w),
         spc' \in {spc, "answer"}, result' \in {result} \cup Words
  PROVE  LinkInv'
<1>1. spc = "recognise" /\ heard' = w
      /\ UNCHANGED <<conn, head, read, leaked, answer, closed, boardVars>>
  BY DEF Conclude
<1>2. result \in Words \cup {"absent"}
  BY DEF LinkInv, LinkTypeOK
<1>3. heard' \in Words \cup {"nothing"} /\ result' \in Words \cup {"absent"}
  BY <1>1, <1>2
<1> QED
  BY <1>1, <1>3, WaitingKeeps

LEMMA NothingKeeps ==
  ASSUME LinkInv, NEW f, NEW t, Nothing(f, t)
  PROVE  LinkInv'
BY ConcludeKeeps DEF Nothing

LEMMA ProgramKeepsLink ==
  ASSUME LinkInv, Program \/ Engine \/ GetResult("result")
  PROVE  LinkInv'
<1>1. CASE Launch \/ SessionEnd \/ FeedOver \/ FeedLast \/ GetResult("parse") \/ GetResult("result")
  BY <1>1, InsideKeeps DEF Launch, SessionEnd, FeedOver, FeedLast, GetResult
<1>2. CASE Login \/ BuildGrammar \/ Wait \/ OpenFile \/ SessionBegin \/ FeedChunk \/ NoText
  BY <1>2, InsideKeeps, NothingKeeps
     DEF Login, BuildGrammar, Wait, OpenFile, SessionBegin, FeedChunk, NoText
<1>3. CASE WriteResult
  <2>1. PICK w \in Words : Conclude("parse", "end", w) /\ result' = w
    BY <1>3 DEF WriteResult
  <2>2. spc' = spc
    BY <1>3 DEF WriteResult
  <2> QED
    BY <2>1, <2>2, ConcludeKeeps
<1>4. CASE Crash
  BY <1>4, ConcludeKeeps DEF Crash
<1>5. CASE Logout
  <2>1. UNCHANGED <<conn, head, read, leaked, answer, closed, boardVars>>
    BY <1>5 DEF Logout
  <2>2. result' \in Words \cup {"absent"} /\ heard' \in Words \cup {"nothing"}
    BY <1>5 DEF Logout, LinkInv, LinkTypeOK
  <2>3. spc = "recognise" /\ spc' = "answer"
    BY <1>5 DEF Logout
  <2> QED
    BY <2>1, <2>2, <2>3, WaitingKeeps
<1>6. CASE Callback
  BY <1>6, LinkStutters DEF Callback
<1> QED
  BY <1>1, <1>2, <1>3, <1>4, <1>5, <1>6 DEF Program, Engine

LEMMA LoopKeepsLink ==
  ASSUME LinkInv, Board \/ Loop \/ Environment
  PROVE  LinkInv'
BY ConnectKeeps, RecordKeeps, NoRecordingKeeps, SendChunkKeeps, SendLostKeeps,
   OverSendingKeeps, ReceiveKeeps, ReturnKeeps, LoseKeeps, RebootKeeps, AcceptKeeps,
   AcceptFailsKeeps, ReadHeaderKeeps, ReadBodyKeeps, BodyCutKeeps, AnswerKeeps, CloseKeeps
DEF Board, Loop, Environment
------------------------------------------------------------------------------
(* AsrInv. *)

LEMMA FileFacts ==
  ASSUME LinkInv, spc = "recognise"
  PROVE  FileSize \in Nat /\ (FileSize > 0 => OnDisk > head)
<1> DEFINE n == read - head
           whole == Block * (n \div Block)
<1>1. n \in Nat /\ head \in Nat /\ Block \in Nat \ {0}
  BY UnitsAssumption DEF LinkInv, LinkTypeOK, Taken
<1>2. whole \in Nat
  <2>1. \A k \in Nat, b \in Nat \ {0} : b * (k \div b) \in Nat
    BY Z3
  <2> QED
    BY <1>1, <2>1
<1>3. OnDisk = head + whole
  BY DEF OnDisk
<1> HIDE DEF n, whole
<1> QED
  BY <1>1, <1>2, <1>3 DEF FileSize

LEMMA SameFile ==
  ASSUME UNCHANGED <<head, read>>
  PROVE  FileSize' = FileSize
BY DEF FileSize, OnDisk

LEMMA InsideSame ==
  ASSUME NEW f, NEW t, Inside(f, t)
  PROVE  spc = "recognise" /\ spc' = spc /\ apc = f /\ apc' = t /\ FileSize' = FileSize
BY SameFile DEF Inside, linkVars, serverVars

LEMMA ConcludeSame ==
  ASSUME NEW f, NEW t, NEW w, Conclude(f, t, w)
  PROVE  spc = "recognise" /\ apc = f /\ apc' = t /\ FileSize' = FileSize
BY SameFile DEF Conclude

LEMMA NothingSame ==
  ASSUME NEW f, NEW t, Nothing(f, t)
  PROVE  spc = "recognise" /\ spc' = spc /\ apc = f /\ apc' = t /\ FileSize' = FileSize
BY ConcludeSame DEF Nothing

LEMMA LaunchKeeps == VoiceInv /\ Launch => AsrInv'
<1> SUFFICES ASSUME VoiceInv, Launch PROVE AsrInv'
  OBVIOUS
<1>1. spc' = "recognise" /\ apc = "off" /\ apc' = "login" /\ FileSize' = FileSize
  BY InsideSame DEF Launch
<1>2. session' = "none" /\ text' = FALSE /\ UNCHANGED <<callback, built, fed, left, stopped>>
  BY DEF Launch
<1> QED
  BY <1>1, <1>2 DEF VoiceInv, AsrInv, AsrTypeOK, Feeding

LEMMA LoginKeeps == VoiceInv /\ Login => AsrInv'
BY InsideSame, NothingSame DEF VoiceInv, AsrInv, AsrTypeOK, Login, Feeding

LEMMA BuildGrammarKeeps == VoiceInv /\ BuildGrammar => AsrInv'
BY InsideSame, NothingSame DEF VoiceInv, AsrInv, AsrTypeOK, BuildGrammar, Feeding

LEMMA WaitKeeps == VoiceInv /\ Wait => AsrInv'
<1> SUFFICES ASSUME VoiceInv, Wait PROVE AsrInv'
  OBVIOUS
<1>1. spc' = "recognise" /\ apc = "wait" /\ apc' \in {"open", "logout"} /\ FileSize' = FileSize
  BY InsideSame, NothingSame DEF Wait
<1>2. UNCHANGED <<callback, built, fed, left, stopped, session, text>>
  BY DEF Wait
<1> QED
  BY <1>1, <1>2 DEF VoiceInv, AsrInv, AsrTypeOK, Feeding

LEMMA OpenFileKeeps == VoiceInv /\ OpenFile => AsrInv'
BY InsideSame, NothingSame, FileFacts DEF VoiceInv, AsrInv, AsrTypeOK, OpenFile, Feeding

LEMMA SessionBeginKeeps == VoiceInv /\ SessionBegin => AsrInv'
BY InsideSame, NothingSame DEF VoiceInv, AsrInv, AsrTypeOK, SessionBegin, Feeding

LEMMA FeedChunkKeeps == VoiceInv /\ FeedChunk => AsrInv'
BY InsideSame, NothingSame, FeedAssumption
   DEF VoiceInv, AsrInv, AsrTypeOK, FeedChunk, ChunkLen, Feeding

LEMMA FeedOverKeeps == VoiceInv /\ FeedOver => AsrInv'
BY InsideSame, FeedAssumption DEF VoiceInv, AsrInv, AsrTypeOK, FeedOver, ChunkLen, Feeding

LEMMA FeedLastKeeps == VoiceInv /\ FeedLast => AsrInv'
BY InsideSame DEF VoiceInv, AsrInv, AsrTypeOK, FeedLast, Feeding

LEMMA GetResultKeeps ==
  ASSUME NEW t \in {"parse", "result"}
  PROVE  VoiceInv /\ GetResult(t) => AsrInv'
<1> SUFFICES ASSUME VoiceInv, GetResult(t) PROVE AsrInv'
  OBVIOUS
<1>1. spc' = "recognise" /\ apc = "result" /\ apc' = t /\ FileSize' = FileSize
  BY InsideSame DEF GetResult
<1>2. UNCHANGED <<callback, built, fed, left, stopped, session>>
  BY DEF GetResult
<1>3. text' \in BOOLEAN /\ (text' => fed > 0)
  <2>1. text' = FALSE \/ text' = (fed > 0)
    BY Zenon DEF GetResult
  <2>2. (fed > 0) \in BOOLEAN
    OBVIOUS
  <2> QED
    BY <2>1, <2>2, Zenon
<1>4. AsrTypeOK'
  BY <1>1, <1>2, <1>3 DEF VoiceInv, AsrInv, AsrTypeOK
<1> QED
  BY <1>1, <1>2, <1>3, <1>4 DEF VoiceInv, AsrInv, Feeding

LEMMA NoTextKeeps == VoiceInv /\ NoText => AsrInv'
BY NothingSame DEF VoiceInv, AsrInv, AsrTypeOK, NoText, Feeding

LEMMA WriteResultKeeps == VoiceInv /\ WriteResult => AsrInv'
BY ConcludeSame DEF VoiceInv, AsrInv, AsrTypeOK, WriteResult, Feeding

(* A process that is gone leaves nothing but what its crash left open. *)
LEMMA GoneKeeps ==
  ASSUME VoiceInv, apc' = "off", Gone, text' \in BOOLEAN, session = "open" => text'
  PROVE  AsrInv'
<1>1. /\ callback' = "none" /\ built' = FALSE /\ fed' = 0 /\ left' = 0 /\ stopped' = FALSE
      /\ session' = session /\ session \in {"none", "open"}
  BY DEF Gone, VoiceInv, AsrInv, AsrTypeOK
<1>2. AsrTypeOK'
  <2>1. 0 \in Nat
    OBVIOUS
  <2> QED
    BY <1>1, <2>1, Zenon DEF AsrTypeOK
<1> QED
  BY <1>1, <1>2 DEF AsrInv, Feeding

LEMMA CrashKeeps == VoiceInv /\ Crash => AsrInv'
<1> SUFFICES ASSUME VoiceInv, Crash PROVE AsrInv'
  OBVIOUS
<1>1. apc' = "off"
  BY ConcludeSame DEF Crash
<1>2. text' = text /\ text /\ text \in BOOLEAN
  BY DEF Crash, VoiceInv, AsrInv, AsrTypeOK
<1> QED
  BY <1>1, <1>2, GoneKeeps DEF Crash

LEMMA SessionEndKeeps == VoiceInv /\ SessionEnd => AsrInv'
BY InsideSame DEF VoiceInv, AsrInv, AsrTypeOK, SessionEnd, Feeding

LEMMA LogoutKeeps == VoiceInv /\ Logout => AsrInv'
BY GoneKeeps DEF VoiceInv, AsrInv, Logout

LEMMA CallbackKeeps == VoiceInv /\ Callback => AsrInv'
BY SameFile DEF VoiceInv, AsrInv, AsrTypeOK, Callback, AfterStore, Feeding, linkVars, serverVars

(* The board and the server's loop move only while the program is off, or     *)
(* leave what the recogniser reads alone.                                     *)
LEMMA LoopKeeps ==
  ASSUME VoiceInv, (Board \/ Loop \/ Environment) /\ UNCHANGED asrVars
  PROVE  AsrInv'
<1>1. CASE Board \/ Environment
  <2>1. UNCHANGED <<head, read, spc>>
    BY <1>1 DEF Board, Connect, Record, NoRecording, SendChunk, SendLost, OverSending, Receive,
                Return, Environment, Lose, Reboot, serverVars
  <2>2. FileSize' = FileSize
    BY <2>1, SameFile
  <2> QED
    BY <2>1, <2>2 DEF VoiceInv, AsrInv, AsrTypeOK, asrVars, Feeding
<1>2. CASE Loop
  <2>1. spc # "recognise"
    BY <1>2 DEF Loop, Accept, AcceptFails, ReadHeader, ReadBody, BodyCut, Answer, Close
  <2>2. apc = "off"
    BY <2>1 DEF VoiceInv, AsrInv
  <2> QED
    BY <2>2 DEF VoiceInv, AsrInv, AsrTypeOK, asrVars, Feeding
<1> QED
  BY <1>1, <1>2

LEMMA VoiceStep == VoiceInv /\ [VoiceNext]_voiceVars => VoiceInv'
<1> SUFFICES ASSUME VoiceInv, [VoiceNext]_voiceVars PROVE VoiceInv'
  OBVIOUS
<1>1. CASE (Board \/ Loop \/ Environment) /\ UNCHANGED asrVars
  BY <1>1, LoopKeepsLink, LoopKeeps DEF VoiceInv
<1>2. CASE Program \/ Engine \/ GetResult("result")
  <2>1. AsrInv'
    BY <1>2, LaunchKeeps, LoginKeeps, BuildGrammarKeeps, WaitKeeps, OpenFileKeeps,
       SessionBeginKeeps, FeedChunkKeeps, FeedOverKeeps, FeedLastKeeps, GetResultKeeps,
       NoTextKeeps, WriteResultKeeps, CrashKeeps, SessionEndKeeps, LogoutKeeps, CallbackKeeps
    DEF Program, Engine
  <2> QED
    BY <1>2, <2>1, ProgramKeepsLink DEF VoiceInv
<1>3. CASE UNCHANGED voiceVars
  <2>1. UNCHANGED linkVars /\ UNCHANGED asrVars
    BY <1>3 DEF voiceVars
  <2>2. FileSize' = FileSize /\ spc' = spc
    BY <2>1, SameFile DEF linkVars, serverVars
  <2> QED
    BY <2>1, <2>2, LinkStutters DEF VoiceInv, AsrInv, AsrTypeOK, asrVars, Feeding
<1> QED
  BY <1>1, <1>2, <1>3 DEF VoiceNext

(* The places of board, server and asr_sample stay in step. *)
THEOREM VoiceInvariance == VoiceSpec => []VoiceInv
BY VoiceInitially, VoiceStep, PTL DEF VoiceSpec

(* Every variable keeps its type: the feeding loop never counts below zero.   *)
THEOREM VoiceTypeCorrect == VoiceSpec => []VoiceTypeOK
<1>1. VoiceInv => VoiceTypeOK
  BY DEF VoiceInv, LinkInv, AsrInv, VoiceTypeOK
<1> QED
  BY <1>1, VoiceInvariance, PTL

(* Whatever the length of the recording and of a chunk, the engine gets the   *)
(* whole file, unless it says itself that it has heard enough                 *)
(* (asr_sample.c:202-230).                                                    *)
THEOREM FileSafe == VoiceSpec => []WholeFileFed
<1>1. ASSUME VoiceInv PROVE WholeFileFed
  <2>1. apc \in Feeding => fed + left = FileSize
    BY <1>1 DEF VoiceInv, AsrInv
  <2>2. fed \in Nat /\ left \in Nat
    BY <1>1 DEF VoiceInv, AsrInv, AsrTypeOK
  <2>3. left = 0 => fed + left = fed
    BY <2>2
  <2>4. apc \in {"last", "result", "parse"} => stopped \/ left = 0
    BY <1>1 DEF VoiceInv, AsrInv
  <2> QED
    BY <2>1, <2>3, <2>4 DEF WholeFileFed, Feeding
<1> QED
  BY <1>1, VoiceInvariance, PTL

(* Every path out of run_asr ends the session before it logs out; only the    *)
(* parser's crash leaves one open (asr_sample.c:262-279).                     *)
THEOREM SessionsSafe == VoiceSpec => []SessionsEnded
<1>1. VoiceInv => SessionsEnded
  BY DEF VoiceInv, AsrInv, SessionsEnded
<1> QED
  BY <1>1, VoiceInvariance, PTL

------------------------------------------------------------------------------
(* The refinement. *)

Mapped == IF spc = "recognise" /\ apc \in {"end", "logout"} THEN "answer" ELSE spc

LEMMA ConcludeMaps ==
  ASSUME NEW f \in {"login", "build", "wait", "open", "begin", "feed", "parse"},
         NEW t \in {"end", "logout", "off"}, NEW w, Conclude(f, t, w),
         spc' = IF t = "off" THEN "answer" ELSE spc,
         \/ w = "nothing" /\ UNCHANGED result
         \/ w \in Words /\ OnDisk > head /\ result' = w
  PROVE  Abstract!Recognise
<1>1. spc = "recognise" /\ apc = f /\ apc' = t /\ heard' = w
      /\ UNCHANGED <<conn, head, read, leaked, answer, closed, boardVars>>
  BY DEF Conclude
<1>2. Mapped = "recognise" /\ Mapped' = "answer"
  BY <1>1 DEF Mapped
<1> QED
  BY <1>1, <1>2 DEF Abstract!Recognise, Mapped, OnDisk, Abstract!OnDisk, boardVars, Abstract!boardVars

LEMMA NothingMaps ==
  ASSUME NEW f \in {"login", "build", "wait", "open", "begin", "feed", "parse"},
         NEW t \in {"end", "logout"}, Nothing(f, t)
  PROVE  Abstract!Recognise
BY ConcludeMaps DEF Nothing

LEMMA InsideMaps ==
  ASSUME NEW f, NEW t, Inside(f, t), f \in {"end", "logout"} <=> t \in {"end", "logout"}
  PROVE  UNCHANGED Abstract!linkVars
<1>1. spc' = spc /\ apc = f /\ apc' = t /\ UNCHANGED linkVars
  BY DEF Inside, linkVars, serverVars
<1>2. Mapped' = Mapped
  BY <1>1 DEF Mapped
<1> QED
  BY <1>1, <1>2 DEF Abstract!linkVars, Abstract!serverVars, Abstract!boardVars, Mapped,
                    linkVars, serverVars, boardVars

(* The other actions of the server and the board are what they were. *)
LEMMA LoopMaps ==
  ASSUME VoiceInv, (Board \/ Loop \/ Environment) /\ UNCHANGED asrVars
  PROVE  Abstract!LinkNext
<1>1. apc' = apc
  BY DEF asrVars
<1>2. spc # "recognise" => apc = "off"
  BY DEF VoiceInv, AsrInv
<1>3. CASE Board \/ Environment
  <2>1. UNCHANGED serverVars
    BY <1>3 DEF Board, Connect, Record, NoRecording, SendChunk, SendLost, OverSending, Receive,
                Return, Environment, Lose, Reboot
  <2>2. Mapped' = Mapped /\ (Mapped = "crashed" <=> spc = "crashed")
    BY <1>1, <2>1 DEF Mapped, serverVars
  <2>3. UNCHANGED Abstract!serverVars
    BY <2>1, <2>2 DEF serverVars, Abstract!serverVars, Mapped
  <2> USE <2>2, <2>3 DEF Mapped, Sending, Abstract!Sending, Wired, Abstract!Wired,
                         Least, Abstract!Least
  <2>4. Connect => Abstract!Connect
    BY DEF Connect, Abstract!Connect
  <2>5. Record => Abstract!Record
    BY DEF Record, Abstract!Record
  <2>6. NoRecording => Abstract!NoRecording
    BY DEF NoRecording, Abstract!NoRecording
  <2>7. SendChunk => Abstract!SendChunk
    BY DEF SendChunk, Abstract!SendChunk
  <2>8. SendLost => Abstract!SendLost
    BY DEF SendLost, Abstract!SendLost
  <2>9. OverSending => Abstract!OverSending
    BY DEF OverSending, Abstract!OverSending
  <2>10. Receive => Abstract!Receive
    BY DEF Receive, Abstract!Receive
  <2>11. Return => Abstract!Return
    BY DEF Return, Abstract!Return
  <2>12. Lose => Abstract!Lose
    BY DEF Lose, Abstract!Lose
  <2>13. Reboot => Abstract!Reboot
    BY DEF Reboot, Abstract!Reboot
  <2> QED
    BY <1>3, <2>4, <2>5, <2>6, <2>7, <2>8, <2>9, <2>10, <2>11, <2>12, <2>13
       DEF Board, Environment, Abstract!LinkNext, Abstract!Board, Abstract!Environment
<1>4. CASE Loop
  <2>1. spc # "recognise"
    BY <1>4 DEF Loop, Accept, AcceptFails, ReadHeader, ReadBody, BodyCut, Answer, Close
  <2>2. apc = "off" /\ apc' = "off"
    BY <1>1, <1>2, <2>1
  <2>3. Mapped = spc /\ Mapped' = spc'
    BY <2>2 DEF Mapped
  <2> USE <2>3 DEF boardVars, Abstract!boardVars, Mapped, Chunk, Abstract!Chunk, NoMore,
                   Abstract!NoMore, Least, Abstract!Least, Unused, Abstract!Unused
  <2>4. Accept => Abstract!Accept
    BY DEF Accept, Abstract!Accept
  <2>5. AcceptFails => Abstract!AcceptFails
    BY DEF AcceptFails, Abstract!AcceptFails
  <2>6. ReadHeader => Abstract!ReadHeader
    BY DEF ReadHeader, Abstract!ReadHeader
  <2>7. ReadBody => Abstract!ReadBody
    BY DEF ReadBody, Abstract!ReadBody
  <2>10. BodyCut => Abstract!BodyCut
    BY DEF BodyCut, Abstract!BodyCut
  <2>8. Answer => Abstract!Answer
    BY DEF Answer, Abstract!Answer
  <2>9. Close => Abstract!Close
    BY DEF Close, Abstract!Close
  <2> QED
    BY <1>4, <2>4, <2>5, <2>6, <2>7, <2>8, <2>9, <2>10 DEF Loop, Abstract!LinkNext, Abstract!Server
<1> QED
  BY <1>3, <1>4

LEMMA ProgramMaps ==
  ASSUME VoiceInv, Program \/ Engine \/ GetResult("result")
  PROVE  Abstract!LinkNext \/ UNCHANGED Abstract!linkVars
<1>1. CASE Launch \/ SessionEnd \/ FeedOver \/ FeedLast \/ GetResult("parse") \/ GetResult("result")
  BY <1>1, InsideMaps DEF Launch, SessionEnd, FeedOver, FeedLast, GetResult
<1>2. CASE Login \/ BuildGrammar \/ Wait \/ OpenFile \/ SessionBegin \/ FeedChunk \/ NoText
  <2>1. \A f, t : Inside(f, t) /\ {f, t} \cap {"end", "logout"} = {} => UNCHANGED Abstract!linkVars
    BY InsideMaps
  <2>2. \A f \in {"login", "build", "wait", "open", "begin", "feed", "parse"}, t \in {"end", "logout"} :
          Nothing(f, t) => Abstract!Recognise
    BY NothingMaps
  <2> QED
    BY <1>2, <2>1, <2>2
       DEF Login, BuildGrammar, Wait, OpenFile, SessionBegin, FeedChunk, NoText,
           Abstract!LinkNext, Abstract!Server
<1>3. CASE WriteResult
  <2>1. PICK w \in Words : Conclude("parse", "end", w) /\ result' = w
    BY <1>3 DEF WriteResult
  <2>2. spc' = spc /\ apc = "parse" /\ spc = "recognise" /\ text
    BY <1>3, <2>1 DEF WriteResult, Conclude
  <2>3. OnDisk > head
    <3>1. fed + left = FileSize /\ fed > 0
      BY <2>2 DEF VoiceInv, AsrInv, Feeding
    <3>2. fed \in Nat /\ left \in Nat
      BY DEF VoiceInv, AsrInv, AsrTypeOK
    <3>3. FileSize \in Nat /\ (FileSize > 0 => OnDisk > head)
      BY <2>2, FileFacts DEF VoiceInv
    <3>4. FileSize > 0
      BY <3>1, <3>2
    <3> QED
      BY <3>3, <3>4
  <2>4. Abstract!Recognise
    BY <2>1, <2>2, <2>3, ConcludeMaps
  <2> QED
    BY <2>4 DEF Abstract!LinkNext, Abstract!Server
<1>4. CASE Crash
  <2>1. Abstract!Recognise
    BY <1>4, ConcludeMaps DEF Crash
  <2> QED
    BY <2>1 DEF Abstract!LinkNext, Abstract!Server
<1>5. CASE Logout
  <2>1. Mapped = "answer" /\ Mapped' = "answer"
    BY <1>5 DEF Logout, Mapped
  <2> QED
    BY <1>5, <2>1 DEF Logout, Mapped, Abstract!linkVars, Abstract!serverVars, Abstract!boardVars,
                      boardVars
<1>6. CASE Callback
  <2>1. spc' = spc /\ apc' = apc /\ UNCHANGED linkVars
    BY <1>6 DEF Callback, linkVars, serverVars
  <2> QED
    BY <2>1 DEF Abstract!linkVars, Abstract!serverVars, Abstract!boardVars,
                linkVars, serverVars, boardVars
<1> QED
  BY <1>1, <1>2, <1>3, <1>4, <1>5, <1>6 DEF Program, Engine

(* asr_sample, step by step and with the engine's callback, implements the    *)
(* one step that VoiceLink makes of it: the answer's file changes at most     *)
(* once, and only when there was something to hear.                           *)
THEOREM AsrImplementsLink == VoiceSpec => ImplementsLink
<1>1. VoiceInit => Abstract!LinkInit
  BY DEF VoiceInit, AsrInit, LinkInit, Abstract!LinkInit, Calls, Abstract!Calls,
         Unused, Abstract!Unused
<1>2. VoiceInv /\ [VoiceNext]_voiceVars => [Abstract!LinkNext]_(Abstract!linkVars)
  <2>1. CASE UNCHANGED voiceVars
    BY <2>1 DEF voiceVars, asrVars, linkVars, serverVars, boardVars,
                Abstract!linkVars, Abstract!serverVars, Abstract!boardVars
  <2> QED
    BY <2>1, LoopMaps, ProgramMaps DEF VoiceNext
<1> QED
  BY <1>1, <1>2, VoiceInvariance, PTL DEF VoiceSpec, ImplementsLink

(* So the connection keeps its promises with the real program in place of the *)
(* step: nothing it does disturbs them.                                       *)
THEOREM LinkStillSafe == VoiceSpec => [](SavedAsMany /\ WavIsPrefix /\ AnswerIsResult)
<1>1. LinkInv => SavedAsMany /\ AnswerIsResult
  BY AnswerFacts DEF LinkInv, Taken, SavedAsMany
<1>2. LinkInv => WavIsPrefix
  BY WavFacts
<1> QED
  BY <1>1, <1>2, VoiceInvariance, PTL DEF VoiceInv
=============================================================================
