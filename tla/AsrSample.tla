----------------------------- MODULE AsrSample -----------------------------
(* asr_sample, the program voiceServer.c runs with system() while its loop    *)
(* stands at "recognise": log in, build the grammar and wait for a callback,  *)
(* feed the saved recording to the engine chunk by chunk, fetch the result,   *)
(* rewrite result.txt, end the session, log out.  Module VoiceLink sees all   *)
(* this as one step.                                                          *)
EXTENDS VoiceLink

CONSTANTS Feed  \* units of a chunk (6400 bytes); what is less than two chunks goes at once

ASSUME FeedAssumption == Feed \in Nat \ {0}

VARIABLES
  apc,      \* its place, or "off" when it does not run
  callback, \* build_grm_cb: "none", "called", and then the last store it made
  built,    \* the ecode it was given is MSP_SUCCESS
  fed,      \* pcm_count
  left,     \* pcm_size, which counts down
  stopped,  \* ep_status is MSP_EP_AFTER_SPEECH
  session,  \* "none" or "open"
  text      \* rec_rslt is not NULL

asrVars == <<apc, callback, built, fed, left, stopped, session, text>>
voiceVars == <<linkVars, asrVars>>

FileSize == OnDisk - head

AsrInit == /\ apc = "off" /\ callback = "none" /\ built = FALSE /\ fed = 0 /\ left = 0
           /\ stopped = FALSE /\ session = "none" /\ text = FALSE

(* A step of asr_sample that the server does not see. *)
Inside(from, to) == /\ spc = "recognise" /\ apc = from /\ apc' = to
                    /\ UNCHANGED linkVars

(* The process is gone, and its memory with it; a session that was not ended  *)
(* stays with the engine.                                                     *)
Gone == /\ callback' = "none" /\ built' = FALSE /\ fed' = 0 /\ left' = 0 /\ stopped' = FALSE
        /\ UNCHANGED session

(* From here on nothing changes result.txt any more. *)
Conclude(from, to, w) ==
  /\ spc = "recognise" /\ apc = from /\ apc' = to
  /\ heard' = w
  /\ UNCHANGED <<conn, head, read, leaked, answer, closed, boardVars>>

Nothing(from, to) == Conclude(from, to, "nothing") /\ UNCHANGED <<spc, result>>

------------------------------------------------------------------------------
Launch ==
  /\ Inside("off", "login")
  /\ session' = "none" /\ text' = FALSE
  /\ UNCHANGED <<callback, built, fed, left, stopped>>

Login == /\ Inside("login", "build") \/ Nothing("login", "logout")
         /\ UNCHANGED <<callback, built, fed, left, stopped, session, text>>

(* The grammar file does not open or the engine refuses it; or the engine     *)
(* begins to build it and will call back.                                     *)
BuildGrammar ==
  /\ \/ Nothing("build", "logout") /\ UNCHANGED <<callback, built>>
     \/ Inside("build", "wait") /\ callback' = "called" /\ built' \in BOOLEAN
  /\ UNCHANGED <<fed, left, stopped, session, text>>

(* The three stores of the callback, on a thread of the engine: build_fini,   *)
(* errcode, grammar_id.                                                       *)
AfterStore == [called |-> "build_fini", build_fini |-> "errcode", errcode |-> "grammar_id"]
Callback ==
  /\ apc # "off" /\ callback \in DOMAIN AfterStore
  /\ callback' = AfterStore[callback]
  /\ UNCHANGED <<apc, built, fed, left, stopped, session, text, linkVars>>

(* The loop that polls build_fini, and the test of errcode, which is still 0  *)
(* when the callback has not stored it.                                       *)
Refused == callback \in {"errcode", "grammar_id"} /\ ~built
Wait ==
  /\ callback # "called"
  /\ IF Refused THEN Nothing("wait", "logout") ELSE Inside("wait", "open")
  /\ UNCHANGED <<callback, built, fed, left, stopped, session, text>>

(* fopen and fread of the whole recording. *)
OpenFile ==
  /\ \/ Inside("open", "begin") /\ left' = FileSize
     \/ Nothing("open", "end") /\ UNCHANGED left
  /\ UNCHANGED <<callback, built, fed, stopped, session, text>>

SessionBegin ==
  /\ \/ Inside("begin", "feed") /\ session' = "open"
     \/ Nothing("begin", "end") /\ UNCHANGED session
  /\ UNCHANGED <<callback, built, fed, left, stopped, text>>

(* Faulty: what does not fill a chunk at the end is dropped. *)
ChunkLenFull == IF left < 2 * Feed THEN 0 ELSE Feed

(* Faulty: always a whole chunk. *)
ChunkLenWhole == Feed

ChunkLen == IF left < 2 * Feed THEN left ELSE Feed

(* One turn of the feeding loop.  The engine may say that the speech is over, *)
(* or fail.                                                                   *)
FeedChunk ==
  /\ ChunkLen > 0
  /\ \/ /\ stopped' \in BOOLEAN
        /\ Inside("feed", IF stopped' THEN "last" ELSE "feed")
        /\ fed' = fed + ChunkLen /\ left' = left - ChunkLen
     \/ Nothing("feed", "end") /\ UNCHANGED <<fed, left, stopped>>
  /\ UNCHANGED <<callback, built, session, text>>

FeedOver == /\ ChunkLen = 0
            /\ Inside("feed", "last")
            /\ UNCHANGED <<callback, built, fed, left, stopped, session, text>>

FeedLast == /\ Inside("last", "result")
            /\ UNCHANGED <<callback, built, fed, left, stopped, session, text>>

(* QISRGetResult: not complete yet; or complete or failed.  Each call         *)
(* overwrites rec_rslt.  The engine has no text without audio.                *)
GetResult(next) ==
  /\ Inside("result", next)
  /\ text' \in {FALSE, fed > 0}
  /\ UNCHANGED <<callback, built, fed, left, stopped, session>>

(* Faulty: result.txt is opened for writing before rec_rslt is looked at, and *)
(* the server finds an old word gone.                                         *)
NoTextTruncating ==
  /\ ~text
  /\ Conclude("parse", "end", "nothing") /\ result' = "other" /\ UNCHANGED spc
  /\ UNCHANGED <<callback, built, fed, left, stopped, session, text>>

NoText ==
  /\ ~text
  /\ Nothing("parse", "end")
  /\ UNCHANGED <<callback, built, fed, left, stopped, session, text>>

(* The first raw text goes into the file. *)
WriteResult ==
  /\ text
  /\ \E w \in Words : Conclude("parse", "end", w) /\ result' = w
  /\ UNCHANGED <<spc, callback, built, fed, left, stopped, session, text>>

(* The answer has no raw text, or result.txt cannot be written: a null        *)
(* pointer is used, the program is gone and system() returns.                 *)
Crash ==
  /\ text
  /\ Conclude("parse", "off", "nothing") /\ spc' = "answer"
  /\ UNCHANGED <<result, text>> /\ Gone

(* Faulty: the error path leaves without ending the session. *)
SessionEndSkipped ==
  /\ Inside("end", "logout")
  /\ session' = IF text THEN "none" ELSE session
  /\ UNCHANGED <<callback, built, fed, left, stopped, text>>

(* QISRSessionEnd, also with no session. *)
SessionEnd ==
  /\ Inside("end", "logout")
  /\ session' = "none"
  /\ UNCHANGED <<callback, built, fed, left, stopped, text>>

(* MSPLogout, and the process ends. *)
Logout ==
  /\ spc = "recognise" /\ apc = "logout"
  /\ apc' = "off" /\ spc' = "answer"
  /\ UNCHANGED <<conn, head, read, leaked, answer, closed, result, heard, boardVars>>
  /\ text' = FALSE /\ Gone

------------------------------------------------------------------------------
(* What the program does by itself, and what the engine does some time. *)
Program == \/ Launch \/ Login \/ BuildGrammar \/ Wait \/ OpenFile \/ SessionBegin
           \/ FeedChunk \/ FeedOver \/ FeedLast
           \/ NoText \/ WriteResult \/ Crash \/ SessionEnd \/ Logout
Engine  == Callback \/ GetResult("parse")

Loop == Accept \/ AcceptFails \/ ReadHeader \/ ReadBody \/ BodyCut \/ Answer \/ Close

VoiceInit == LinkInit /\ AsrInit
VoiceNext == \/ (Board \/ Loop \/ Environment) /\ UNCHANGED asrVars
             \/ Program \/ Engine \/ GetResult("result")

VoiceSpec ==
  /\ VoiceInit /\ [][VoiceNext]_voiceVars
  /\ WF_voiceVars(Board /\ UNCHANGED asrVars) /\ WF_voiceVars(Loop /\ UNCHANGED asrVars)
  /\ WF_voiceVars(Program) /\ WF_voiceVars(Callback) /\ WF_voiceVars(GetResult("parse"))
------------------------------------------------------------------------------
AsrTypeOK ==
  /\ apc \in {"off", "login", "build", "wait", "open", "begin", "feed", "last", "result",
              "parse", "end", "logout"}
  /\ callback \in {"none", "called", "build_fini", "errcode", "grammar_id"}
  /\ fed \in Nat /\ left \in Nat
  /\ built \in BOOLEAN /\ stopped \in BOOLEAN /\ text \in BOOLEAN
  /\ session \in {"none", "open"}

VoiceTypeOK == LinkTypeOK /\ AsrTypeOK

(* asr_sample does to the server and to result.txt what the one step of       *)
(* VoiceLink does, however its own steps, the engine's callback and the board *)
(* interleave: the file changes at most once, before the answer is read, and  *)
(* only when something was heard.                                             *)
Abstract == INSTANCE VoiceLink
  WITH spc <- IF spc = "recognise" /\ apc \in {"end", "logout"} THEN "answer" ELSE spc
ImplementsLink == Abstract!LinkInit /\ [][Abstract!LinkNext]_(Abstract!linkVars)

(* The engine gets every byte the server has on the disk, in order and none   *)
(* twice, unless it says that the speech is over (asr_sample.c:196-224).      *)
WholeFileFed ==
  /\ apc \in {"feed", "last"} => fed + left = FileSize
  /\ apc \in {"last", "result", "parse"} => stopped \/ fed = FileSize

(* Whichever way the program leaves run_asr, the session it began is ended    *)
(* before it logs out; only a crash in the parser, with a text, leaves one    *)
(* open (asr_sample.c:268-279).                                               *)
SessionsEnded ==
  /\ apc = "logout" => session # "open"
  /\ apc = "off" /\ session = "open" => text
=============================================================================
