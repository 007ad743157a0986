-------------------------- MODULE SpeechRecognizer --------------------------
(* speech_recognizer.c: a recognition session of the speech engine, fed by    *)
(* the recorder's thread (SR_MIC) or by the caller (SR_USER).  The engine is  *)
(* external: a call on a session that is not open fails, any other call may.  *)
EXTENDS Recorder

VARIABLES
  src,      \* sr->aud_src
  started,  \* sr->state is SR_STATE_STARTED
  id,       \* sr->session_id is not NULL
  ep_stat,  \* sr->ep_stat, see EpStats
  complete, \* sr->rec_stat is MSP_REC_STATUS_COMPLETE
  session,  \* the engine's session: "none", "open" or "ended"
  begun     \* on_speech_begin has made the buffer on_result appends to

(* Below, at and above MSP_EP_AFTER_SPEECH: above are a time-out, an error and *)
(* speech that was too long.                                                  *)
EpStats == {"speech", "after", "beyond"}

srVars == <<src, started, id, ep_stat, complete, session, begun>>

(* The places of sr_start_listening, sr_stop_listening, sr_write_audio_data   *)
(* with end_sr_on_vad, and end_sr_on_error, which also ends as the latter.    *)
StartPlaces == {"begin", "record", "recording", "started", "begun"}
ListenPlaces == {"stopListening", "await", "stopFails", "stopped", "last", "result"}
WritePlaces == {"write", "partial", "written", "writeFails", "vad", "vadReset", "vadLoop"}
ErrorPlaces == {"error", "errorEnd"}
EndPlaces == {"errorInit"}

SrTypeOK ==
  /\ src \in {"mic", "user"}
  /\ started \in BOOLEAN /\ id \in BOOLEAN /\ ep_stat \in EpStats /\ complete \in BOOLEAN
  /\ session \in {"none", "open", "ended"}
  /\ begun \in BOOLEAN

SrInit ==
  /\ src \in {"mic", "user"}
  /\ started = FALSE /\ id = FALSE /\ ep_stat = "speech" /\ complete = FALSE
  /\ session = "none" /\ begun = FALSE

Usable == id /\ session = "open"
EndSession == session' = IF id /\ session = "open" THEN "ended" ELSE session

(* on_result with no buffer ends the program. *)
Crash == /\ pc' = [main |-> "crashed", rec |-> "dead"]
         /\ stack' = [t \in Threads |-> <<>>]
Deliver(t, next) == Goto(t, next) \/ (~begun /\ Crash)

------------------------------------------------------------------------------
(* end_sr_on_error: stop the recorder, end the session, back to INIT.         *)
ErrorStop(t) ==
  /\ At(t, "error")
  /\ IF src = "mic" THEN Call(t, "stop", "errorEnd", "errorEnd") ELSE Goto(t, "errorEnd")
  /\ UNCHANGED <<recorderVars, srVars>>

(* Faulty: the session id is forgotten before the session is ended. *)
ErrorForget(t) ==
  /\ At(t, "errorEnd")
  /\ id' = FALSE
  /\ Goto(t, "errorInit")
  /\ UNCHANGED <<recorderVars, src, started, ep_stat, complete, session, begun>>

(* Ending twice is an error the engine reports and nobody reads.              *)
ErrorEnd(t) ==
  /\ At(t, "errorEnd")
  /\ EndSession /\ id' = FALSE
  /\ Goto(t, "errorInit")
  /\ UNCHANGED <<recorderVars, src, started, ep_stat, complete, begun>>

ErrorInit(t) ==
  /\ At(t, "errorInit")
  /\ started' = FALSE
  /\ Return(t)
  /\ UNCHANGED <<recorderVars, src, id, ep_stat, complete, session, begun>>

(* end_sr_on_vad: the speech is over.  Its loop does not look at the error    *)
(* code; what ends it is a result, or in the recorder's thread a cancellation *)
(* while it sleeps.                                                           *)
VadStop(t) ==
  /\ At(t, "vad")
  /\ IF src = "mic" THEN Call(t, "stop", "vadReset", "vadReset") ELSE Goto(t, "vadReset")
  /\ UNCHANGED <<recorderVars, srVars>>

VadReset(t) ==
  /\ At(t, "vadReset")
  /\ complete' = FALSE
  /\ Goto(t, "vadLoop")
  /\ UNCHANGED <<recorderVars, src, started, id, ep_stat, session, begun>>

VadResult(t) ==
  /\ At(t, "vadLoop") /\ ~complete
  /\ Usable /\ complete' = TRUE
  /\ Deliver(t, "vadLoop")
  /\ UNCHANGED <<recorderVars, src, started, id, ep_stat, session, begun>>

VadEnd(t) ==
  /\ At(t, "vadLoop") /\ complete
  /\ EndSession /\ id' = FALSE
  /\ Goto(t, "errorInit")
  /\ UNCHANGED <<recorderVars, src, started, ep_stat, complete, begun>>

------------------------------------------------------------------------------
(* sr_write_audio_data.  The engine stores ep_stat and rec_stat. *)
WriteData(t) ==
  /\ At(t, "write")
  /\ \/ /\ Usable
        /\ ep_stat' \in EpStats /\ complete' = FALSE
        /\ Goto(t, "written") \/ Goto(t, "partial")
     \/ Call(t, "error", "writeFails", "writeFails") /\ UNCHANGED <<ep_stat, complete>>
  /\ UNCHANGED <<recorderVars, src, started, id, session, begun>>

(* There are results already. *)
Partial(t) ==
  /\ At(t, "partial")
  /\ \/ Usable /\ complete' \in BOOLEAN /\ Deliver(t, "written")
     \/ Call(t, "error", "writeFails", "writeFails") /\ UNCHANGED complete
  /\ UNCHANGED <<recorderVars, src, started, id, ep_stat, session, begun>>

Written(t) ==
  /\ At(t, "written")
  /\ IF ep_stat = "after" THEN Goto(t, "vad") ELSE Return(t)
  /\ UNCHANGED <<recorderVars, srVars>>

WriteFails(t) == At(t, "writeFails") /\ Fails(t) /\ UNCHANGED <<recorderVars, srVars>>

(* iat_cb, the callback of the recorder's thread; a second end_sr_on_error    *)
(* follows the one sr_write_audio_data has made.                              *)
Data ==
  /\ At("rec", "data")
  /\ IF ep_stat # "speech" \/ ~started THEN Goto("rec", "top") ELSE Call("rec", "write", "top", "dataFails")
  /\ UNCHANGED <<recorderVars, srVars>>

DataFails == /\ At("rec", "dataFails") /\ Call("rec", "error", "top", "top")
             /\ UNCHANGED <<recorderVars, srVars>>

------------------------------------------------------------------------------
(* sr_start_listening, to be followed by next. *)
Begin(next) ==
  /\ At("main", "begin")
  /\ \/ /\ id' = TRUE /\ session' = "open" /\ ep_stat' = "speech" /\ complete' = FALSE
        /\ Goto("main", IF src = "mic" THEN "record" ELSE "started")
     \/ Goto("main", next) /\ UNCHANGED <<id, session, ep_stat, complete>>
  /\ UNCHANGED <<recorderVars, src, started, begun>>

Record(next) ==
  /\ At("main", "record")
  /\ \/ StartDevice("recording") /\ UNCHANGED <<id, session>>
     \/ StartFails(next) /\ EndSession /\ id' = FALSE
  /\ UNCHANGED <<src, started, ep_stat, complete, begun>>

Recording == At("main", "recording") /\ StartStore("started") /\ UNCHANGED srVars

Started == /\ At("main", "started") /\ Goto("main", "begun")
           /\ started' = TRUE
           /\ UNCHANGED <<recorderVars, src, id, ep_stat, complete, session, begun>>

SpeechBegin(next) ==
  /\ At("main", "begun") /\ Goto("main", next)
  /\ begun' = TRUE
  /\ UNCHANGED <<recorderVars, src, started, id, ep_stat, complete, session>>

------------------------------------------------------------------------------
(* sr_stop_listening. *)
StopListening ==
  /\ At("main", "stopListening")
  /\ IF ~started THEN Return("main")
     ELSE IF src = "mic" THEN Call("main", "stop", "await", "stopFails")
     ELSE Goto("main", "stopped")
  /\ UNCHANGED <<recorderVars, srVars>>

StopFails == At("main", "stopFails") /\ Fails("main") /\ UNCHANGED <<recorderVars, srVars>>

(* Faulty: no wait for the recorder. *)
AwaitNothing == /\ At("main", "await") /\ Goto("main", "stopped")
                /\ UNCHANGED <<recorderVars, srVars>>

(* wait_for_rec_stop with no time limit. *)
Await == /\ At("main", "await") /\ IsStopped
         /\ Goto("main", "stopped")
         /\ UNCHANGED <<recorderVars, srVars>>

Stopped == /\ At("main", "stopped") /\ Goto("main", "last")
           /\ started' = FALSE
           /\ UNCHANGED <<recorderVars, src, id, ep_stat, complete, session, begun>>

WriteLast ==
  /\ At("main", "last")
  /\ \/ Usable /\ ep_stat' \in EpStats /\ complete' = FALSE /\ Goto("main", "result") /\ UNCHANGED session
     \/ EndSession /\ Fails("main") /\ UNCHANGED <<ep_stat, complete>>
  /\ UNCHANGED <<recorderVars, src, started, id, begun>>

ResultFails ==
  /\ At("main", "result") /\ ~complete
  /\ Call("main", "error", "stopFails", "stopFails")
  /\ UNCHANGED <<recorderVars, srVars>>

Result ==
  /\ At("main", "result") /\ ~complete
  /\ Usable /\ complete' = TRUE
  /\ Deliver("main", "result")
  /\ UNCHANGED <<recorderVars, src, started, id, ep_stat, session, begun>>

ResultEnd ==
  /\ At("main", "result") /\ complete
  /\ EndSession /\ id' = FALSE
  /\ Return("main")
  /\ UNCHANGED <<recorderVars, src, started, ep_stat, complete, begun>>

(* sr_uninit.  With a recorder that was never opened is_record_stopped asks   *)
(* a null handle.                                                             *)
Uninit ==
  /\ At("main", "uninit")
  /\ CASE heap = "none" -> Goto("main", "uninit2")
       [] heap = "made" -> Crash
       [] heap = "open" -> IF IsStopped THEN Goto("main", "close")
                                        ELSE Call("main", "stop", "close", "close")
  /\ UNCHANGED <<recorderVars, srVars>>

Procedures(t) ==
  \/ (StopTest(t) \/ StopStore(t) \/ StopDrop(t) \/ StopReady(t)) /\ UNCHANGED srVars
  \/ ErrorStop(t) \/ ErrorEnd(t) \/ ErrorInit(t)
  \/ VadStop(t) \/ VadReset(t) \/ VadEnd(t)
  \/ WriteData(t) \/ Partial(t) \/ Written(t) \/ WriteFails(t)
=============================================================================
