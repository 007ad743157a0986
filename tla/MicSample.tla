----------------------------- MODULE MicSample -----------------------------
(* asr_record_sample.c, run_asr: demo_mic records for some time while the     *)
(* recorder's thread feeds the engine, demo_file feeds it a file by itself.   *)
EXTENDS SpeechRecognizer

CONSTANTS Chunks \* parts of the file demo_file may find

ASSUME ChunksAssumption == Chunks \subseteq Nat

VARIABLE chunks \* parts of the file not yet fed

micVars == <<pc, stack, recorderVars, srVars, chunks>>

MicInit ==
  /\ RecorderInit /\ SrInit
  /\ chunks \in Chunks
  /\ pc = [main |-> "init", rec |-> "none"]
  /\ stack = [t \in Threads |-> <<>>]

(* sr_init: no device or no memory ends demo_mic, and demo_file has no use    *)
(* for the recorder.  When demo_file cannot read its file or sr_init fails,   *)
(* it stops and releases a recogniser that was never initialised, and what    *)
(* that does depends on what the stack held.                                  *)
Init ==
  /\ At("main", "init")
  /\ IF src = "user" THEN /\ \E l \in {"begin", "done", "crashed"} : Goto("main", l)
                         /\ UNCHANGED recorderVars
     ELSE \/ OpenRecorder("begin")
          \/ Goto("main", "done") /\ UNCHANGED recorderVars
  /\ UNCHANGED <<srVars, chunks>>

(* Both demos go on after an error. *)
Exit == IF src = "mic" THEN "listen" ELSE "exit"
Start == /\ \/ Begin(Exit) \/ Record("listen") \/ Recording \/ Started
            \/ SpeechBegin(IF src = "mic" THEN "listen" ELSE "feed")
         /\ UNCHANGED chunks

(* Fifteen seconds. *)
Listen ==
  /\ At("main", "listen") /\ Call("main", "stopListening", "uninit", "uninit")
  /\ UNCHANGED <<recorderVars, srVars, chunks>>

(* Faulty: fread is not asked whether there was anything. *)
FeedBeyond ==
  /\ At("main", "feed")
  /\ \/ /\ chunks' = chunks - 1
        /\ Call("main", "write", "feed", "exit")
     \/ Call("main", "stopListening", "exit", "exit") /\ UNCHANGED chunks
  /\ UNCHANGED <<recorderVars, srVars>>

(* The loop of demo_file. *)
Feed ==
  /\ At("main", "feed")
  /\ IF chunks > 0 THEN /\ chunks' = chunks - 1
                        /\ Call("main", "write", "feed", "exit")
     ELSE Call("main", "stopListening", "exit", "exit") /\ UNCHANGED chunks
  /\ UNCHANGED <<recorderVars, srVars>>

(* demo_file stops again whatever has happened. *)
ExitFile ==
  /\ At("main", "exit") /\ Call("main", "stopListening", "uninit", "uninit")
  /\ UNCHANGED <<recorderVars, srVars, chunks>>

Finish == /\ At("main", "uninit2") /\ Goto("main", "done")
          /\ UNCHANGED <<recorderVars, srVars, chunks>>

Main ==
  \/ Init \/ Start \/ Listen \/ Feed \/ ExitFile \/ Finish
  \/ (Close \/ Cancel \/ JoinAndFree) /\ UNCHANGED <<srVars, chunks>>
  \/ /\ \/ Procedures("main") \/ StopListening \/ StopFails \/ Await \/ Stopped
        \/ WriteLast \/ ResultFails \/ ResultEnd \/ Uninit
     /\ UNCHANGED chunks

Rec ==
  \/ (Top \/ Nap \/ Read) /\ UNCHANGED <<srVars, chunks>>
  \/ (Procedures("rec") \/ Data \/ DataFails) /\ UNCHANGED chunks

(* The engine has a complete result some time, and a cancelled thread ends at *)
(* the next place where it may.                                               *)
Engine == (Result \/ (\E t \in Threads : VadResult(t))) /\ UNCHANGED chunks
Kernel == Cancelled /\ UNCHANGED <<srVars, chunks>>

MicNext == Main \/ Rec \/ Engine \/ Kernel

MicSpec ==
  /\ MicInit /\ [][MicNext]_micVars
  /\ WF_micVars(Main) /\ WF_micVars(Rec) /\ WF_micVars(Engine) /\ WF_micVars(Kernel)
------------------------------------------------------------------------------
DemoPlaces(t) ==
  IF t = "main" THEN StartPlaces \cup ClosePlaces
                     \cup {"init", "listen", "feed", "exit", "uninit", "uninit2", "done", "crashed"}
                ELSE RecPlaces
Places == UNION {DemoPlaces("main"), DemoPlaces("rec"), StopPlaces, ListenPlaces,
                 WritePlaces, ErrorPlaces, EndPlaces}

MicTypeOK ==
  /\ pc \in [Threads -> Places]
  /\ stack \in [Threads -> Seq([ok : Places, err : Places])]
  /\ RecorderTypeOK /\ SrTypeOK
  /\ chunks \in Nat

(* Nothing of the recorder is released while its thread is there to use it.   *)
NoUseAfterFree == heap = "freed" => pc["rec"] = "dead"

(* Whoever ends it, in whatever order the two threads get there, a session    *)
(* that was begun is ended when the demo returns; only a device that does not *)
(* stop makes the program leave one.                                          *)
SessionsEnded == pc["main"] = "done" /\ session = "open" => dropFailed

(* The engine is told that the audio is over only when the device has stopped. *)
LastAfterStop == pc["main"] = "last" => IsStopped

(* Both demos return, or crash: no thread waits for ever for the other one.   *)
DemoReturns == <>(pc["main"] \in {"done", "crashed"} \/ dropFailed)
=============================================================================
