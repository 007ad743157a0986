----------------------------- MODULE Recorder ------------------------------
(* The recorder of the microphone sample (linuxrec.c) on an ALSA device:      *)
(* operations that the program's threads call, and the loop of the thread the *)
(* recorder creates.  A thread's place is pc[t]; a procedure returns to the   *)
(* frame its caller pushed, one label for success and one for an error.       *)
EXTENDS Integers, Sequences

Threads == {"main", "rec"}

VARIABLES
  pc, stack,  \* for each thread, its place and the frames of its calls
  rstate,     \* rec->state
  pcm,        \* state of the device: "closed", "prepared", "running" or "setup"
  heap,       \* the recorder, its handle and its buffer: "none", "made" (no handle), "open", "freed"
  cancelled,  \* pthread_cancel has been called for the recorder's thread
  dropFailed  \* history: snd_pcm_drop has returned an error

recorderVars == <<rstate, pcm, heap, cancelled, dropFailed>>

(* The places of stop_record, of close_recorder and of record_thread_proc.    *)
StopPlaces == {"stop", "stopping", "drop", "dropped"}
ClosePlaces == {"close", "closing", "join"}
RecPlaces == {"none", "top", "nap", "read", "data", "dataFails", "dead"}

RecorderTypeOK ==
  /\ rstate \in {"created", "closing", "ready", "stopping", "recording"}
  /\ pcm \in {"closed", "prepared", "running", "setup"}
  /\ heap \in {"none", "made", "open", "freed"}
  /\ cancelled \in BOOLEAN /\ dropFailed \in BOOLEAN

RecorderInit ==
  /\ rstate = "created" /\ pcm = "closed" /\ heap = "none"
  /\ cancelled = FALSE /\ dropFailed = FALSE

------------------------------------------------------------------------------
(* Control. *)

At(t, l) == pc[t] = l
Goto(t, l) == pc' = [pc EXCEPT ![t] = l] /\ UNCHANGED stack
Call(t, l, onOk, onErr) == /\ pc' = [pc EXCEPT ![t] = l]
                           /\ stack' = [stack EXCEPT ![t] = <<[ok |-> onOk, err |-> onErr]>> \o @]
Pop(t, l) == /\ pc' = [pc EXCEPT ![t] = l]
             /\ stack' = [stack EXCEPT ![t] = Tail(@)]
Return(t) == Pop(t, Head(stack[t]).ok)
Fails(t)  == Pop(t, Head(stack[t]).err)
Die(t) == pc' = [pc EXCEPT ![t] = "dead"] /\ stack' = [stack EXCEPT ![t] = <<>>]

------------------------------------------------------------------------------
(* stop_record.  Both threads call it, and both may find the recorder          *)
(* recording.                                                                 *)

StopTest(t) ==
  /\ At(t, "stop")
  /\ IF rstate = "recording" THEN Goto(t, "stopping") ELSE Return(t)
  /\ UNCHANGED recorderVars

StopStore(t) ==
  /\ At(t, "stopping") /\ Goto(t, "drop")
  /\ rstate' = "stopping"
  /\ UNCHANGED <<pcm, heap, cancelled, dropFailed>>

StopDrop(t) ==
  /\ At(t, "drop")
  /\ \/ pcm' = "setup" /\ Goto(t, "dropped") /\ UNCHANGED dropFailed
     \/ dropFailed' = TRUE /\ Fails(t) /\ UNCHANGED pcm
  /\ UNCHANGED <<rstate, heap, cancelled>>

StopReady(t) ==
  /\ At(t, "dropped") /\ Return(t)
  /\ rstate' = "ready"
  /\ UNCHANGED <<pcm, heap, cancelled, dropFailed>>

IsStopped == rstate # "recording" /\ pcm # "running"

------------------------------------------------------------------------------
(* open_recorder: device, buffer and thread.  It returns 0 when any of them   *)
(* fails, too.                                                                *)
OpenRecorder(next) ==
  /\ \/ /\ rstate' = "ready" /\ pcm' = "prepared" /\ heap' = "open"
        /\ pc' = [main |-> next, rec |-> "top"]
     \/ /\ heap' = "made"
        /\ pc' = [pc EXCEPT !["main"] = next]
        /\ UNCHANGED <<rstate, pcm>>
  /\ UNCHANGED <<stack, cancelled, dropFailed>>

(* start_record is refused when the recorder is not open, or by the device.   *)
StartFails(next) ==
  /\ Goto("main", next)
  /\ UNCHANGED recorderVars

StartDevice(next) ==
  /\ rstate = "ready"
  /\ pcm' = "running"
  /\ Goto("main", next)
  /\ UNCHANGED <<rstate, heap, cancelled, dropFailed>>

StartStore(next) ==
  /\ rstate' = "recording"
  /\ Goto("main", next)
  /\ UNCHANGED <<pcm, heap, cancelled, dropFailed>>

(* close_recorder: a recorder that is still recording is stopped first.       *)
Close ==
  /\ At("main", "close")
  /\ IF rstate = "recording" THEN Call("main", "stop", "closing", "closing")
                             ELSE Goto("main", "closing")
  /\ UNCHANGED recorderVars

(* Faulty: the thread is told to end by its state only. *)
CancelNot ==
  /\ At("main", "closing")
  /\ rstate' = "closing"
  /\ Goto("main", "join")
  /\ UNCHANGED <<pcm, heap, cancelled, dropFailed>>

Cancel ==
  /\ At("main", "closing")
  /\ rstate' = "closing" /\ cancelled' = TRUE
  /\ Goto("main", "join")
  /\ UNCHANGED <<pcm, heap, dropFailed>>

(* Faulty: the thread is cancelled, but nobody waits for it. *)
FreeUnjoined ==
  /\ At("main", "join")
  /\ heap' = "freed" /\ pcm' = "closed" /\ rstate' = "created"
  /\ Goto("main", "uninit2")
  /\ UNCHANGED <<cancelled, dropFailed>>

(* pthread_join; then the device, the buffer and the recorder are released.   *)
JoinAndFree ==
  /\ At("main", "join") /\ pc["rec"] = "dead"
  /\ heap' = "freed" /\ pcm' = "closed" /\ rstate' = "created"
  /\ Goto("main", "uninit2")
  /\ UNCHANGED <<cancelled, dropFailed>>

------------------------------------------------------------------------------
(* record_thread_proc. *)

Top ==
  /\ At("rec", "top")
  /\ IF rstate = "closing" THEN Die("rec")
     ELSE Goto("rec", IF rstate = "recording" THEN "read" ELSE "nap")
  /\ UNCHANGED recorderVars

Nap == At("rec", "nap") /\ Goto("rec", "read") /\ UNCHANGED recorderVars

(* pcm_read: a period of data; or an error that nothing recovers, which a     *)
(* device that was dropped always reports; or an overrun, after which the     *)
(* device is prepared but not started again.  Otherwise it waits.             *)
Read ==
  /\ At("rec", "read")
  /\ \/ pcm = "running" /\ Goto("rec", "data") /\ UNCHANGED pcm
     \/ pcm \in {"running", "setup"} /\ Die("rec") /\ UNCHANGED pcm
     \/ pcm = "running" /\ pcm' = "prepared" /\ UNCHANGED <<pc, stack>>
  /\ UNCHANGED <<rstate, heap, cancelled, dropFailed>>

(* Where the thread sleeps or waits a cancellation ends it. *)
Cancelled ==
  /\ cancelled /\ pc["rec"] \in {"nap", "read", "vadLoop"}
  /\ Die("rec")
  /\ UNCHANGED recorderVars
=============================================================================
