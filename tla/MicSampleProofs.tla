-------------------------- MODULE MicSampleProofs --------------------------
(* Proofs about the microphone sample, for a file of any number of parts and  *)
(* every interleaving of the two threads.                                     *)
EXTENDS MicSample, SequenceTheorems, TLAPS

Frame == [ok : Places, err : Places]
Push(o, e, s) == <<[ok |-> o, err |-> e]>> \o s

(* The stacks each procedure may run on: what called it, and what called that. *)
Listens(t) == IF t = "main" THEN {Push("uninit", "uninit", <<>>), Push("exit", "exit", <<>>)}
                            ELSE {}
Writes(t) == IF t = "main" THEN {Push("feed", "exit", <<>>)}
                           ELSE {Push("top", "dataFails", <<>>)}
Errors(t) == {Push("writeFails", "writeFails", s) : s \in Writes(t)}
             \cup {Push("stopFails", "stopFails", s) : s \in Listens(t)}
             \cup (IF t = "main" THEN {} ELSE {Push("top", "top", <<>>)})
ErrorStops(t) == {Push("errorEnd", "errorEnd", s) : s \in Errors(t)}
CloseStops == {Push("close", "close", <<>>), Push("closing", "closing", <<>>)}
Stops(t) == ErrorStops(t)
            \cup {Push("vadReset", "vadReset", s) : s \in Writes(t)}
            \cup {Push("await", "stopFails", s) : s \in Listens(t)}
            \cup (IF t = "main" THEN CloseStops ELSE {})

CtlAt(t, l, s) ==
  \/ l \in DemoPlaces(t) /\ s = <<>>
  \/ l \in ListenPlaces /\ s \in Listens(t)
  \/ l \in WritePlaces \cup EndPlaces /\ s \in Writes(t)
  \/ l \in ErrorPlaces \cup EndPlaces /\ s \in Errors(t)
  \/ l \in StopPlaces /\ s \in Stops(t)

ControlInv == \A t \in Threads : CtlAt(t, pc[t], stack[t])

(* A file is fed without a recorder. *)
UserInv ==
  src = "user" =>
    /\ pc["rec"] \in {"none", "dead"}
    /\ heap = "none" /\ rstate = "created" /\ pcm = "closed"
    /\ pc["main"] \notin StopPlaces \cup {"record", "recording", "await", "close",
                                          "closing", "join"}

(* Before the device is started there is no data, so the recorder's thread is *)
(* in none of the procedures that end a session.                              *)
QuietInv ==
  /\ pc["main"] \in {"init", "begin", "record"} =>
       /\ pc["rec"] \in {"none", "top", "nap", "read", "dead"}
       /\ pcm \in {"closed", "prepared"} /\ rstate \in {"created", "ready"}
  /\ pc["main"] \in {"init", "begin"} => session = "none"

FreedInv == heap = "freed" => pc["rec"] = "dead" /\ pc["main"] \in {"uninit2", "done"}

(* Nobody starts the device again once it has stopped. *)
StoppedInv == pc["main"] \in {"stopped", "last"} => IsStopped

(* Where the main thread has no more business with the session. *)
Over == \/ pc["main"] \in {"exit", "uninit", "close", "closing", "join", "uninit2",
                           "done", "stopFails", "writeFails"}
        \/ pc["main"] \in StopPlaces /\ stack["main"] \in CloseStops

(* Where the main thread is about to say that it has started, or has said     *)
(* already that it has stopped, and ends the session itself.                  *)
Owned == \/ pc["main"] \in {"record", "recording", "started", "last", "result",
                            "error", "errorEnd", "crashed"}
         \/ pc["main"] \in StopPlaces /\ stack["main"] \in ErrorStops("main")

SessionInv ==
  /\ session = "open" => id
  /\ Over => session # "open" \/ dropFailed
  /\ session = "open" /\ ~started => Owned
  /\ \A t \in Threads : pc[t] = "errorInit" => session # "open"

MicInv == /\ MicTypeOK /\ ControlInv
          /\ UserInv /\ QuietInv /\ FreedInv /\ StoppedInv /\ SessionInv

------------------------------------------------------------------------------
(* Calls and returns. *)

Moved(t, l, s) ==
  /\ pc' \in [Threads -> Places] /\ stack' \in [Threads -> Seq(Frame)]
  /\ pc'[t] = l /\ stack'[t] = s
  /\ \A u \in Threads \ {t} : pc'[u] = pc[u] /\ stack'[u] = stack[u]

Typed == pc \in [Threads -> Places] /\ stack \in [Threads -> Seq(Frame)]

LEMMA PushPop ==
  ASSUME NEW s \in Seq(Frame), NEW o \in Places, NEW e \in Places
  PROVE  /\ Push(o, e, s) \in Seq(Frame)
         /\ Head(Push(o, e, s)) = [ok |-> o, err |-> e]
         /\ Tail(Push(o, e, s)) = s
<1> DEFINE f == [ok |-> o, err |-> e]
<1>1. f \in Frame
  BY DEF Frame
<1> HIDE DEF f
<1>2. <<f>> \in Seq(Frame) /\ Len(<<f>>) = 1 /\ <<f>>[1] = f /\ <<f>> # <<>>
  BY <1>1
<1>3. /\ <<f>> \o s \in Seq(Frame) /\ Len(<<f>> \o s) = 1 + Len(s)
      /\ \A i \in 1 .. 1 + Len(s) :
           (<<f>> \o s)[i] = IF i <= 1 THEN <<f>>[i] ELSE s[i - 1]
  BY <1>2, ConcatProperties
<1>4. Len(s) \in Nat
  BY LenProperties
<1>5. <<f>> \o s # <<>> /\ Head(<<f>> \o s) = f
  BY <1>2, <1>3, <1>4, EmptySeq, HeadTailProperties
<1>6. Tail(<<f>> \o s) = s
  <2> DEFINE r == Tail(<<f>> \o s)
  <2>1. r \in Seq(Frame) /\ Len(r) = Len(s) /\ \A i \in 1 .. Len(r) : r[i] = (<<f>> \o s)[i + 1]
    BY <1>3, <1>4, <1>5, HeadTailProperties
  <2>2. \A i \in 1 .. Len(s) : r[i] = s[i]
    <3> SUFFICES ASSUME NEW i \in 1 .. Len(s) PROVE r[i] = s[i]
      OBVIOUS
    <3>1. i + 1 \in 1 .. 1 + Len(s) /\ ~(i + 1 <= 1) /\ (i + 1) - 1 = i
      BY <1>4
    <3> QED
      BY <1>3, <2>1, <3>1
  <2> QED
    BY <2>1, <2>2, SeqEqual
<1> QED
  BY <1>3, <1>5, <1>6 DEF Push, f

LEMMA PushSeq ==
  \A s \in Seq(Frame) : \A o, e \in Places : Push(o, e, s) \in Seq(Frame)
BY PushPop

LEMMA PlacesListed ==
  /\ \A t \in Threads : DemoPlaces(t) \subseteq Places
  /\ StopPlaces \subseteq Places /\ ListenPlaces \subseteq Places
  /\ WritePlaces \subseteq Places /\ ErrorPlaces \subseteq Places
  /\ EndPlaces \subseteq Places
BY DEF Places, DemoPlaces, Threads

LEMMA GotoMoves ==
  ASSUME Typed, NEW t \in Threads, NEW l \in Places, Goto(t, l)
  PROVE  Moved(t, l, stack[t])
BY DEF Typed, Goto, Moved

LEMMA CallMoves ==
  ASSUME Typed, NEW t \in Threads, NEW l \in Places, NEW o \in Places, NEW e \in Places,
         Call(t, l, o, e)
  PROVE  Moved(t, l, Push(o, e, stack[t]))
<1>1. stack[t] \in Seq(Frame)
  BY DEF Typed
<1>2. Push(o, e, stack[t]) \in Seq(Frame)
  BY <1>1, PushPop
<1>3. stack' = [stack EXCEPT ![t] = Push(o, e, stack[t])]
  BY DEF Call, Push
<1> QED
  BY <1>2, <1>3 DEF Typed, Call, Moved

LEMMA PopMoves ==
  ASSUME Typed, NEW t \in Threads, NEW s \in Seq(Frame), NEW o \in Places, NEW e \in Places,
         stack[t] = Push(o, e, s)
  PROVE  /\ Return(t) => Moved(t, o, s)
         /\ Fails(t) => Moved(t, e, s)
<1>1. Head(Push(o, e, s)) = [ok |-> o, err |-> e] /\ Tail(Push(o, e, s)) = s
  BY PushPop
<1>2. Head(stack[t]).ok = o /\ Head(stack[t]).err = e /\ Tail(stack[t]) = s
  BY <1>1
<1> QED
  BY <1>2 DEF Typed, Return, Fails, Pop, Moved
------------------------------------------------------------------------------
(* Which procedure a thread is in, by its place. *)

LEMMA Empty == <<>> \in Seq(Frame)
BY EmptySeq

LEMMA Where ==
  ASSUME NEW t \in Threads, NEW l, NEW s, CtlAt(t, l, s)
  PROVE  /\ l \in DemoPlaces(t) => s = <<>>
         /\ l \in ListenPlaces => s \in Listens(t)
         /\ l \in WritePlaces => s \in Writes(t)
         /\ l \in ErrorPlaces => s \in Errors(t)
         /\ l \in EndPlaces => s \in Writes(t) \cup Errors(t)
         /\ l \in StopPlaces => s \in Stops(t)
BY DEF CtlAt, DemoPlaces, StartPlaces, ClosePlaces, RecPlaces, ListenPlaces, WritePlaces,
       ErrorPlaces, EndPlaces, StopPlaces

LEMMA PlaceOf ==
  ASSUME NEW t \in Threads, NEW l, NEW s, CtlAt(t, l, s)
  PROVE  l \in Places
BY PlacesListed DEF CtlAt

LEMMA ControlMoves ==
  ASSUME ControlInv, NEW t \in Threads, NEW l, NEW s, Moved(t, l, s), CtlAt(t, l, s)
  PROVE  ControlInv'
BY DEF ControlInv, Moved

(* What a procedure returns to. *)

LEMMA ListensPop ==
  ASSUME NEW t \in Threads, NEW s \in Listens(t)
  PROVE  /\ t = "main" /\ s \in Seq(Frame)
         /\ \E o \in {"uninit", "exit"} : s = Push(o, o, <<>>) /\ CtlAt(t, o, <<>>)
<1>1. t = "main"
  BY DEF Listens
<1>2. PICK o \in {"uninit", "exit"} : s = Push(o, o, <<>>)
  BY <1>1 DEF Listens
<1>3. CtlAt(t, o, <<>>)
  BY <1>1 DEF CtlAt, DemoPlaces
<1>4. s \in Seq(Frame)
  BY <1>2, <1>3, PlaceOf, Empty, PushSeq
<1> QED
  BY <1>1, <1>2, <1>3, <1>4

LEMMA WritesPop ==
  ASSUME NEW t \in Threads, NEW s \in Writes(t)
  PROVE  /\ s \in Seq(Frame)
         /\ \/ t = "main" /\ s = Push("feed", "exit", <<>>)
            \/ t = "rec" /\ s = Push("top", "dataFails", <<>>)
<1>1. \/ t = "main" /\ s = Push("feed", "exit", <<>>)
      \/ t = "rec" /\ s = Push("top", "dataFails", <<>>)
  BY DEF Writes, Threads
<1>2. {"feed", "exit", "top", "dataFails"} \subseteq Places
  BY DEF Places, DemoPlaces, RecPlaces
<1>3. s \in Seq(Frame)
  BY <1>1, <1>2, Empty, PushSeq
<1> QED
  BY <1>1, <1>3

LEMMA ErrorsPop ==
  ASSUME NEW t \in Threads, NEW s \in Errors(t)
  PROVE  /\ s \in Seq(Frame)
         /\ \E o \in {"writeFails", "stopFails", "top"} : \E r \in Seq(Frame) :
              /\ s = Push(o, o, r) /\ CtlAt(t, o, r)
              /\ o = "top" => t = "rec"
<1>1. CASE \E r \in Writes(t) : s = Push("writeFails", "writeFails", r)
  <2>1. PICK r \in Writes(t) : s = Push("writeFails", "writeFails", r)
    BY <1>1
  <2>2. r \in Seq(Frame) /\ CtlAt(t, "writeFails", r)
    BY WritesPop DEF CtlAt, WritePlaces
  <2> QED
    BY <2>1, <2>2, PlaceOf, PushSeq
<1>2. CASE \E r \in Listens(t) : s = Push("stopFails", "stopFails", r)
  <2>1. PICK r \in Listens(t) : s = Push("stopFails", "stopFails", r)
    BY <1>2
  <2>2. r \in Seq(Frame) /\ CtlAt(t, "stopFails", r)
    BY ListensPop DEF CtlAt, ListenPlaces
  <2> QED
    BY <2>1, <2>2, PlaceOf, PushSeq
<1>3. CASE t = "rec" /\ s = Push("top", "top", <<>>)
  <2>1. CtlAt(t, "top", <<>>)
    BY <1>3 DEF CtlAt, DemoPlaces, StartPlaces, ClosePlaces, RecPlaces
  <2> QED
    BY <1>3, <2>1, Empty, PlaceOf, PushSeq
<1> QED
  BY <1>1, <1>2, <1>3 DEF Errors, Threads

LEMMA NotClosing ==
  ASSUME NEW s \in Seq(Frame), NEW o \in Places, NEW e \in Places, o \notin {"close", "closing"}
  PROVE  Push(o, e, s) \notin CloseStops
<1> SUFFICES ASSUME NEW c \in {"close", "closing"}, Push(o, e, s) = Push(c, c, <<>>)
             PROVE  FALSE
  BY DEF CloseStops
<1>1. c \in Places
  BY DEF Places, DemoPlaces, ClosePlaces
<1>2. Head(Push(o, e, s)) = [ok |-> o, err |-> e]
  BY PushPop
<1>3. Head(Push(c, c, <<>>)) = [ok |-> c, err |-> c]
  BY <1>1, Empty, PushPop
<1>4. [ok |-> o, err |-> e].ok = [ok |-> c, err |-> c].ok
  BY <1>2, <1>3
<1> QED
  BY <1>4

LEMMA NotErrorStop ==
  ASSUME NEW t \in Threads, NEW s \in Seq(Frame), NEW o \in Places, NEW e \in Places,
         o # "errorEnd"
  PROVE  Push(o, e, s) \notin ErrorStops(t)
<1> SUFFICES ASSUME NEW r \in Errors(t), Push(o, e, s) = Push("errorEnd", "errorEnd", r)
             PROVE  FALSE
  BY DEF ErrorStops
<1>1. "errorEnd" \in Places /\ r \in Seq(Frame)
  BY PlacesListed, ErrorsPop DEF ErrorPlaces
<1>2. Head(Push(o, e, s)) = [ok |-> o, err |-> e]
  BY PushPop
<1>3. Head(Push("errorEnd", "errorEnd", r)) = [ok |-> "errorEnd", err |-> "errorEnd"]
  BY <1>1, PushPop
<1>4. [ok |-> o, err |-> e].ok = [ok |-> "errorEnd", err |-> "errorEnd"].ok
  BY <1>2, <1>3
<1> QED
  BY <1>4

LEMMA StopsPop ==
  ASSUME NEW t \in Threads, NEW s \in Stops(t)
  PROVE  /\ s \in Seq(Frame)
         /\ \E o, e \in Places : \E r \in Seq(Frame) :
              /\ s = Push(o, e, r) /\ CtlAt(t, o, r) /\ CtlAt(t, e, r)
              /\ o # "errorEnd" => s \notin ErrorStops(t)
              /\ \/ o = "errorEnd" /\ e = "errorEnd" /\ s \in ErrorStops(t)
                 \/ o = "vadReset" /\ e = "vadReset"
                 \/ o = "await" /\ e = "stopFails" /\ t = "main"
                 \/ o = e /\ o \in {"close", "closing"} /\ t = "main" /\ s \in CloseStops
<1>1. CASE \E r \in Errors(t) : s = Push("errorEnd", "errorEnd", r)
  <2>1. PICK r \in Errors(t) : s = Push("errorEnd", "errorEnd", r)
    BY <1>1
  <2>2. r \in Seq(Frame) /\ CtlAt(t, "errorEnd", r) /\ s \in ErrorStops(t)
    BY <2>1, ErrorsPop DEF CtlAt, ErrorPlaces, ErrorStops
  <2> QED
    BY <2>1, <2>2, PlaceOf, PushSeq, NotErrorStop
<1>2. CASE \E r \in Writes(t) : s = Push("vadReset", "vadReset", r)
  <2>1. PICK r \in Writes(t) : s = Push("vadReset", "vadReset", r)
    BY <1>2
  <2>2. r \in Seq(Frame) /\ CtlAt(t, "vadReset", r)
    BY WritesPop DEF CtlAt, WritePlaces
  <2> QED
    BY <2>1, <2>2, PlaceOf, PushSeq, NotErrorStop
<1>3. CASE \E r \in Listens(t) : s = Push("await", "stopFails", r)
  <2>1. PICK r \in Listens(t) : s = Push("await", "stopFails", r)
    BY <1>3
  <2>2. t = "main" /\ r \in Seq(Frame) /\ CtlAt(t, "await", r) /\ CtlAt(t, "stopFails", r)
    BY ListensPop DEF CtlAt, ListenPlaces
  <2> QED
    BY <2>1, <2>2, PlaceOf, PushSeq, NotErrorStop
<1>4. CASE t = "main" /\ s \in CloseStops
  <2>1. PICK o \in {"close", "closing"} : s = Push(o, o, <<>>)
    BY <1>4 DEF CloseStops
  <2>2. CtlAt(t, o, <<>>)
    BY <1>4 DEF CtlAt, DemoPlaces, StartPlaces, ClosePlaces, RecPlaces
  <2> QED
    BY <1>4, <2>1, <2>2, Empty, PlaceOf, PushSeq, NotErrorStop
<1> QED
  BY <1>1, <1>2, <1>3, <1>4 DEF Stops, ErrorStops

------------------------------------------------------------------------------
(* One step of a thread.  What it does to the two threads' places is given by *)
(* Moved, so that what remains is a fact about the other variables.           *)

DataInv == UserInv /\ QuietInv /\ FreedInv /\ StoppedInv /\ SessionInv

LEMMA MicTyped == ASSUME MicInv PROVE Typed
BY DEF MicInv, MicTypeOK, Typed, Frame

LEMMA StepKeeps ==
  ASSUME MicInv, NEW t \in Threads, NEW l, NEW s, Moved(t, l, s), CtlAt(t, l, s),
         RecorderTypeOK', SrTypeOK', chunks' \in Nat, DataInv'
  PROVE  MicInv'
<1>1. ControlInv'
  BY ControlMoves DEF MicInv
<1>2. MicTypeOK'
  BY DEF Moved, MicTypeOK, Frame
<1> QED
  BY <1>1, <1>2 DEF MicInv, DataInv

LEMMA MainThread == "main" \in Threads
BY DEF Threads

(* A thread goes on within its procedure, or calls another one. *)
LEMMA GoWithin ==
  ASSUME MicInv, NEW t \in Threads, NEW l, Goto(t, l),
         \/ pc[t] \in DemoPlaces(t) /\ l \in DemoPlaces(t)
         \/ pc[t] \in ListenPlaces /\ l \in ListenPlaces
         \/ pc[t] \in WritePlaces /\ l \in WritePlaces \cup EndPlaces
         \/ pc[t] \in ErrorPlaces /\ l \in ErrorPlaces \cup EndPlaces
         \/ pc[t] \in StopPlaces /\ l \in StopPlaces
  PROVE  Moved(t, l, stack[t]) /\ CtlAt(t, l, stack[t])
<1>1. CtlAt(t, pc[t], stack[t])
  BY DEF MicInv, ControlInv
<1>2. CtlAt(t, l, stack[t])
  BY <1>1, Where DEF CtlAt
<1> QED
  BY <1>2, PlaceOf, MicTyped, GotoMoves

LEMMA CallInto ==
  ASSUME MicInv, NEW t \in Threads, NEW l, NEW o \in Places, NEW e \in Places,
         Call(t, l, o, e), CtlAt(t, l, Push(o, e, stack[t]))
  PROVE  Moved(t, l, Push(o, e, stack[t]))
BY PlaceOf, MicTyped, CallMoves

(* Where a thread is, and so what it runs on. *)
LEMMA StackOf ==
  ASSUME MicInv, NEW t \in Threads
  PROVE  /\ Typed /\ stack[t] \in Seq(Frame)
         /\ pc[t] \in DemoPlaces(t) => stack[t] = <<>>
         /\ pc[t] \in ListenPlaces => stack[t] \in Listens(t)
         /\ pc[t] \in WritePlaces => stack[t] \in Writes(t)
         /\ pc[t] \in ErrorPlaces => stack[t] \in Errors(t)
         /\ pc[t] \in EndPlaces => stack[t] \in Writes(t) \cup Errors(t)
         /\ pc[t] \in StopPlaces => stack[t] \in Stops(t)
BY MicTyped, Where DEF MicInv, ControlInv, Typed

(* A procedure returns: stop_record to its four callers, ... *)
LEMMA StopReturns ==
  ASSUME MicInv, NEW t \in Threads, pc[t] \in StopPlaces
  PROVE  \E o, e \in Places : \E r \in Seq(Frame) :
           /\ CtlAt(t, o, r) /\ CtlAt(t, e, r)
           /\ Return(t) => Moved(t, o, r)
           /\ Fails(t) => Moved(t, e, r)
           /\ o # "errorEnd" => stack[t] \notin ErrorStops(t)
           /\ \/ o = "errorEnd" /\ e = "errorEnd" /\ stack[t] \in ErrorStops(t)
              \/ o = "vadReset" /\ e = "vadReset"
              \/ o = "await" /\ e = "stopFails" /\ t = "main"
              \/ o = e /\ o \in {"close", "closing"} /\ t = "main" /\ stack[t] \in CloseStops
<1>1. stack[t] \in Stops(t) /\ Typed
  BY StackOf
<1>2. PICK o, e \in Places : \E r \in Seq(Frame) :
         /\ stack[t] = Push(o, e, r) /\ CtlAt(t, o, r) /\ CtlAt(t, e, r)
         /\ o # "errorEnd" => stack[t] \notin ErrorStops(t)
         /\ \/ o = "errorEnd" /\ e = "errorEnd" /\ stack[t] \in ErrorStops(t)
            \/ o = "vadReset" /\ e = "vadReset"
            \/ o = "await" /\ e = "stopFails" /\ t = "main"
            \/ o = e /\ o \in {"close", "closing"} /\ t = "main" /\ stack[t] \in CloseStops
  BY <1>1, StopsPop
<1>3. PICK r \in Seq(Frame) : stack[t] = Push(o, e, r) /\ CtlAt(t, o, r) /\ CtlAt(t, e, r)
  BY <1>2
<1>4. (Return(t) => Moved(t, o, r)) /\ (Fails(t) => Moved(t, e, r))
  BY <1>1, <1>3, PopMoves
<1> QED
  BY <1>2, <1>3, <1>4

(* ... sr_write_audio_data to whoever has the data, ... *)
LEMMA WriteReturns ==
  ASSUME MicInv, NEW t \in Threads, stack[t] \in Writes(t)
  PROVE  /\ Return(t) => \E o \in Places : /\ CtlAt(t, o, <<>>) /\ Moved(t, o, <<>>)
                                           /\ \/ o = "feed" /\ t = "main"
                                              \/ o = "top" /\ t = "rec"
         /\ Fails(t) => \E e \in Places : /\ CtlAt(t, e, <<>>) /\ Moved(t, e, <<>>)
                                          /\ \/ e = "exit" /\ t = "main"
                                             \/ e = "dataFails" /\ t = "rec"
<1>1. Typed /\ {"feed", "exit", "top", "dataFails"} \subseteq Places
  BY StackOf DEF Places, DemoPlaces, RecPlaces
<1>2. CASE t = "main" /\ stack[t] = Push("feed", "exit", <<>>)
  <2>1. CtlAt(t, "feed", <<>>) /\ CtlAt(t, "exit", <<>>)
    BY <1>2 DEF CtlAt, DemoPlaces
  <2> QED
    BY <1>1, <1>2, <2>1, Empty, PopMoves
<1>3. CASE t = "rec" /\ stack[t] = Push("top", "dataFails", <<>>)
  <2>1. CtlAt(t, "top", <<>>) /\ CtlAt(t, "dataFails", <<>>)
    BY <1>3 DEF CtlAt, DemoPlaces, RecPlaces
  <2> QED
    BY <1>1, <1>3, <2>1, Empty, PopMoves
<1> QED
  BY <1>2, <1>3, WritesPop

(* ... the two that end a session, ... *)
LEMMA EndReturns ==
  ASSUME MicInv, NEW t \in Threads, pc[t] \in EndPlaces, Return(t)
  PROVE  \E o \in Places : \E r :
           /\ CtlAt(t, o, r) /\ Moved(t, o, r)
           /\ \/ o = "feed" /\ t = "main"
              \/ o = "top" /\ t = "rec"
              \/ o \in {"writeFails", "stopFails"}
<1>1. stack[t] \in Writes(t) \cup Errors(t) /\ Typed
  BY StackOf
<1>2. CASE stack[t] \in Writes(t)
  BY <1>1, <1>2, WriteReturns
<1>3. CASE stack[t] \in Errors(t)
  <2>1. PICK o \in {"writeFails", "stopFails", "top"} : \E r \in Seq(Frame) :
              /\ stack[t] = Push(o, o, r) /\ CtlAt(t, o, r)
              /\ o = "top" => t = "rec"
    BY <1>3, ErrorsPop
  <2>2. PICK r \in Seq(Frame) : stack[t] = Push(o, o, r) /\ CtlAt(t, o, r)
    BY <2>1
  <2>3. o \in Places
    BY <2>2, PlaceOf
  <2>4. Moved(t, o, r)
    BY <1>1, <2>2, <2>3, PopMoves
  <2> QED
    BY <2>1, <2>2, <2>3, <2>4
<1> QED
  BY <1>1, <1>2, <1>3

(* ... and sr_stop_listening to the demos. *)
LEMMA ListenReturns ==
  ASSUME MicInv, pc["main"] \in ListenPlaces, Return("main") \/ Fails("main")
  PROVE  \E o \in {"uninit", "exit"} :
           CtlAt("main", o, <<>>) /\ Moved("main", o, <<>>)
<1>1. stack["main"] \in Listens("main") /\ Typed /\ "main" \in Threads
  BY StackOf DEF Threads
<1>2. PICK o \in {"uninit", "exit"} : stack["main"] = Push(o, o, <<>>) /\ CtlAt("main", o, <<>>)
  BY <1>1, ListensPop
<1>3. o \in Places
  BY <1>1, <1>2, PlaceOf
<1> QED
  BY <1>1, <1>2, <1>3, Empty, PopMoves

(* A null buffer ends the program. *)
LEMMA CrashStep ==
  ASSUME MicInv, Crash, heap # "freed",
         UNCHANGED <<recorderVars, src, started, id, session, chunks>>,
         ep_stat' \in EpStats, complete' \in BOOLEAN, begun' \in BOOLEAN
  PROVE  MicInv'
<1>1. /\ \A t \in Threads : stack'[t] = <<>>
      /\ pc'["main"] = "crashed" /\ pc'["rec"] = "dead"
  BY DEF Crash, Threads
<1>2. CtlAt("main", "crashed", <<>>) /\ CtlAt("rec", "dead", <<>>)
  BY DEF CtlAt, DemoPlaces, RecPlaces
<1>3. ControlInv'
  BY <1>1, <1>2 DEF ControlInv, Threads
<1>4. "crashed" \in Places /\ "dead" \in Places
  BY <1>2, PlaceOf DEF Threads
<1>5. pc' \in [Threads -> Places] /\ stack' \in [Threads -> Seq(Frame)]
  BY <1>4, Empty DEF Crash, Threads
<1>6. MicTypeOK'
  <2>1. RecorderTypeOK'
    BY DEF MicInv, MicTypeOK, RecorderTypeOK, recorderVars
  <2>2. SrTypeOK'
    <3>1. src' \in {"mic", "user"} /\ session' \in {"none", "open", "ended"}
      BY DEF MicInv, MicTypeOK, SrTypeOK
    <3>2. started' \in BOOLEAN /\ id' \in BOOLEAN
      BY DEF MicInv, MicTypeOK, SrTypeOK
    <3> QED
      BY <3>1, <3>2 DEF SrTypeOK
  <2>3. chunks' \in Nat
    BY DEF MicInv, MicTypeOK
  <2> QED
    BY <1>5, <2>1, <2>2, <2>3 DEF MicTypeOK, Frame
<1>7. DataInv'
  BY <1>1 DEF MicInv, DataInv, UserInv, QuietInv, FreedInv, StoppedInv, SessionInv,
       Over, Owned, Threads, StopPlaces, recorderVars
<1> QED
  BY <1>3, <1>6, <1>7 DEF MicInv, DataInv

------------------------------------------------------------------------------
(* stop_record. *)

LEMMA StopTestStep ==
  ASSUME MicInv, NEW t \in Threads, StopTest(t), UNCHANGED <<srVars, chunks>>
  PROVE  MicInv'
<1>1. RecorderTypeOK' /\ SrTypeOK' /\ chunks' \in Nat
  BY DEF StopTest, MicInv, MicTypeOK, RecorderTypeOK, SrTypeOK, recorderVars, srVars
<1>2. CASE rstate = "recording"
  <2>1. Moved(t, "stopping", stack[t]) /\ CtlAt(t, "stopping", stack[t])
    BY <1>2, GoWithin DEF StopTest, At, StopPlaces
  <2>2. DataInv'
    BY <1>2, <2>1 DEF StopTest, At, srVars, recorderVars,
         MicInv, DataInv, Moved, Threads, UserInv, QuietInv, FreedInv, StoppedInv, IsStopped,
         SessionInv, Over, Owned, StopPlaces, EndPlaces
  <2> QED
    BY <1>1, <2>1, <2>2, StepKeeps
<1>3. CASE rstate # "recording"
  <2>1. PICK o, e \in Places : \E r :
              /\ CtlAt(t, o, r) /\ Moved(t, o, r)
              /\ o # "errorEnd" => stack[t] \notin ErrorStops(t)
              /\ \/ o = "errorEnd"
                 \/ o = "vadReset"
                 \/ o = "await" /\ t = "main"
                 \/ o \in {"close", "closing"} /\ t = "main" /\ stack[t] \in CloseStops
    BY <1>3, StopReturns DEF StopTest, At, StopPlaces
  <2>2. PICK r : CtlAt(t, o, r) /\ Moved(t, o, r)
    BY <2>1
  <2>3. DataInv'
    BY <1>3, <2>1, <2>2 DEF StopTest, At, srVars, recorderVars,
         MicInv, DataInv, Moved, Threads, UserInv, QuietInv, FreedInv, StoppedInv, IsStopped,
         SessionInv, Over, Owned, StopPlaces, EndPlaces
  <2> QED
    BY <1>1, <2>2, <2>3, StepKeeps
<1> QED
  BY <1>2, <1>3

LEMMA StopStoreStep ==
  ASSUME MicInv, NEW t \in Threads, StopStore(t), UNCHANGED <<srVars, chunks>>
  PROVE  MicInv'
<1>1. Moved(t, "drop", stack[t]) /\ CtlAt(t, "drop", stack[t])
  BY GoWithin DEF StopStore, At, StopPlaces
<1>2. RecorderTypeOK' /\ SrTypeOK' /\ chunks' \in Nat
  BY DEF StopStore, MicInv, MicTypeOK, RecorderTypeOK, SrTypeOK, recorderVars, srVars
<1>3. DataInv'
  BY <1>1 DEF StopStore, At, srVars, recorderVars,
       MicInv, DataInv, Moved, Threads, UserInv, QuietInv, FreedInv, StoppedInv, IsStopped,
       SessionInv, Over, Owned, StopPlaces, EndPlaces
<1> QED
  BY <1>1, <1>2, <1>3, StepKeeps

LEMMA StopDropStep ==
  ASSUME MicInv, NEW t \in Threads, StopDrop(t), UNCHANGED <<srVars, chunks>>
  PROVE  MicInv'
<1>1. SrTypeOK' /\ chunks' \in Nat
  BY DEF MicInv, MicTypeOK, SrTypeOK, srVars
<1>2. PICK o, e \in Places : \E r :
            /\ CtlAt(t, o, r) /\ CtlAt(t, e, r)
            /\ Return(t) => Moved(t, o, r)
            /\ Fails(t) => Moved(t, e, r)
            /\ o # "errorEnd" => stack[t] \notin ErrorStops(t)
            /\ \/ o = "errorEnd" /\ e = "errorEnd"
               \/ o = "vadReset" /\ e = "vadReset"
               \/ o = "await" /\ e = "stopFails" /\ t = "main"
               \/ o = e /\ o \in {"close", "closing"} /\ t = "main" /\ stack[t] \in CloseStops
  BY StopReturns DEF StopDrop, At, StopPlaces
<1>3. PICK r : /\ CtlAt(t, o, r) /\ CtlAt(t, e, r)
               /\ Return(t) => Moved(t, o, r)
               /\ Fails(t) => Moved(t, e, r)
  BY <1>2
<1>4. CASE pcm' = "setup" /\ dropFailed' = dropFailed /\ Goto(t, "dropped")
  <2>1. Moved(t, "dropped", stack[t]) /\ CtlAt(t, "dropped", stack[t])
    BY <1>4, GoWithin DEF StopDrop, At, StopPlaces
  <2>2. RecorderTypeOK'
    BY <1>4 DEF StopDrop, MicInv, MicTypeOK, RecorderTypeOK
  <2>3. DataInv'
    BY <1>4, <2>1 DEF StopDrop, At, srVars,
         MicInv, DataInv, Moved, Threads, UserInv, QuietInv, FreedInv, StoppedInv, IsStopped,
         SessionInv, Over, Owned, StopPlaces, EndPlaces
  <2> QED
    BY <1>1, <2>1, <2>2, <2>3, StepKeeps
<1>5. CASE dropFailed' = TRUE /\ UNCHANGED pcm /\ Fails(t)
  <2>1. RecorderTypeOK'
    BY <1>5 DEF StopDrop, MicInv, MicTypeOK, RecorderTypeOK
  <2>2. DataInv'
    BY <1>2, <1>3, <1>5 DEF StopDrop, At, srVars,
         MicInv, DataInv, Moved, Threads, UserInv, QuietInv, FreedInv, StoppedInv, IsStopped,
         SessionInv, Over, Owned, StopPlaces, EndPlaces
  <2> QED
    BY <1>1, <1>3, <1>5, <2>1, <2>2, StepKeeps
<1> QED
  BY <1>4, <1>5 DEF StopDrop

LEMMA StopReadyStep ==
  ASSUME MicInv, NEW t \in Threads, StopReady(t), UNCHANGED <<srVars, chunks>>
  PROVE  MicInv'
<1>1. SrTypeOK' /\ chunks' \in Nat
  BY DEF MicInv, MicTypeOK, SrTypeOK, srVars
<1>2. PICK o, e \in Places : \E r :
            /\ CtlAt(t, o, r)
            /\ Return(t) => Moved(t, o, r)
            /\ o # "errorEnd" => stack[t] \notin ErrorStops(t)
            /\ \/ o = "errorEnd"
               \/ o = "vadReset"
               \/ o = "await" /\ t = "main"
               \/ o \in {"close", "closing"} /\ t = "main" /\ stack[t] \in CloseStops
  BY StopReturns DEF StopReady, At, StopPlaces
<1>3. PICK r : CtlAt(t, o, r) /\ (Return(t) => Moved(t, o, r))
  BY <1>2
<1>4. RecorderTypeOK'
  BY DEF StopReady, MicInv, MicTypeOK, RecorderTypeOK
<1>5. DataInv'
  BY <1>2, <1>3 DEF StopReady, At, srVars,
       MicInv, DataInv, Moved, Threads, UserInv, QuietInv, FreedInv, StoppedInv, IsStopped,
       SessionInv, Over, Owned, StopPlaces, EndPlaces
<1> QED
  BY <1>1, <1>3, <1>4, <1>5, StepKeeps DEF StopReady

------------------------------------------------------------------------------
(* end_sr_on_error. *)

LEMMA ErrorStopStep ==
  ASSUME MicInv, NEW t \in Threads, ErrorStop(t), UNCHANGED chunks
  PROVE  MicInv'
<1>1. RecorderTypeOK' /\ SrTypeOK' /\ chunks' \in Nat
  BY DEF ErrorStop, MicInv, MicTypeOK, RecorderTypeOK, SrTypeOK, recorderVars, srVars
<1>2. CASE src = "mic"
  <2> DEFINE s == Push("errorEnd", "errorEnd", stack[t])
  <2>1. stack[t] \in Seq(Frame) /\ stack[t] \in Errors(t) /\ "errorEnd" \in Places
    BY StackOf, PlacesListed DEF ErrorStop, At, ErrorPlaces
  <2>2. CtlAt(t, "stop", s) /\ s \in ErrorStops(t) /\ s \notin CloseStops
    BY <2>1, NotClosing DEF CtlAt, Stops, ErrorStops, StopPlaces
  <2>3. Moved(t, "stop", s)
    BY <1>2, <2>1, <2>2, CallInto DEF ErrorStop
  <2> HIDE DEF s
  <2>4. DataInv'
    BY <1>2, <2>2, <2>3 DEF ErrorStop, At, srVars, recorderVars,
         MicInv, DataInv, Moved, Threads, UserInv, QuietInv, FreedInv, StoppedInv, IsStopped,
         SessionInv, Over, Owned, StopPlaces, EndPlaces
  <2> QED
    BY <1>1, <2>2, <2>3, <2>4, StepKeeps
<1>3. CASE src # "mic"
  <2>1. Moved(t, "errorEnd", stack[t]) /\ CtlAt(t, "errorEnd", stack[t])
    BY <1>3, GoWithin DEF ErrorStop, At, ErrorPlaces
  <2>2. DataInv'
    BY <1>3, <2>1 DEF ErrorStop, At, srVars, recorderVars,
         MicInv, DataInv, Moved, Threads, UserInv, QuietInv, FreedInv, StoppedInv, IsStopped,
         SessionInv, Over, Owned, StopPlaces, EndPlaces
  <2> QED
    BY <1>1, <2>1, <2>2, StepKeeps
<1> QED
  BY <1>2, <1>3

LEMMA ErrorEndStep ==
  ASSUME MicInv, NEW t \in Threads, ErrorEnd(t), UNCHANGED chunks
  PROVE  MicInv'
<1>1. Moved(t, "errorInit", stack[t]) /\ CtlAt(t, "errorInit", stack[t])
  BY GoWithin DEF ErrorEnd, At, ErrorPlaces, EndPlaces
<1>2. RecorderTypeOK' /\ SrTypeOK' /\ chunks' \in Nat
  <2>1. RecorderTypeOK' /\ chunks' \in Nat
    BY DEF ErrorEnd, MicInv, MicTypeOK, RecorderTypeOK, recorderVars
  <2>2. src' \in {"mic", "user"} /\ session' \in {"none", "open", "ended"}
    BY DEF ErrorEnd, MicInv, MicTypeOK, SrTypeOK, EndSession
  <2>3. started' \in BOOLEAN /\ id' \in BOOLEAN /\ begun' \in BOOLEAN
    BY DEF ErrorEnd, MicInv, MicTypeOK, SrTypeOK
  <2>4. ep_stat' \in EpStats /\ complete' \in BOOLEAN
    BY DEF ErrorEnd, MicInv, MicTypeOK, SrTypeOK
  <2> QED
    BY <2>1, <2>2, <2>3, <2>4 DEF SrTypeOK
<1>3. DataInv'
  BY <1>1 DEF ErrorEnd, At, recorderVars, EndSession,
       MicInv, DataInv, Moved, Threads, UserInv, QuietInv, FreedInv, StoppedInv, IsStopped,
       SessionInv, Over, Owned, StopPlaces, EndPlaces
<1> QED
  BY <1>1, <1>2, <1>3, StepKeeps

LEMMA ErrorInitStep ==
  ASSUME MicInv, NEW t \in Threads, ErrorInit(t), UNCHANGED chunks
  PROVE  MicInv'
<1>1. PICK o \in Places : \E r :
           /\ CtlAt(t, o, r) /\ Moved(t, o, r)
           /\ \/ o = "feed" /\ t = "main"
              \/ o = "top" /\ t = "rec"
              \/ o \in {"writeFails", "stopFails"}
  BY EndReturns DEF ErrorInit, At, EndPlaces
<1>2. PICK r : CtlAt(t, o, r) /\ Moved(t, o, r)
  BY <1>1
<1>3. RecorderTypeOK' /\ SrTypeOK' /\ chunks' \in Nat
  <2>1. RecorderTypeOK' /\ chunks' \in Nat
    BY DEF ErrorInit, MicInv, MicTypeOK, RecorderTypeOK, recorderVars
  <2>2. src' \in {"mic", "user"} /\ session' \in {"none", "open", "ended"}
    BY DEF ErrorInit, MicInv, MicTypeOK, SrTypeOK
  <2>3. started' \in BOOLEAN /\ id' \in BOOLEAN /\ begun' \in BOOLEAN
    BY DEF ErrorInit, MicInv, MicTypeOK, SrTypeOK
  <2>4. ep_stat' \in EpStats /\ complete' \in BOOLEAN
    BY DEF ErrorInit, MicInv, MicTypeOK, SrTypeOK
  <2> QED
    BY <2>1, <2>2, <2>3, <2>4 DEF SrTypeOK
<1>4. DataInv'
  BY <1>1, <1>2 DEF ErrorInit, At, recorderVars,
       MicInv, DataInv, Moved, Threads, UserInv, QuietInv, FreedInv, StoppedInv, IsStopped,
       SessionInv, Over, Owned, StopPlaces, EndPlaces
<1> QED
  BY <1>2, <1>3, <1>4, StepKeeps

------------------------------------------------------------------------------
(* sr_write_audio_data and end_sr_on_vad. *)

LEMMA VadStopStep ==
  ASSUME MicInv, NEW t \in Threads, VadStop(t), UNCHANGED chunks
  PROVE  MicInv'
<1>1. RecorderTypeOK' /\ SrTypeOK' /\ chunks' \in Nat
  BY DEF VadStop, MicInv, MicTypeOK, RecorderTypeOK, SrTypeOK, recorderVars, srVars
<1>2. CASE src = "mic"
  <2> DEFINE s == Push("vadReset", "vadReset", stack[t])
  <2>1. /\ stack[t] \in Seq(Frame) /\ stack[t] \in Writes(t) /\ "vadReset" \in Places
    BY StackOf, PlacesListed DEF VadStop, At, WritePlaces
  <2>2. CtlAt(t, "stop", s) /\ s \notin CloseStops
    BY <2>1, NotClosing DEF CtlAt, Stops, StopPlaces
  <2>3. Moved(t, "stop", s)
    BY <1>2, <2>1, <2>2, CallInto DEF VadStop
  <2> HIDE DEF s
  <2>4. DataInv'
    BY <1>2, <2>2, <2>3 DEF VadStop, At, srVars, recorderVars,
         MicInv, DataInv, Moved, Threads, UserInv, QuietInv, FreedInv, StoppedInv, IsStopped,
         SessionInv, Over, Owned, StopPlaces, EndPlaces
  <2> QED
    BY <1>1, <2>2, <2>3, <2>4, StepKeeps
<1>3. CASE src # "mic"
  <2>1. Moved(t, "vadReset", stack[t]) /\ CtlAt(t, "vadReset", stack[t])
    BY <1>3, GoWithin DEF VadStop, At, WritePlaces
  <2>2. DataInv'
    BY <1>3, <2>1 DEF VadStop, At, srVars, recorderVars,
         MicInv, DataInv, Moved, Threads, UserInv, QuietInv, FreedInv, StoppedInv, IsStopped,
         SessionInv, Over, Owned, StopPlaces, EndPlaces
  <2> QED
    BY <1>1, <2>1, <2>2, StepKeeps
<1> QED
  BY <1>2, <1>3

LEMMA VadResetStep ==
  ASSUME MicInv, NEW t \in Threads, VadReset(t), UNCHANGED chunks
  PROVE  MicInv'
<1>1. Moved(t, "vadLoop", stack[t]) /\ CtlAt(t, "vadLoop", stack[t])
  BY GoWithin DEF VadReset, At, WritePlaces
<1>2. RecorderTypeOK' /\ SrTypeOK' /\ chunks' \in Nat
  <2>1. RecorderTypeOK' /\ chunks' \in Nat
    BY DEF VadReset, MicInv, MicTypeOK, RecorderTypeOK, recorderVars
  <2>2. src' \in {"mic", "user"} /\ session' \in {"none", "open", "ended"}
    BY DEF VadReset, MicInv, MicTypeOK, SrTypeOK
  <2>3. started' \in BOOLEAN /\ id' \in BOOLEAN /\ begun' \in BOOLEAN
    BY DEF VadReset, MicInv, MicTypeOK, SrTypeOK
  <2>4. ep_stat' \in EpStats /\ complete' \in BOOLEAN
    BY DEF VadReset, MicInv, MicTypeOK, SrTypeOK
  <2> QED
    BY <2>1, <2>2, <2>3, <2>4 DEF SrTypeOK
<1>3. DataInv'
  BY <1>1 DEF VadReset, At, recorderVars,
       MicInv, DataInv, Moved, Threads, UserInv, QuietInv, FreedInv, StoppedInv, IsStopped,
       SessionInv, Over, Owned, StopPlaces, EndPlaces
<1> QED
  BY <1>1, <1>2, <1>3, StepKeeps

LEMMA VadEndStep ==
  ASSUME MicInv, NEW t \in Threads, VadEnd(t), UNCHANGED chunks
  PROVE  MicInv'
<1>1. Moved(t, "errorInit", stack[t]) /\ CtlAt(t, "errorInit", stack[t])
  BY GoWithin DEF VadEnd, At, WritePlaces, EndPlaces
<1>2. RecorderTypeOK' /\ SrTypeOK' /\ chunks' \in Nat
  <2>1. RecorderTypeOK' /\ chunks' \in Nat
    BY DEF VadEnd, MicInv, MicTypeOK, RecorderTypeOK, recorderVars
  <2>2. src' \in {"mic", "user"} /\ session' \in {"none", "open", "ended"}
    BY DEF VadEnd, MicInv, MicTypeOK, SrTypeOK, EndSession
  <2>3. started' \in BOOLEAN /\ id' \in BOOLEAN /\ begun' \in BOOLEAN
    BY DEF VadEnd, MicInv, MicTypeOK, SrTypeOK
  <2>4. ep_stat' \in EpStats /\ complete' \in BOOLEAN
    BY DEF VadEnd, MicInv, MicTypeOK, SrTypeOK
  <2> QED
    BY <2>1, <2>2, <2>3, <2>4 DEF SrTypeOK
<1>3. DataInv'
  BY <1>1 DEF VadEnd, At, recorderVars, EndSession,
       MicInv, DataInv, Moved, Threads, UserInv, QuietInv, FreedInv, StoppedInv, IsStopped,
       SessionInv, Over, Owned, StopPlaces, EndPlaces
<1> QED
  BY <1>1, <1>2, <1>3, StepKeeps

LEMMA VadResultStep ==
  ASSUME MicInv, NEW t \in Threads, VadResult(t), UNCHANGED chunks
  PROVE  MicInv'
<1>1. RecorderTypeOK' /\ SrTypeOK' /\ chunks' \in Nat
  <2>1. RecorderTypeOK' /\ chunks' \in Nat
    BY DEF VadResult, MicInv, MicTypeOK, RecorderTypeOK, recorderVars
  <2>2. src' \in {"mic", "user"} /\ session' \in {"none", "open", "ended"}
    BY DEF VadResult, MicInv, MicTypeOK, SrTypeOK
  <2>3. started' \in BOOLEAN /\ id' \in BOOLEAN /\ begun' \in BOOLEAN
    BY DEF VadResult, MicInv, MicTypeOK, SrTypeOK
  <2>4. ep_stat' \in EpStats /\ complete' \in BOOLEAN
    BY DEF VadResult, MicInv, MicTypeOK, SrTypeOK
  <2> QED
    BY <2>1, <2>2, <2>3, <2>4 DEF SrTypeOK
<1>2. CASE Goto(t, "vadLoop")
  <2>1. Moved(t, "vadLoop", stack[t]) /\ CtlAt(t, "vadLoop", stack[t])
    BY <1>2, GoWithin DEF VadResult, At, WritePlaces
  <2>2. DataInv'
    BY <2>1 DEF VadResult, At, recorderVars,
         MicInv, DataInv, Moved, Threads, UserInv, QuietInv, FreedInv, StoppedInv, IsStopped,
         SessionInv, Over, Owned, StopPlaces, EndPlaces
  <2> QED
    BY <1>1, <2>1, <2>2, StepKeeps
<1>3. CASE Crash
  <2>1. heap # "freed"
    BY DEF VadResult, At, MicInv, FreedInv, Threads
  <2>2. ep_stat' \in EpStats /\ complete' \in BOOLEAN /\ begun' \in BOOLEAN
    BY <1>1 DEF SrTypeOK
  <2> QED
    BY <1>3, <2>1, <2>2, CrashStep DEF VadResult
<1> QED
  BY <1>2, <1>3 DEF VadResult, Deliver

LEMMA WriteDataStep ==
  ASSUME MicInv, NEW t \in Threads, WriteData(t), UNCHANGED chunks
  PROVE  MicInv'
<1>1. RecorderTypeOK' /\ SrTypeOK' /\ chunks' \in Nat
  <2>1. RecorderTypeOK' /\ chunks' \in Nat
    BY DEF WriteData, MicInv, MicTypeOK, RecorderTypeOK, recorderVars
  <2>2. src' \in {"mic", "user"} /\ session' \in {"none", "open", "ended"}
    BY DEF WriteData, MicInv, MicTypeOK, SrTypeOK
  <2>3. started' \in BOOLEAN /\ id' \in BOOLEAN /\ begun' \in BOOLEAN
    BY DEF WriteData, MicInv, MicTypeOK, SrTypeOK
  <2>4. ep_stat' \in EpStats /\ complete' \in BOOLEAN
    BY DEF WriteData, MicInv, MicTypeOK, SrTypeOK
  <2> QED
    BY <2>1, <2>2, <2>3, <2>4 DEF SrTypeOK
<1>2. CASE Call(t, "error", "writeFails", "writeFails")
  <2> DEFINE s == Push("writeFails", "writeFails", stack[t])
  <2>1. stack[t] \in Seq(Frame) /\ stack[t] \in Writes(t) /\ "writeFails" \in Places
    BY StackOf, PlacesListed DEF WriteData, At, WritePlaces
  <2>2. CtlAt(t, "error", s)
    BY <2>1 DEF CtlAt, Errors, ErrorPlaces
  <2>3. Moved(t, "error", s)
    BY <1>2, <2>1, <2>2, CallInto
  <2> HIDE DEF s
  <2>4. DataInv'
    BY <2>3 DEF WriteData, At, recorderVars,
         MicInv, DataInv, Moved, Threads, UserInv, QuietInv, FreedInv, StoppedInv, IsStopped,
         SessionInv, Over, Owned, StopPlaces, EndPlaces
  <2> QED
    BY <1>1, <2>2, <2>3, <2>4, StepKeeps
<1>3. CASE \E l \in {"written", "partial"} : Goto(t, l)
  <2>1. PICK l \in {"written", "partial"} : Goto(t, l)
    BY <1>3
  <2>2. Moved(t, l, stack[t]) /\ CtlAt(t, l, stack[t])
    BY <2>1, GoWithin DEF WriteData, At, WritePlaces
  <2>3. DataInv'
    BY <2>2 DEF WriteData, At, recorderVars,
         MicInv, DataInv, Moved, Threads, UserInv, QuietInv, FreedInv, StoppedInv, IsStopped,
         SessionInv, Over, Owned, StopPlaces, EndPlaces
  <2> QED
    BY <1>1, <2>2, <2>3, StepKeeps
<1> QED
  BY <1>2, <1>3 DEF WriteData

LEMMA PartialStep ==
  ASSUME MicInv, NEW t \in Threads, Partial(t), UNCHANGED chunks
  PROVE  MicInv'
<1>1. RecorderTypeOK' /\ SrTypeOK' /\ chunks' \in Nat
  <2>1. RecorderTypeOK' /\ chunks' \in Nat
    BY DEF Partial, MicInv, MicTypeOK, RecorderTypeOK, recorderVars
  <2>2. src' \in {"mic", "user"} /\ session' \in {"none", "open", "ended"}
    BY DEF Partial, MicInv, MicTypeOK, SrTypeOK
  <2>3. started' \in BOOLEAN /\ id' \in BOOLEAN /\ begun' \in BOOLEAN
    BY DEF Partial, MicInv, MicTypeOK, SrTypeOK
  <2>4. ep_stat' \in EpStats /\ complete' \in BOOLEAN
    BY DEF Partial, MicInv, MicTypeOK, SrTypeOK
  <2> QED
    BY <2>1, <2>2, <2>3, <2>4 DEF SrTypeOK
<1>2. CASE Call(t, "error", "writeFails", "writeFails")
  <2> DEFINE s == Push("writeFails", "writeFails", stack[t])
  <2>1. stack[t] \in Seq(Frame) /\ stack[t] \in Writes(t) /\ "writeFails" \in Places
    BY StackOf, PlacesListed DEF Partial, At, WritePlaces
  <2>2. CtlAt(t, "error", s)
    BY <2>1 DEF CtlAt, Errors, ErrorPlaces
  <2>3. Moved(t, "error", s)
    BY <1>2, <2>1, <2>2, CallInto
  <2> HIDE DEF s
  <2>4. DataInv'
    BY <2>3 DEF Partial, At, recorderVars,
         MicInv, DataInv, Moved, Threads, UserInv, QuietInv, FreedInv, StoppedInv, IsStopped,
         SessionInv, Over, Owned, StopPlaces, EndPlaces
  <2> QED
    BY <1>1, <2>2, <2>3, <2>4, StepKeeps
<1>3. CASE Goto(t, "written")
  <2>1. Moved(t, "written", stack[t]) /\ CtlAt(t, "written", stack[t])
    BY <1>3, GoWithin DEF Partial, At, WritePlaces
  <2>2. DataInv'
    BY <2>1 DEF Partial, At, recorderVars,
         MicInv, DataInv, Moved, Threads, UserInv, QuietInv, FreedInv, StoppedInv, IsStopped,
         SessionInv, Over, Owned, StopPlaces, EndPlaces
  <2> QED
    BY <1>1, <2>1, <2>2, StepKeeps
<1>4. CASE Crash
  <2>1. heap # "freed"
    BY DEF Partial, At, MicInv, FreedInv, Threads
  <2>2. ep_stat' \in EpStats /\ complete' \in BOOLEAN /\ begun' \in BOOLEAN
    BY <1>1 DEF SrTypeOK
  <2> QED
    BY <1>4, <2>1, <2>2, CrashStep DEF Partial
<1> QED
  BY <1>2, <1>3, <1>4 DEF Partial, Deliver

LEMMA WrittenStep ==
  ASSUME MicInv, NEW t \in Threads, Written(t), UNCHANGED chunks
  PROVE  MicInv'
<1>1. RecorderTypeOK' /\ SrTypeOK' /\ chunks' \in Nat
  BY DEF Written, MicInv, MicTypeOK, RecorderTypeOK, SrTypeOK, recorderVars, srVars
<1>2. CASE ep_stat = "after"
  <2>1. Moved(t, "vad", stack[t]) /\ CtlAt(t, "vad", stack[t])
    BY <1>2, GoWithin DEF Written, At, WritePlaces
  <2>2. DataInv'
    BY <1>2, <2>1 DEF Written, At, srVars, recorderVars,
         MicInv, DataInv, Moved, Threads, UserInv, QuietInv, FreedInv, StoppedInv, IsStopped,
         SessionInv, Over, Owned, StopPlaces, EndPlaces
  <2> QED
    BY <1>1, <2>1, <2>2, StepKeeps
<1>3. CASE ep_stat # "after"
  <2>1. stack[t] \in Writes(t) /\ Return(t)
    BY <1>3, StackOf DEF Written, At, WritePlaces
  <2>2. PICK o \in Places : /\ CtlAt(t, o, <<>>) /\ Moved(t, o, <<>>)
                            /\ \/ o = "feed" /\ t = "main"
                               \/ o = "top" /\ t = "rec"
    BY <2>1, WriteReturns
  <2>3. DataInv'
    BY <1>3, <2>2 DEF Written, At, srVars, recorderVars,
         MicInv, DataInv, Moved, Threads, UserInv, QuietInv, FreedInv, StoppedInv, IsStopped,
         SessionInv, Over, Owned, StopPlaces, EndPlaces
  <2> QED
    BY <1>1, <2>2, <2>3, StepKeeps
<1> QED
  BY <1>2, <1>3

LEMMA WriteFailsStep ==
  ASSUME MicInv, NEW t \in Threads, WriteFails(t), UNCHANGED chunks
  PROVE  MicInv'
<1>1. RecorderTypeOK' /\ SrTypeOK' /\ chunks' \in Nat
  BY DEF WriteFails, MicInv, MicTypeOK, RecorderTypeOK, SrTypeOK, recorderVars, srVars
<1>2. stack[t] \in Writes(t) /\ Fails(t)
  BY StackOf DEF WriteFails, At, WritePlaces
<1>3. PICK e \in Places : /\ CtlAt(t, e, <<>>) /\ Moved(t, e, <<>>)
                          /\ \/ e = "exit" /\ t = "main"
                             \/ e = "dataFails" /\ t = "rec"
  BY <1>2, WriteReturns
<1>4. DataInv'
  BY <1>3 DEF WriteFails, At, srVars, recorderVars,
       MicInv, DataInv, Moved, Threads, UserInv, QuietInv, FreedInv, StoppedInv, IsStopped,
       SessionInv, Over, Owned, StopPlaces, EndPlaces
<1> QED
  BY <1>1, <1>3, <1>4, StepKeeps

------------------------------------------------------------------------------
(* sr_start_listening. *)

LEMMA BeginStep ==
  ASSUME MicInv, Begin(Exit), UNCHANGED chunks
  PROVE  MicInv'
<1>1. RecorderTypeOK' /\ SrTypeOK' /\ chunks' \in Nat
  <2>1. RecorderTypeOK' /\ chunks' \in Nat
    BY DEF Begin, MicInv, MicTypeOK, RecorderTypeOK, recorderVars
  <2>2. src' \in {"mic", "user"} /\ session' \in {"none", "open", "ended"}
    BY DEF Begin, MicInv, MicTypeOK, SrTypeOK
  <2>3. started' \in BOOLEAN /\ id' \in BOOLEAN /\ begun' \in BOOLEAN
    BY DEF Begin, MicInv, MicTypeOK, SrTypeOK
  <2>4. ep_stat' \in EpStats /\ complete' \in BOOLEAN
    BY DEF Begin, MicInv, MicTypeOK, SrTypeOK, EpStats
  <2> QED
    BY <2>1, <2>2, <2>3, <2>4 DEF SrTypeOK
<1>2. CASE /\ id' = TRUE /\ session' = "open"
           /\ Goto("main", IF src = "mic" THEN "record" ELSE "started")
  <2>1. CASE src = "mic"
    <3>1. Moved("main", "record", stack["main"]) /\ CtlAt("main", "record", stack["main"])
      BY <1>2, <2>1, GoWithin DEF Begin, At, Threads, DemoPlaces, StartPlaces
    <3>2. DataInv'
      BY <1>2, <2>1, <3>1 DEF Begin, At, recorderVars,
           MicInv, DataInv, Moved, Threads, UserInv, QuietInv, FreedInv, StoppedInv, IsStopped,
           SessionInv, Over, Owned, StopPlaces, EndPlaces
    <3> QED
      BY <1>1, <3>1, <3>2, MainThread, StepKeeps
  <2>2. CASE src # "mic"
    <3>1. Moved("main", "started", stack["main"]) /\ CtlAt("main", "started", stack["main"])
      BY <1>2, <2>2, GoWithin DEF Begin, At, Threads, DemoPlaces, StartPlaces
    <3>2. DataInv'
      BY <1>2, <2>2, <3>1 DEF Begin, At, recorderVars,
           MicInv, DataInv, Moved, Threads, UserInv, QuietInv, FreedInv, StoppedInv, IsStopped,
           SessionInv, Over, Owned, StopPlaces, EndPlaces
    <3> QED
      BY <1>1, <3>1, <3>2, MainThread, StepKeeps
  <2> QED
    BY <2>1, <2>2
<1>3. CASE Goto("main", Exit) /\ UNCHANGED <<id, session>>
  <2>1. PICK l \in {"listen", "exit"} : Goto("main", l)
    BY <1>3 DEF Exit
  <2>2. Moved("main", l, stack["main"]) /\ CtlAt("main", l, stack["main"])
    BY <2>1, GoWithin DEF Begin, At, Threads, DemoPlaces, StartPlaces
  <2>3. DataInv'
    BY <1>3, <2>2 DEF Begin, At, recorderVars,
         MicInv, DataInv, Moved, Threads, UserInv, QuietInv, FreedInv, StoppedInv, IsStopped,
         SessionInv, Over, Owned, StopPlaces, EndPlaces
  <2> QED
    BY <1>1, <2>2, <2>3, MainThread, StepKeeps
<1> QED
  BY <1>2, <1>3 DEF Begin

LEMMA RecordStep ==
  ASSUME MicInv, Record("listen"), UNCHANGED chunks
  PROVE  MicInv'
<1>1. RecorderTypeOK' /\ SrTypeOK' /\ chunks' \in Nat
  <2>1. RecorderTypeOK' /\ chunks' \in Nat
    BY DEF Record, MicInv, MicTypeOK, RecorderTypeOK, recorderVars, EndSession, StartDevice, StartFails
  <2>2. src' \in {"mic", "user"} /\ session' \in {"none", "open", "ended"}
    BY DEF Record, MicInv, MicTypeOK, SrTypeOK, EndSession, StartDevice, StartFails
  <2>3. started' \in BOOLEAN /\ id' \in BOOLEAN /\ begun' \in BOOLEAN
    BY DEF Record, MicInv, MicTypeOK, SrTypeOK
  <2>4. ep_stat' \in EpStats /\ complete' \in BOOLEAN
    BY DEF Record, MicInv, MicTypeOK, SrTypeOK
  <2> QED
    BY <2>1, <2>2, <2>3, <2>4 DEF SrTypeOK
<1>2. CASE StartDevice("recording") /\ UNCHANGED <<id, session>>
  <2>1. Moved("main", "recording", stack["main"]) /\ CtlAt("main", "recording", stack["main"])
    BY <1>2, GoWithin DEF Record, At, Threads, DemoPlaces, StartPlaces, StartDevice
  <2>2. DataInv'
    BY <1>2, <2>1 DEF Record, StartDevice, At,
         MicInv, DataInv, Moved, Threads, UserInv, QuietInv, FreedInv, StoppedInv, IsStopped,
         SessionInv, Over, Owned, StopPlaces, EndPlaces
  <2> QED
    BY <1>1, <2>1, <2>2, MainThread, StepKeeps
<1>3. CASE StartFails("listen") /\ EndSession /\ id' = FALSE
  <2>1. Moved("main", "listen", stack["main"]) /\ CtlAt("main", "listen", stack["main"])
    BY <1>3, GoWithin DEF Record, At, Threads, DemoPlaces, StartPlaces, StartFails
  <2>2. DataInv'
    BY <1>3, <2>1 DEF Record, StartFails, EndSession, At, recorderVars,
         MicInv, DataInv, Moved, Threads, UserInv, QuietInv, FreedInv, StoppedInv, IsStopped,
         SessionInv, Over, Owned, StopPlaces, EndPlaces
  <2> QED
    BY <1>1, <2>1, <2>2, MainThread, StepKeeps
<1> QED
  BY <1>2, <1>3 DEF Record

LEMMA RecordingStep ==
  ASSUME MicInv, Recording, UNCHANGED chunks
  PROVE  MicInv'
<1>1. Moved("main", "started", stack["main"]) /\ CtlAt("main", "started", stack["main"])
  BY GoWithin DEF Recording, At, Threads, DemoPlaces, StartPlaces, StartStore
<1>2. RecorderTypeOK' /\ SrTypeOK' /\ chunks' \in Nat
  BY DEF Recording, StartStore, MicInv, MicTypeOK, RecorderTypeOK, SrTypeOK, recorderVars, srVars
<1>3. DataInv'
  BY <1>1 DEF Recording, StartStore, At, srVars,
       MicInv, DataInv, Moved, Threads, UserInv, QuietInv, FreedInv, StoppedInv, IsStopped,
       SessionInv, Over, Owned, StopPlaces, EndPlaces
<1> QED
  BY <1>1, <1>2, <1>3, MainThread, StepKeeps

LEMMA StartedStep ==
  ASSUME MicInv, Started, UNCHANGED chunks
  PROVE  MicInv'
<1>1. Moved("main", "begun", stack["main"]) /\ CtlAt("main", "begun", stack["main"])
  BY GoWithin DEF Started, At, Threads, DemoPlaces, StartPlaces
<1>2. RecorderTypeOK' /\ SrTypeOK' /\ chunks' \in Nat
  <2>1. RecorderTypeOK' /\ chunks' \in Nat
    BY DEF Started, MicInv, MicTypeOK, RecorderTypeOK, recorderVars
  <2>2. src' \in {"mic", "user"} /\ session' \in {"none", "open", "ended"}
    BY DEF Started, MicInv, MicTypeOK, SrTypeOK
  <2>3. started' \in BOOLEAN /\ id' \in BOOLEAN /\ begun' \in BOOLEAN
    BY DEF Started, MicInv, MicTypeOK, SrTypeOK
  <2>4. ep_stat' \in EpStats /\ complete' \in BOOLEAN
    BY DEF Started, MicInv, MicTypeOK, SrTypeOK
  <2> QED
    BY <2>1, <2>2, <2>3, <2>4 DEF SrTypeOK
<1>3. DataInv'
  BY <1>1 DEF Started, At, recorderVars,
       MicInv, DataInv, Moved, Threads, UserInv, QuietInv, FreedInv, StoppedInv, IsStopped,
       SessionInv, Over, Owned, StopPlaces, EndPlaces
<1> QED
  BY <1>1, <1>2, <1>3, MainThread, StepKeeps

LEMMA SpeechBeginStep ==
  ASSUME MicInv, NEW l \in {"listen", "feed"}, SpeechBegin(l), UNCHANGED chunks
  PROVE  MicInv'
<1>1. Moved("main", l, stack["main"]) /\ CtlAt("main", l, stack["main"])
  BY GoWithin DEF SpeechBegin, At, Threads, DemoPlaces, StartPlaces
<1>2. RecorderTypeOK' /\ SrTypeOK' /\ chunks' \in Nat
  <2>1. RecorderTypeOK' /\ chunks' \in Nat
    BY DEF SpeechBegin, MicInv, MicTypeOK, RecorderTypeOK, recorderVars
  <2>2. src' \in {"mic", "user"} /\ session' \in {"none", "open", "ended"}
    BY DEF SpeechBegin, MicInv, MicTypeOK, SrTypeOK
  <2>3. started' \in BOOLEAN /\ id' \in BOOLEAN /\ begun' \in BOOLEAN
    BY DEF SpeechBegin, MicInv, MicTypeOK, SrTypeOK
  <2>4. ep_stat' \in EpStats /\ complete' \in BOOLEAN
    BY DEF SpeechBegin, MicInv, MicTypeOK, SrTypeOK
  <2> QED
    BY <2>1, <2>2, <2>3, <2>4 DEF SrTypeOK
<1>3. DataInv'
  BY <1>1 DEF SpeechBegin, At, recorderVars,
       MicInv, DataInv, Moved, Threads, UserInv, QuietInv, FreedInv, StoppedInv, IsStopped,
       SessionInv, Over, Owned, StopPlaces, EndPlaces
<1> QED
  BY <1>1, <1>2, <1>3, MainThread, StepKeeps

------------------------------------------------------------------------------
(* sr_stop_listening, and the demos' calls of it. *)

LEMMA ListenStep ==
  ASSUME MicInv, Listen
  PROVE  MicInv'
<1> DEFINE s == Push("uninit", "uninit", stack["main"])
<1>1. /\ stack["main"] \in Seq(Frame) /\ stack["main"] = <<>>
      /\ "main" \in Threads /\ "uninit" \in Places /\ "uninit" \in Places
  BY StackOf, PlacesListed DEF Listen, At, Threads, DemoPlaces, StartPlaces, ClosePlaces, Places
<1>2. CtlAt("main", "stopListening", s)
  BY <1>1 DEF CtlAt, Listens, ListenPlaces
<1>3. Moved("main", "stopListening", s)
  BY <1>1, <1>2, CallInto DEF Listen
<1> HIDE DEF s
<1>4. RecorderTypeOK' /\ SrTypeOK' /\ chunks' \in Nat
  BY DEF Listen, MicInv, MicTypeOK, RecorderTypeOK, SrTypeOK, recorderVars, srVars
<1>5. DataInv'
  BY <1>3 DEF Listen, At, srVars, recorderVars,
       MicInv, DataInv, Moved, Threads, UserInv, QuietInv, FreedInv, StoppedInv, IsStopped,
       SessionInv, Over, Owned, StopPlaces, EndPlaces
<1> QED
  BY <1>2, <1>3, <1>4, <1>5, MainThread, StepKeeps

LEMMA ExitFileStep ==
  ASSUME MicInv, ExitFile
  PROVE  MicInv'
<1> DEFINE s == Push("uninit", "uninit", stack["main"])
<1>1. /\ stack["main"] \in Seq(Frame) /\ stack["main"] = <<>>
      /\ "main" \in Threads /\ "uninit" \in Places /\ "uninit" \in Places
  BY StackOf, PlacesListed DEF ExitFile, At, Threads, DemoPlaces, StartPlaces, ClosePlaces, Places
<1>2. CtlAt("main", "stopListening", s)
  BY <1>1 DEF CtlAt, Listens, ListenPlaces
<1>3. Moved("main", "stopListening", s)
  BY <1>1, <1>2, CallInto DEF ExitFile
<1> HIDE DEF s
<1>4. RecorderTypeOK' /\ SrTypeOK' /\ chunks' \in Nat
  BY DEF ExitFile, MicInv, MicTypeOK, RecorderTypeOK, SrTypeOK, recorderVars, srVars
<1>5. DataInv'
  BY <1>3 DEF ExitFile, At, srVars, recorderVars,
       MicInv, DataInv, Moved, Threads, UserInv, QuietInv, FreedInv, StoppedInv, IsStopped,
       SessionInv, Over, Owned, StopPlaces, EndPlaces
<1> QED
  BY <1>2, <1>3, <1>4, <1>5, MainThread, StepKeeps

LEMMA FeedStep ==
  ASSUME MicInv, Feed
  PROVE  MicInv'
<1>1. CASE chunks > 0
  <2> DEFINE s == Push("feed", "exit", stack["main"])
  <2>1. /\ stack["main"] \in Seq(Frame) /\ stack["main"] = <<>>
        /\ "main" \in Threads /\ "feed" \in Places /\ "exit" \in Places
    BY StackOf, PlacesListed DEF Feed, At, Threads, DemoPlaces, StartPlaces, ClosePlaces, Places
  <2>2. CtlAt("main", "write", s)
    BY <2>1 DEF CtlAt, Writes, WritePlaces
  <2>3. Moved("main", "write", s)
    BY <1>1, <2>1, <2>2, CallInto DEF Feed
  <2> HIDE DEF s
  <2>4. RecorderTypeOK' /\ SrTypeOK'
    BY DEF Feed, MicInv, MicTypeOK, RecorderTypeOK, SrTypeOK, recorderVars, srVars
  <2>5. chunks' \in Nat
    <3>1. chunks \in Nat /\ chunks' = chunks - 1
      BY <1>1 DEF MicInv, MicTypeOK, Feed
    <3> QED
      BY <1>1, <3>1
  <2>6. DataInv'
    BY <2>3 DEF Feed, At, srVars, recorderVars,
         MicInv, DataInv, Moved, Threads, UserInv, QuietInv, FreedInv, StoppedInv, IsStopped,
         SessionInv, Over, Owned, StopPlaces, EndPlaces
  <2> QED
    BY <2>2, <2>3, <2>4, <2>5, <2>6, MainThread, StepKeeps
<1>2. CASE ~(chunks > 0)
  <2> DEFINE s == Push("exit", "exit", stack["main"])
  <2>1. /\ stack["main"] \in Seq(Frame) /\ stack["main"] = <<>>
        /\ "main" \in Threads /\ "exit" \in Places /\ "exit" \in Places
    BY StackOf, PlacesListed DEF Feed, At, Threads, DemoPlaces, StartPlaces, ClosePlaces, Places
  <2>2. CtlAt("main", "stopListening", s)
    BY <2>1 DEF CtlAt, Listens, ListenPlaces
  <2>3. Moved("main", "stopListening", s)
    BY <1>2, <2>1, <2>2, CallInto DEF Feed
  <2> HIDE DEF s
  <2>4. RecorderTypeOK' /\ SrTypeOK' /\ chunks' \in Nat
    BY <1>2 DEF Feed, MicInv, MicTypeOK, RecorderTypeOK, SrTypeOK, recorderVars, srVars
  <2>5. DataInv'
    BY <2>3 DEF Feed, At, srVars, recorderVars,
         MicInv, DataInv, Moved, Threads, UserInv, QuietInv, FreedInv, StoppedInv, IsStopped,
         SessionInv, Over, Owned, StopPlaces, EndPlaces
  <2> QED
    BY <2>2, <2>3, <2>4, <2>5, MainThread, StepKeeps
<1> QED
  BY <1>1, <1>2

LEMMA StopListeningStep ==
  ASSUME MicInv, StopListening, UNCHANGED chunks
  PROVE  MicInv'
<1>1. RecorderTypeOK' /\ SrTypeOK' /\ chunks' \in Nat
  BY DEF StopListening, MicInv, MicTypeOK, RecorderTypeOK, SrTypeOK, recorderVars, srVars
<1>2. CASE ~started
  <2>1. PICK o \in {"uninit", "exit"} : CtlAt("main", o, <<>>) /\ Moved("main", o, <<>>)
    BY <1>2, ListenReturns DEF StopListening, At, ListenPlaces
  <2>2. DataInv'
    BY <1>2, <2>1 DEF StopListening, At, srVars, recorderVars,
         MicInv, DataInv, Moved, Threads, UserInv, QuietInv, FreedInv, StoppedInv, IsStopped,
         SessionInv, Over, Owned, StopPlaces, EndPlaces
  <2> QED
    BY <1>1, <2>1, <2>2, MainThread, StepKeeps
<1>3. CASE started /\ src = "mic"
  <2> DEFINE s == Push("await", "stopFails", stack["main"])
  <2>1. /\ stack["main"] \in Seq(Frame) /\ stack["main"] \in Listens("main")
        /\ "main" \in Threads /\ "await" \in Places /\ "stopFails" \in Places
    BY StackOf, PlacesListed DEF StopListening, At, Threads, ListenPlaces
  <2>2. CtlAt("main", "stop", s) /\ s \notin CloseStops
    BY <2>1, NotClosing DEF CtlAt, Stops, StopPlaces
  <2>3. Moved("main", "stop", s)
    BY <1>3, <2>1, <2>2, CallInto DEF StopListening
  <2> HIDE DEF s
  <2>4. DataInv'
    BY <1>3, <2>2, <2>3 DEF StopListening, At, srVars, recorderVars,
         MicInv, DataInv, Moved, Threads, UserInv, QuietInv, FreedInv, StoppedInv, IsStopped,
         SessionInv, Over, Owned, StopPlaces, EndPlaces
  <2> QED
    BY <1>1, <2>1, <2>2, <2>3, <2>4, MainThread, StepKeeps
<1>4. CASE started /\ src # "mic"
  <2>1. Moved("main", "stopped", stack["main"]) /\ CtlAt("main", "stopped", stack["main"])
    BY <1>4, GoWithin DEF StopListening, At, Threads, ListenPlaces
  <2>2. src = "user"
    BY <1>4 DEF MicInv, MicTypeOK, SrTypeOK
  <2>3. DataInv'
    BY <1>4, <2>1, <2>2 DEF StopListening, At, srVars, recorderVars,
         MicInv, DataInv, Moved, Threads, UserInv, QuietInv, FreedInv, StoppedInv, IsStopped,
         SessionInv, Over, Owned, StopPlaces, EndPlaces
  <2> QED
    BY <1>1, <2>1, <2>3, MainThread, StepKeeps
<1> QED
  BY <1>2, <1>3, <1>4

LEMMA StopFailsStep ==
  ASSUME MicInv, StopFails, UNCHANGED chunks
  PROVE  MicInv'
<1>1. RecorderTypeOK' /\ SrTypeOK' /\ chunks' \in Nat
  BY DEF StopFails, MicInv, MicTypeOK, RecorderTypeOK, SrTypeOK, recorderVars, srVars
<1>2. PICK o \in {"uninit", "exit"} : CtlAt("main", o, <<>>) /\ Moved("main", o, <<>>)
  BY ListenReturns DEF StopFails, At, ListenPlaces
<1>3. DataInv'
  BY <1>2 DEF StopFails, At, srVars, recorderVars,
       MicInv, DataInv, Moved, Threads, UserInv, QuietInv, FreedInv, StoppedInv, IsStopped,
       SessionInv, Over, Owned, StopPlaces, EndPlaces
<1> QED
  BY <1>1, <1>2, <1>3, MainThread, StepKeeps

LEMMA AwaitStep ==
  ASSUME MicInv, Await, UNCHANGED chunks
  PROVE  MicInv'
<1>1. Moved("main", "stopped", stack["main"]) /\ CtlAt("main", "stopped", stack["main"])
  BY GoWithin DEF Await, At, Threads, ListenPlaces
<1>2. RecorderTypeOK' /\ SrTypeOK' /\ chunks' \in Nat
  BY DEF Await, MicInv, MicTypeOK, RecorderTypeOK, SrTypeOK, recorderVars, srVars
<1>3. DataInv'
  BY <1>1 DEF Await, At, srVars, recorderVars,
       MicInv, DataInv, Moved, Threads, UserInv, QuietInv, FreedInv, StoppedInv, IsStopped,
       SessionInv, Over, Owned, StopPlaces, EndPlaces
<1> QED
  BY <1>1, <1>2, <1>3, MainThread, StepKeeps

LEMMA StoppedStep ==
  ASSUME MicInv, Stopped, UNCHANGED chunks
  PROVE  MicInv'
<1>1. Moved("main", "last", stack["main"]) /\ CtlAt("main", "last", stack["main"])
  BY GoWithin DEF Stopped, At, Threads, ListenPlaces
<1>2. RecorderTypeOK' /\ SrTypeOK' /\ chunks' \in Nat
  <2>1. RecorderTypeOK' /\ chunks' \in Nat
    BY DEF Stopped, MicInv, MicTypeOK, RecorderTypeOK, recorderVars
  <2>2. src' \in {"mic", "user"} /\ session' \in {"none", "open", "ended"}
    BY DEF Stopped, MicInv, MicTypeOK, SrTypeOK
  <2>3. started' \in BOOLEAN /\ id' \in BOOLEAN /\ begun' \in BOOLEAN
    BY DEF Stopped, MicInv, MicTypeOK, SrTypeOK
  <2>4. ep_stat' \in EpStats /\ complete' \in BOOLEAN
    BY DEF Stopped, MicInv, MicTypeOK, SrTypeOK
  <2> QED
    BY <2>1, <2>2, <2>3, <2>4 DEF SrTypeOK
<1>3. DataInv'
  BY <1>1 DEF Stopped, At, recorderVars,
       MicInv, DataInv, Moved, Threads, UserInv, QuietInv, FreedInv, StoppedInv, IsStopped,
       SessionInv, Over, Owned, StopPlaces, EndPlaces
<1> QED
  BY <1>1, <1>2, <1>3, MainThread, StepKeeps

LEMMA WriteLastStep ==
  ASSUME MicInv, WriteLast, UNCHANGED chunks
  PROVE  MicInv'
<1>1. RecorderTypeOK' /\ SrTypeOK' /\ chunks' \in Nat
  <2>1. RecorderTypeOK' /\ chunks' \in Nat
    BY DEF WriteLast, MicInv, MicTypeOK, RecorderTypeOK, recorderVars
  <2>2. src' \in {"mic", "user"} /\ session' \in {"none", "open", "ended"}
    BY DEF WriteLast, MicInv, MicTypeOK, SrTypeOK, EndSession
  <2>3. started' \in BOOLEAN /\ id' \in BOOLEAN /\ begun' \in BOOLEAN
    BY DEF WriteLast, MicInv, MicTypeOK, SrTypeOK
  <2>4. ep_stat' \in EpStats /\ complete' \in BOOLEAN
    BY DEF WriteLast, MicInv, MicTypeOK, SrTypeOK
  <2> QED
    BY <2>1, <2>2, <2>3, <2>4 DEF SrTypeOK
<1>2. CASE Goto("main", "result") /\ UNCHANGED session
  <2>1. Moved("main", "result", stack["main"]) /\ CtlAt("main", "result", stack["main"])
    BY <1>2, GoWithin DEF WriteLast, At, Threads, ListenPlaces
  <2>2. DataInv'
    BY <1>2, <2>1 DEF WriteLast, At, recorderVars,
         MicInv, DataInv, Moved, Threads, UserInv, QuietInv, FreedInv, StoppedInv, IsStopped,
         SessionInv, Over, Owned, StopPlaces, EndPlaces
  <2> QED
    BY <1>1, <2>1, <2>2, MainThread, StepKeeps
<1>3. CASE EndSession /\ Fails("main")
  <2>1. PICK o \in {"uninit", "exit"} : CtlAt("main", o, <<>>) /\ Moved("main", o, <<>>)
    BY <1>3, ListenReturns DEF WriteLast, At, ListenPlaces
  <2>2. DataInv'
    BY <1>3, <2>1 DEF WriteLast, At, EndSession, recorderVars,
         MicInv, DataInv, Moved, Threads, UserInv, QuietInv, FreedInv, StoppedInv, IsStopped,
         SessionInv, Over, Owned, StopPlaces, EndPlaces
  <2> QED
    BY <1>1, <2>1, <2>2, MainThread, StepKeeps
<1> QED
  BY <1>2, <1>3 DEF WriteLast

LEMMA ResultFailsStep ==
  ASSUME MicInv, ResultFails, UNCHANGED chunks
  PROVE  MicInv'
<1> DEFINE s == Push("stopFails", "stopFails", stack["main"])
<1>1. /\ stack["main"] \in Seq(Frame) /\ stack["main"] \in Listens("main")
      /\ "main" \in Threads /\ "stopFails" \in Places /\ "stopFails" \in Places
  BY StackOf, PlacesListed DEF ResultFails, At, Threads, ListenPlaces
<1>2. CtlAt("main", "error", s)
  BY <1>1 DEF CtlAt, Errors, ErrorPlaces
<1>3. Moved("main", "error", s)
  BY <1>1, <1>2, CallInto DEF ResultFails
<1> HIDE DEF s
<1>4. RecorderTypeOK' /\ SrTypeOK' /\ chunks' \in Nat
  BY DEF ResultFails, MicInv, MicTypeOK, RecorderTypeOK, SrTypeOK, recorderVars, srVars
<1>5. DataInv'
  BY <1>3 DEF ResultFails, At, srVars, recorderVars,
       MicInv, DataInv, Moved, Threads, UserInv, QuietInv, FreedInv, StoppedInv, IsStopped,
       SessionInv, Over, Owned, StopPlaces, EndPlaces
<1> QED
  BY <1>1, <1>2, <1>3, <1>4, <1>5, MainThread, StepKeeps

LEMMA ResultStep ==
  ASSUME MicInv, Result, UNCHANGED chunks
  PROVE  MicInv'
<1>1. RecorderTypeOK' /\ SrTypeOK' /\ chunks' \in Nat
  <2>1. RecorderTypeOK' /\ chunks' \in Nat
    BY DEF Result, MicInv, MicTypeOK, RecorderTypeOK, recorderVars
  <2>2. src' \in {"mic", "user"} /\ session' \in {"none", "open", "ended"}
    BY DEF Result, MicInv, MicTypeOK, SrTypeOK
  <2>3. started' \in BOOLEAN /\ id' \in BOOLEAN /\ begun' \in BOOLEAN
    BY DEF Result, MicInv, MicTypeOK, SrTypeOK
  <2>4. ep_stat' \in EpStats /\ complete' \in BOOLEAN
    BY DEF Result, MicInv, MicTypeOK, SrTypeOK
  <2> QED
    BY <2>1, <2>2, <2>3, <2>4 DEF SrTypeOK
<1>2. CASE Goto("main", "result")
  <2>1. Moved("main", "result", stack["main"]) /\ CtlAt("main", "result", stack["main"])
    BY <1>2, GoWithin DEF Result, At, Threads, ListenPlaces
  <2>2. DataInv'
    BY <2>1 DEF Result, At, recorderVars,
         MicInv, DataInv, Moved, Threads, UserInv, QuietInv, FreedInv, StoppedInv, IsStopped,
         SessionInv, Over, Owned, StopPlaces, EndPlaces
  <2> QED
    BY <1>1, <2>1, <2>2, MainThread, StepKeeps
<1>3. CASE Crash
  <2>1. heap # "freed"
    BY DEF Result, At, MicInv, FreedInv
  <2>2. ep_stat' \in EpStats /\ complete' \in BOOLEAN /\ begun' \in BOOLEAN
    BY <1>1 DEF SrTypeOK
  <2> QED
    BY <1>3, <2>1, <2>2, CrashStep DEF Result
<1> QED
  BY <1>2, <1>3 DEF Result, Deliver

LEMMA ResultEndStep ==
  ASSUME MicInv, ResultEnd, UNCHANGED chunks
  PROVE  MicInv'
<1>1. RecorderTypeOK' /\ SrTypeOK' /\ chunks' \in Nat
  <2>1. RecorderTypeOK' /\ chunks' \in Nat
    BY DEF ResultEnd, MicInv, MicTypeOK, RecorderTypeOK, recorderVars
  <2>2. src' \in {"mic", "user"} /\ session' \in {"none", "open", "ended"}
    BY DEF ResultEnd, MicInv, MicTypeOK, SrTypeOK, EndSession
  <2>3. started' \in BOOLEAN /\ id' \in BOOLEAN /\ begun' \in BOOLEAN
    BY DEF ResultEnd, MicInv, MicTypeOK, SrTypeOK
  <2>4. ep_stat' \in EpStats /\ complete' \in BOOLEAN
    BY DEF ResultEnd, MicInv, MicTypeOK, SrTypeOK
  <2> QED
    BY <2>1, <2>2, <2>3, <2>4 DEF SrTypeOK
<1>2. PICK o \in {"uninit", "exit"} : CtlAt("main", o, <<>>) /\ Moved("main", o, <<>>)
  BY ListenReturns DEF ResultEnd, At, ListenPlaces
<1>3. DataInv'
  BY <1>2 DEF ResultEnd, EndSession, At, recorderVars,
       MicInv, DataInv, Moved, Threads, UserInv, QuietInv, FreedInv, StoppedInv, IsStopped,
       SessionInv, Over, Owned, StopPlaces, EndPlaces
<1> QED
  BY <1>1, <1>2, <1>3, MainThread, StepKeeps

------------------------------------------------------------------------------
(* sr_init and sr_uninit. *)

LEMMA InitStep ==
  ASSUME MicInv, Init
  PROVE  MicInv'
<1>1. pc["main"] = "init" /\ Typed /\ stack["main"] = <<>>
  BY StackOf, MainThread DEF Init, At, DemoPlaces
<1>2. SrTypeOK' /\ chunks' \in Nat
  BY DEF Init, MicInv, MicTypeOK, SrTypeOK, srVars
<1>3. CASE src = "user"
  <2>1. PICK l \in {"begin", "done", "crashed"} : Goto("main", l) /\ UNCHANGED recorderVars
    BY <1>3 DEF Init
  <2>2. Moved("main", l, stack["main"]) /\ CtlAt("main", l, stack["main"])
    BY <2>1, GoWithin DEF Init, At, Threads, DemoPlaces, StartPlaces
  <2>3. RecorderTypeOK'
    BY <2>1 DEF MicInv, MicTypeOK, RecorderTypeOK, recorderVars
  <2>4. DataInv'
    BY <1>3, <2>1, <2>2 DEF Init, At, srVars, recorderVars,
         MicInv, DataInv, Moved, Threads, UserInv, QuietInv, FreedInv, StoppedInv, IsStopped,
         SessionInv, Over, Owned, StopPlaces, EndPlaces
  <2> QED
    BY <1>2, <2>2, <2>3, <2>4, MainThread, StepKeeps
<1>4. CASE Goto("main", "done") /\ UNCHANGED recorderVars
  <2>1. Moved("main", "done", stack["main"]) /\ CtlAt("main", "done", stack["main"])
    BY <1>4, GoWithin DEF Init, At, Threads, DemoPlaces
  <2>2. RecorderTypeOK'
    BY <1>4 DEF MicInv, MicTypeOK, RecorderTypeOK, recorderVars
  <2>3. DataInv'
    BY <1>4, <2>1 DEF Init, At, srVars, recorderVars,
         MicInv, DataInv, Moved, Threads, UserInv, QuietInv, FreedInv, StoppedInv, IsStopped,
         SessionInv, Over, Owned, StopPlaces, EndPlaces
  <2> QED
    BY <1>2, <2>1, <2>2, <2>3, MainThread, StepKeeps
<1>5. CASE src # "user" /\ OpenRecorder("begin")
  <2>1. RecorderTypeOK'
    BY <1>5 DEF OpenRecorder, MicInv, MicTypeOK, RecorderTypeOK
  <2>2. CASE heap' = "made" /\ pc' = [pc EXCEPT !["main"] = "begin"] /\ UNCHANGED <<rstate, pcm>>
    <3>1. Goto("main", "begin")
      BY <1>5, <2>2 DEF OpenRecorder, Goto
    <3>2. Moved("main", "begin", stack["main"]) /\ CtlAt("main", "begin", stack["main"])
      BY <3>1, GoWithin DEF Init, At, Threads, DemoPlaces, StartPlaces
    <3>3. DataInv'
      BY <1>5, <2>2, <3>2 DEF Init, OpenRecorder, At, srVars,
           MicInv, DataInv, Moved, Threads, UserInv, QuietInv, FreedInv, StoppedInv, IsStopped,
           SessionInv, Over, Owned, StopPlaces, EndPlaces
    <3> QED
      BY <1>2, <2>1, <3>2, <3>3, MainThread, StepKeeps
  <2>3. CASE rstate' = "ready" /\ pcm' = "prepared" /\ heap' = "open"
             /\ pc' = [main |-> "begin", rec |-> "top"]
    <3>1. /\ stack' = stack /\ pc'["main"] = "begin" /\ pc'["rec"] = "top"
      BY <1>5, <2>3 DEF OpenRecorder
    <3>2. stack["rec"] = <<>>
      BY <1>1, StackOf DEF MicInv, QuietInv, Threads, DemoPlaces, RecPlaces
    <3>3. CtlAt("main", "begin", <<>>) /\ CtlAt("rec", "top", <<>>)
      BY DEF CtlAt, DemoPlaces, StartPlaces, RecPlaces
    <3>4. ControlInv'
      BY <1>1, <3>1, <3>2, <3>3 DEF ControlInv, Threads
    <3>5. "begin" \in Places /\ "top" \in Places
      BY <3>3, PlaceOf DEF Threads
    <3>6. pc' \in [Threads -> Places]
      BY <2>3, <3>5 DEF Threads
    <3>7. MicTypeOK'
      BY <1>1, <1>2, <2>1, <3>1, <3>6 DEF MicTypeOK, Typed, Frame
    <3>8. DataInv'
      BY <1>1, <1>5, <2>3, <3>1 DEF Init, OpenRecorder, srVars, MicInv, DataInv, Threads,
         UserInv, QuietInv, FreedInv, StoppedInv, IsStopped, SessionInv, Over, Owned,
         StopPlaces, EndPlaces
    <3> QED
      BY <3>4, <3>7, <3>8 DEF MicInv, DataInv
  <2> QED
    BY <1>5, <2>2, <2>3 DEF OpenRecorder
<1> QED
  BY <1>3, <1>4, <1>5 DEF Init

LEMMA UninitStep ==
  ASSUME MicInv, Uninit, UNCHANGED chunks
  PROVE  MicInv'
<1>1. RecorderTypeOK' /\ SrTypeOK' /\ chunks' \in Nat
  BY DEF Uninit, MicInv, MicTypeOK, RecorderTypeOK, SrTypeOK, recorderVars, srVars
<1>2. CASE heap = "none"
  <2>1. Moved("main", "uninit2", stack["main"]) /\ CtlAt("main", "uninit2", stack["main"])
    BY <1>2, GoWithin DEF Uninit, At, Threads, DemoPlaces, StartPlaces, ClosePlaces
  <2>2. DataInv'
    BY <1>2, <2>1 DEF Uninit, At, srVars, recorderVars,
         MicInv, DataInv, Moved, Threads, UserInv, QuietInv, FreedInv, StoppedInv, IsStopped,
         SessionInv, Over, Owned, StopPlaces, EndPlaces
  <2> QED
    BY <1>1, <2>1, <2>2, MainThread, StepKeeps
<1>3. CASE heap = "made"
  <2>1. Crash
    BY <1>3 DEF Uninit
  <2>2. ep_stat' \in EpStats /\ complete' \in BOOLEAN /\ begun' \in BOOLEAN
    BY <1>1 DEF SrTypeOK
  <2>3. UNCHANGED <<recorderVars, src, started, id, session, chunks>>
    BY DEF Uninit, srVars
  <2> QED
    BY <1>3, <2>1, <2>2, <2>3, CrashStep
<1>4. CASE heap = "open" /\ IsStopped
  <2>1. Moved("main", "close", stack["main"]) /\ CtlAt("main", "close", stack["main"])
    BY <1>4, GoWithin DEF Uninit, At, Threads, DemoPlaces, StartPlaces, ClosePlaces
  <2>2. DataInv'
    BY <1>4, <2>1 DEF Uninit, At, srVars, recorderVars,
         MicInv, DataInv, Moved, Threads, UserInv, QuietInv, FreedInv, StoppedInv, IsStopped,
         SessionInv, Over, Owned, StopPlaces, EndPlaces
  <2> QED
    BY <1>1, <2>1, <2>2, MainThread, StepKeeps
<1>5. CASE heap = "open" /\ ~IsStopped
  <2> DEFINE s == Push("close", "close", stack["main"])
  <2>1. /\ stack["main"] \in Seq(Frame) /\ stack["main"] = <<>>
        /\ "main" \in Threads /\ "close" \in Places /\ "close" \in Places
    BY StackOf, PlacesListed DEF Uninit, At, Threads, DemoPlaces, StartPlaces, ClosePlaces, Places
  <2>2. CtlAt("main", "stop", s) /\ s \in CloseStops
    BY <2>1 DEF CtlAt, Stops, StopPlaces, CloseStops
  <2>3. Moved("main", "stop", s)
    BY <1>5, <2>1, <2>2, CallInto DEF Uninit
  <2> HIDE DEF s
  <2>4. DataInv'
    BY <1>5, <2>2, <2>3 DEF Uninit, At, srVars, recorderVars,
         MicInv, DataInv, Moved, Threads, UserInv, QuietInv, FreedInv, StoppedInv, IsStopped,
         SessionInv, Over, Owned, StopPlaces, EndPlaces
  <2> QED
    BY <1>1, <2>2, <2>3, <2>4, MainThread, StepKeeps
<1>6. heap # "freed"
  BY DEF Uninit, At, MicInv, FreedInv
<1>7. heap \in {"none", "made", "open"}
  BY <1>6 DEF MicInv, MicTypeOK, RecorderTypeOK
<1> QED
  BY <1>2, <1>3, <1>4, <1>5, <1>7

LEMMA CloseStep ==
  ASSUME MicInv, Close, UNCHANGED <<srVars, chunks>>
  PROVE  MicInv'
<1>1. RecorderTypeOK' /\ SrTypeOK' /\ chunks' \in Nat
  BY DEF Close, MicInv, MicTypeOK, RecorderTypeOK, SrTypeOK, recorderVars, srVars
<1>2. CASE rstate = "recording"
  <2> DEFINE s == Push("closing", "closing", stack["main"])
  <2>1. /\ stack["main"] \in Seq(Frame) /\ stack["main"] = <<>>
        /\ "main" \in Threads /\ "closing" \in Places /\ "closing" \in Places
    BY StackOf, PlacesListed DEF Close, At, Threads, DemoPlaces, StartPlaces, ClosePlaces, Places
  <2>2. CtlAt("main", "stop", s) /\ s \in CloseStops
    BY <2>1 DEF CtlAt, Stops, StopPlaces, CloseStops
  <2>3. Moved("main", "stop", s)
    BY <1>2, <2>1, <2>2, CallInto DEF Close
  <2> HIDE DEF s
  <2>4. DataInv'
    BY <1>2, <2>2, <2>3 DEF Close, At, srVars, recorderVars,
         MicInv, DataInv, Moved, Threads, UserInv, QuietInv, FreedInv, StoppedInv, IsStopped,
         SessionInv, Over, Owned, StopPlaces, EndPlaces
  <2> QED
    BY <1>1, <2>2, <2>3, <2>4, MainThread, StepKeeps
<1>3. CASE rstate # "recording"
  <2>1. Moved("main", "closing", stack["main"]) /\ CtlAt("main", "closing", stack["main"])
    BY <1>3, GoWithin DEF Close, At, Threads, DemoPlaces, StartPlaces, ClosePlaces
  <2>2. DataInv'
    BY <1>3, <2>1 DEF Close, At, srVars, recorderVars,
         MicInv, DataInv, Moved, Threads, UserInv, QuietInv, FreedInv, StoppedInv, IsStopped,
         SessionInv, Over, Owned, StopPlaces, EndPlaces
  <2> QED
    BY <1>1, <2>1, <2>2, MainThread, StepKeeps
<1> QED
  BY <1>2, <1>3

LEMMA CancelStep ==
  ASSUME MicInv, Cancel, UNCHANGED <<srVars, chunks>>
  PROVE  MicInv'
<1>1. Moved("main", "join", stack["main"]) /\ CtlAt("main", "join", stack["main"])
  BY GoWithin DEF Cancel, At, Threads, DemoPlaces, StartPlaces, ClosePlaces
<1>2. RecorderTypeOK' /\ SrTypeOK' /\ chunks' \in Nat
  BY DEF Cancel, MicInv, MicTypeOK, RecorderTypeOK, SrTypeOK, recorderVars, srVars
<1>3. DataInv'
  BY <1>1 DEF Cancel, At, srVars,
       MicInv, DataInv, Moved, Threads, UserInv, QuietInv, FreedInv, StoppedInv, IsStopped,
       SessionInv, Over, Owned, StopPlaces, EndPlaces
<1> QED
  BY <1>1, <1>2, <1>3, MainThread, StepKeeps

LEMMA JoinAndFreeStep ==
  ASSUME MicInv, JoinAndFree, UNCHANGED <<srVars, chunks>>
  PROVE  MicInv'
<1>1. Moved("main", "uninit2", stack["main"]) /\ CtlAt("main", "uninit2", stack["main"])
  BY GoWithin DEF JoinAndFree, At, Threads, DemoPlaces, StartPlaces, ClosePlaces
<1>2. RecorderTypeOK' /\ SrTypeOK' /\ chunks' \in Nat
  BY DEF JoinAndFree, MicInv, MicTypeOK, RecorderTypeOK, SrTypeOK, recorderVars, srVars
<1>3. DataInv'
  BY <1>1 DEF JoinAndFree, At, srVars,
       MicInv, DataInv, Moved, Threads, UserInv, QuietInv, FreedInv, StoppedInv, IsStopped,
       SessionInv, Over, Owned, StopPlaces, EndPlaces
<1> QED
  BY <1>1, <1>2, <1>3, MainThread, StepKeeps

LEMMA FinishStep ==
  ASSUME MicInv, Finish
  PROVE  MicInv'
<1>1. Moved("main", "done", stack["main"]) /\ CtlAt("main", "done", stack["main"])
  BY GoWithin DEF Finish, At, Threads, DemoPlaces, StartPlaces, ClosePlaces
<1>2. RecorderTypeOK' /\ SrTypeOK' /\ chunks' \in Nat
  BY DEF Finish, MicInv, MicTypeOK, RecorderTypeOK, SrTypeOK, recorderVars, srVars
<1>3. DataInv'
  BY <1>1 DEF Finish, At, srVars, recorderVars,
       MicInv, DataInv, Moved, Threads, UserInv, QuietInv, FreedInv, StoppedInv, IsStopped,
       SessionInv, Over, Owned, StopPlaces, EndPlaces
<1> QED
  BY <1>1, <1>2, <1>3, MainThread, StepKeeps

------------------------------------------------------------------------------
(* The thread of the recorder. *)

LEMMA RecThread == "rec" \in Threads
BY DEF Threads

LEMMA DieMoves ==
  ASSUME MicInv, Die("rec")
  PROVE  Moved("rec", "dead", <<>>) /\ CtlAt("rec", "dead", <<>>)
<1>1. CtlAt("rec", "dead", <<>>)
  BY DEF CtlAt, DemoPlaces, RecPlaces
<1>2. "dead" \in Places
  BY <1>1, RecThread, PlaceOf
<1> QED
  BY <1>1, <1>2, RecThread, MicTyped, Empty DEF Die, Moved, Typed

LEMMA TopStep ==
  ASSUME MicInv, Top, UNCHANGED <<srVars, chunks>>
  PROVE  MicInv'
<1>1. RecorderTypeOK' /\ SrTypeOK' /\ chunks' \in Nat
  BY DEF Top, MicInv, MicTypeOK, RecorderTypeOK, SrTypeOK, recorderVars, srVars
<1>2. CASE Die("rec")
  <2>1. Moved("rec", "dead", <<>>) /\ CtlAt("rec", "dead", <<>>)
    BY <1>2, DieMoves
  <2>2. DataInv'
    BY <2>1 DEF Top, At, srVars, recorderVars,
         MicInv, DataInv, Moved, Threads, UserInv, QuietInv, FreedInv, StoppedInv, IsStopped,
         SessionInv, Over, Owned, StopPlaces, EndPlaces
  <2> QED
    BY <1>1, <2>1, <2>2, RecThread, StepKeeps
<1>3. CASE \E l \in {"read", "nap"} : Goto("rec", l)
  <2>1. PICK l \in {"read", "nap"} : Goto("rec", l)
    BY <1>3
  <2>2. Moved("rec", l, stack["rec"]) /\ CtlAt("rec", l, stack["rec"])
    BY <2>1, GoWithin DEF Top, At, Threads, DemoPlaces, RecPlaces
  <2>3. DataInv'
    BY <2>2 DEF Top, At, srVars, recorderVars,
         MicInv, DataInv, Moved, Threads, UserInv, QuietInv, FreedInv, StoppedInv, IsStopped,
         SessionInv, Over, Owned, StopPlaces, EndPlaces
  <2> QED
    BY <1>1, <2>2, <2>3, RecThread, StepKeeps
<1> QED
  BY <1>2, <1>3 DEF Top

LEMMA NapStep ==
  ASSUME MicInv, Nap, UNCHANGED <<srVars, chunks>>
  PROVE  MicInv'
<1>1. RecorderTypeOK' /\ SrTypeOK' /\ chunks' \in Nat
  BY DEF Nap, MicInv, MicTypeOK, RecorderTypeOK, SrTypeOK, recorderVars, srVars
<1>2. Moved("rec", "read", stack["rec"]) /\ CtlAt("rec", "read", stack["rec"])
  BY GoWithin DEF Nap, At, Threads, DemoPlaces, RecPlaces
<1>3. DataInv'
  BY <1>2 DEF Nap, At, srVars, recorderVars,
       MicInv, DataInv, Moved, Threads, UserInv, QuietInv, FreedInv, StoppedInv, IsStopped,
       SessionInv, Over, Owned, StopPlaces, EndPlaces
<1> QED
  BY <1>1, <1>2, <1>3, RecThread, StepKeeps

LEMMA ReadStep ==
  ASSUME MicInv, Read, UNCHANGED <<srVars, chunks>>
  PROVE  MicInv'
<1>1. RecorderTypeOK' /\ SrTypeOK' /\ chunks' \in Nat
  BY DEF Read, MicInv, MicTypeOK, RecorderTypeOK, SrTypeOK, recorderVars, srVars
<1>2. CASE pcm = "running" /\ Goto("rec", "data") /\ UNCHANGED pcm
  <2>1. Moved("rec", "data", stack["rec"]) /\ CtlAt("rec", "data", stack["rec"])
    BY <1>2, GoWithin DEF Read, At, Threads, DemoPlaces, RecPlaces
  <2>2. DataInv'
    BY <1>2, <2>1 DEF Read, At, srVars,
         MicInv, DataInv, Moved, Threads, UserInv, QuietInv, FreedInv, StoppedInv, IsStopped,
         SessionInv, Over, Owned, StopPlaces, EndPlaces
  <2> QED
    BY <1>1, <2>1, <2>2, RecThread, StepKeeps
<1>3. CASE pcm \in {"running", "setup"} /\ Die("rec") /\ UNCHANGED pcm
  <2>1. Moved("rec", "dead", <<>>) /\ CtlAt("rec", "dead", <<>>)
    BY <1>3, DieMoves
  <2>2. DataInv'
    BY <1>3, <2>1 DEF Read, At, srVars,
         MicInv, DataInv, Moved, Threads, UserInv, QuietInv, FreedInv, StoppedInv, IsStopped,
         SessionInv, Over, Owned, StopPlaces, EndPlaces
  <2> QED
    BY <1>1, <2>1, <2>2, RecThread, StepKeeps
<1>4. CASE pcm = "running" /\ pcm' = "prepared" /\ UNCHANGED <<pc, stack>>
  <2>1. Moved("rec", pc["rec"], stack["rec"])
    BY <1>4, MicTyped, RecThread DEF Moved, Typed
  <2>2. CtlAt("rec", pc["rec"], stack["rec"])
    BY RecThread DEF MicInv, ControlInv
  <2>3. DataInv'
    BY <1>4, <2>1 DEF Read, At, srVars,
         MicInv, DataInv, Moved, Threads, UserInv, QuietInv, FreedInv, StoppedInv, IsStopped,
         SessionInv, Over, Owned, StopPlaces, EndPlaces
  <2> QED
    BY <1>1, <2>1, <2>2, <2>3, RecThread, StepKeeps
<1> QED
  BY <1>2, <1>3, <1>4 DEF Read

LEMMA DataStep ==
  ASSUME MicInv, Data, UNCHANGED chunks
  PROVE  MicInv'
<1>1. RecorderTypeOK' /\ SrTypeOK' /\ chunks' \in Nat
  BY DEF Data, MicInv, MicTypeOK, RecorderTypeOK, SrTypeOK, recorderVars, srVars
<1>2. CASE ep_stat # "speech" \/ ~started
  <2>1. Moved("rec", "top", stack["rec"]) /\ CtlAt("rec", "top", stack["rec"])
    BY <1>2, GoWithin DEF Data, At, Threads, DemoPlaces, RecPlaces
  <2>2. DataInv'
    BY <2>1 DEF Data, At, srVars, recorderVars,
         MicInv, DataInv, Moved, Threads, UserInv, QuietInv, FreedInv, StoppedInv, IsStopped,
         SessionInv, Over, Owned, StopPlaces, EndPlaces
  <2> QED
    BY <1>1, <2>1, <2>2, RecThread, StepKeeps
<1>3. CASE ~(ep_stat # "speech" \/ ~started)
  <2> DEFINE s == Push("top", "dataFails", stack["rec"])
  <2>1. stack["rec"] = <<>> /\ "top" \in Places /\ "dataFails" \in Places
    BY StackOf, RecThread DEF Data, At, Places, DemoPlaces, RecPlaces
  <2>2. CtlAt("rec", "write", s)
    BY <2>1 DEF CtlAt, Writes, WritePlaces
  <2>3. Moved("rec", "write", s)
    BY <1>3, <2>1, <2>2, RecThread, CallInto DEF Data
  <2> HIDE DEF s
  <2>4. DataInv'
    BY <2>3 DEF Data, At, srVars, recorderVars,
         MicInv, DataInv, Moved, Threads, UserInv, QuietInv, FreedInv, StoppedInv, IsStopped,
         SessionInv, Over, Owned, StopPlaces, EndPlaces
  <2> QED
    BY <1>1, <2>2, <2>3, <2>4, RecThread, StepKeeps
<1> QED
  BY <1>2, <1>3

LEMMA DataFailsStep ==
  ASSUME MicInv, DataFails, UNCHANGED chunks
  PROVE  MicInv'
<1> DEFINE s == Push("top", "top", stack["rec"])
<1>1. stack["rec"] = <<>> /\ "top" \in Places /\ "top" \in Places
  BY StackOf, RecThread DEF DataFails, At, Places, DemoPlaces, RecPlaces
<1>2. CtlAt("rec", "error", s)
  BY <1>1 DEF CtlAt, Errors, ErrorPlaces
<1>3. Moved("rec", "error", s)
  BY <1>1, <1>2, RecThread, CallInto DEF DataFails
<1> HIDE DEF s
<1>4. RecorderTypeOK' /\ SrTypeOK' /\ chunks' \in Nat
  BY DEF DataFails, MicInv, MicTypeOK, RecorderTypeOK, SrTypeOK, recorderVars, srVars
<1>5. DataInv'
  BY <1>3 DEF DataFails, At, srVars, recorderVars,
       MicInv, DataInv, Moved, Threads, UserInv, QuietInv, FreedInv, StoppedInv, IsStopped,
       SessionInv, Over, Owned, StopPlaces, EndPlaces
<1> QED
  BY <1>2, <1>3, <1>4, <1>5, RecThread, StepKeeps

LEMMA CancelledStep ==
  ASSUME MicInv, Cancelled, UNCHANGED <<srVars, chunks>>
  PROVE  MicInv'
<1>1. RecorderTypeOK' /\ SrTypeOK' /\ chunks' \in Nat
  BY DEF Cancelled, MicInv, MicTypeOK, RecorderTypeOK, SrTypeOK, recorderVars, srVars
<1>2. Moved("rec", "dead", <<>>) /\ CtlAt("rec", "dead", <<>>)
  BY DieMoves DEF Cancelled
<1>3. DataInv'
  BY <1>2 DEF Cancelled, srVars, recorderVars,
       MicInv, DataInv, Moved, Threads, UserInv, QuietInv, FreedInv, StoppedInv, IsStopped,
       SessionInv, Over, Owned, StopPlaces, EndPlaces
<1> QED
  BY <1>1, <1>2, <1>3, RecThread, StepKeeps

------------------------------------------------------------------------------
(* The whole program. *)

LEMMA MicInitially == ASSUME MicInit PROVE MicInv
<1>1. pc["main"] = "init" /\ pc["rec"] = "none" /\ \A t \in Threads : stack[t] = <<>>
  BY DEF MicInit, Threads
<1>2. CtlAt("main", "init", <<>>) /\ CtlAt("rec", "none", <<>>)
  BY DEF CtlAt, DemoPlaces, RecPlaces
<1>3. ControlInv
  BY <1>1, <1>2 DEF ControlInv, Threads
<1>4. "init" \in Places /\ "none" \in Places
  BY <1>2, PlaceOf, MainThread, RecThread
<1>5. pc \in [Threads -> Places] /\ stack \in [Threads -> Seq(Frame)]
  BY <1>4, Empty DEF MicInit, Threads
<1>6. RecorderTypeOK
  BY DEF MicInit, RecorderInit, RecorderTypeOK
<1>7. SrTypeOK
  BY DEF MicInit, SrInit, SrTypeOK, EpStats
<1>8. MicTypeOK
  BY <1>5, <1>6, <1>7, ChunksAssumption DEF MicTypeOK, Frame, MicInit
<1>9. DataInv
  BY <1>1 DEF MicInit, RecorderInit, SrInit, DataInv, Threads, UserInv, QuietInv, FreedInv,
     StoppedInv, SessionInv, Over, Owned, StopPlaces
<1> QED
  BY <1>3, <1>8, <1>9 DEF MicInv, DataInv

LEMMA ProceduresStep ==
  ASSUME MicInv, NEW t \in Threads, Procedures(t), UNCHANGED chunks
  PROVE  MicInv'
<1>1. CASE (StopTest(t) \/ StopStore(t) \/ StopDrop(t) \/ StopReady(t)) /\ UNCHANGED srVars
  BY <1>1, StopTestStep, StopStoreStep, StopDropStep, StopReadyStep
<1>2. CASE ErrorStop(t) \/ ErrorEnd(t) \/ ErrorInit(t)
  BY <1>2, ErrorStopStep, ErrorEndStep, ErrorInitStep
<1>3. CASE VadStop(t) \/ VadReset(t) \/ VadEnd(t)
  BY <1>3, VadStopStep, VadResetStep, VadEndStep
<1>4. CASE WriteData(t) \/ Partial(t) \/ Written(t) \/ WriteFails(t)
  BY <1>4, WriteDataStep, PartialStep, WrittenStep, WriteFailsStep
<1> QED
  BY <1>1, <1>2, <1>3, <1>4 DEF Procedures

LEMMA MainStep == ASSUME MicInv, Main PROVE MicInv'
<1>1. CASE Start
  <2>1. CASE SpeechBegin(IF src = "mic" THEN "listen" ELSE "feed") /\ UNCHANGED chunks
    BY <2>1, SpeechBeginStep
  <2> QED
    BY <1>1, <2>1, BeginStep, RecordStep, RecordingStep, StartedStep DEF Start
<1>2. CASE Init \/ Listen \/ Feed \/ ExitFile \/ Finish
  BY <1>2, InitStep, ListenStep, FeedStep, ExitFileStep, FinishStep
<1>3. CASE (Close \/ Cancel \/ JoinAndFree) /\ UNCHANGED <<srVars, chunks>>
  BY <1>3, CloseStep, CancelStep, JoinAndFreeStep
<1>4. CASE Procedures("main") /\ UNCHANGED chunks
  BY <1>4, MainThread, ProceduresStep
<1>5. CASE (StopListening \/ StopFails \/ Await \/ Stopped) /\ UNCHANGED chunks
  BY <1>5, StopListeningStep, StopFailsStep, AwaitStep, StoppedStep
<1>6. CASE (WriteLast \/ ResultFails \/ ResultEnd \/ Uninit) /\ UNCHANGED chunks
  BY <1>6, WriteLastStep, ResultFailsStep, ResultEndStep, UninitStep
<1> QED
  BY <1>1, <1>2, <1>3, <1>4, <1>5, <1>6 DEF Main

LEMMA RecStep == ASSUME MicInv, Rec PROVE MicInv'
<1>1. CASE (Top \/ Nap \/ Read) /\ UNCHANGED <<srVars, chunks>>
  BY <1>1, TopStep, NapStep, ReadStep
<1>2. CASE (Procedures("rec") \/ Data \/ DataFails) /\ UNCHANGED chunks
  BY <1>2, RecThread, ProceduresStep, DataStep, DataFailsStep
<1> QED
  BY <1>1, <1>2 DEF Rec

LEMMA MicNextKeeps == ASSUME MicInv, [MicNext]_micVars PROVE MicInv'
<1>1. CASE Main
  BY <1>1, MainStep
<1>2. CASE Rec
  BY <1>2, RecStep
<1>3. CASE Engine
  BY <1>3, ResultStep, VadResultStep DEF Engine
<1>4. CASE Kernel
  BY <1>4, CancelledStep DEF Kernel
<1>5. CASE UNCHANGED micVars
  <2>1. UNCHANGED <<pc, stack, recorderVars, srVars, chunks>>
    BY <1>5 DEF micVars
  <2>2. MicTypeOK'
    <3>1. RecorderTypeOK'
      BY <2>1 DEF MicInv, MicTypeOK, RecorderTypeOK, recorderVars
    <3>2. SrTypeOK'
      BY <2>1 DEF MicInv, MicTypeOK, SrTypeOK, srVars
    <3> QED
      BY <2>1, <3>1, <3>2 DEF MicInv, MicTypeOK
  <2>3. ControlInv'
    BY <2>1 DEF MicInv, ControlInv
  <2>4. DataInv'
    BY <2>1 DEF MicInv, DataInv, UserInv, QuietInv, FreedInv, StoppedInv, IsStopped,
       SessionInv, Over, Owned, recorderVars, srVars
  <2> QED
    BY <2>2, <2>3, <2>4 DEF MicInv, DataInv
<1> QED
  BY <1>1, <1>2, <1>3, <1>4, <1>5 DEF MicNext

(* The inductive invariant: in which procedure each thread is and for whom,   *)
(* and what that says about the device, the recorder and the session.         *)
THEOREM MicInvariance == MicSpec => []MicInv
<1>1. MicInit => MicInv
  BY MicInitially
<1>2. MicInv /\ [MicNext]_micVars => MicInv'
  BY MicNextKeeps
<1> QED
  BY <1>1, <1>2, PTL DEF MicSpec

(* Every place a call returns to is one the program has: no procedure returns *)
(* to a frame another one has pushed.                                         *)
THEOREM MicTypeCorrect == MicSpec => []MicTypeOK
<1>1. MicInv => MicTypeOK
  BY DEF MicInv
<1> QED
  BY <1>1, MicInvariance, PTL

(* close_recorder (linuxrec.c) releases handle, buffer and recorder only when *)
(* the thread that uses them has ended, whichever of the two stopped the      *)
(* device and wherever the cancellation found the thread.                     *)
THEOREM RecorderJoined == MicSpec => []NoUseAfterFree
<1>1. MicInv => NoUseAfterFree
  BY DEF MicInv, FreedInv, NoUseAfterFree
<1> QED
  BY <1>1, MicInvariance, PTL

(* sr_start_listening's session has been ended by sr_stop_listening, by       *)
(* end_sr_on_vad or by end_sr_on_error when the demo returns, unless the      *)
(* device did not stop and sr_stop_listening gave up (speech_recognizer.c).   *)
THEOREM MicSessionsEnded == MicSpec => []SessionsEnded
<1>1. MicInv => SessionsEnded
  BY DEF MicInv, SessionInv, Over, SessionsEnded
<1> QED
  BY <1>1, MicInvariance, PTL

(* sr_stop_listening passes the last block only after wait_for_rec_stop, and  *)
(* no one starts the device again.                                            *)
THEOREM LastBlockAfterStop == MicSpec => []LastAfterStop
<1>1. MicInv => LastAfterStop
  BY DEF MicInv, StoppedInv, LastAfterStop
<1> QED
  BY <1>1, MicInvariance, PTL
============================================================================
