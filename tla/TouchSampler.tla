---------------------------- MODULE TouchSampler ----------------------------
(* How ts_pthread makes touches out of the samples of the touch screen.  The  *)
(* driver queues a sample when the finger is put down, while it moves and     *)
(* when it is lifted; getPos takes one sample; the loop looks only at changes *)
(* of the pressure.  The queue matters because T does not read while it draws *)
(* or sleeps in a page's handler: the samples of later strokes wait.          *)
EXTENDS TouchTargets, Sequences

CONSTANTS
  Points,      \* places on the screen, records [x, y]
  FirstPress,  \* what the uninitialised press may hold when T starts
  MaxQueue,    \* bound: samples waiting in the driver
  MaxStrokes   \* bound: strokes the user makes

ASSUME PointsAssumption == Points \subseteq [x : 0..800, y : 0..480]
ASSUME FirstPressAssumption == FirstPress \subseteq {0, 200, 1}
ASSUME BoundsAssumption == MaxQueue \in Nat /\ MaxStrokes \in Nat

(* The screen reports one pressure for a finger, the 200 of main.c:694. *)
Down == 200
Up == 0

VARIABLES
  queue,           \* samples the driver holds
  finger, start,   \* whether the finger is down, and where it was put down
  pos, press,      \* T: a, b and press, as the last successful read left them
  last, lastPress, \* T: last_a, last_b and lastPress
  touches,         \* the touches T gave to a page's handler
  strokes          \* the strokes the user completed, as touches

samplerVars == <<queue, finger, start, pos, press, last, lastPress, touches, strokes>>
userVars == <<finger, start, strokes>>
threadVars == <<pos, press, last, lastPress, touches>>

TouchOf(from, to) == [a |-> to.x, b |-> to.y, dx |-> to.x - from.x, dy |-> from.y - to.y]

(* a, b, press, last_a and last_b are not initialised (main.c:679-681); a 1   *)
(* in FirstPress stands for any pressure that is neither up nor down.         *)
SamplerInit ==
  /\ queue = <<>>
  /\ finger = FALSE /\ start \in Points
  /\ pos \in Points /\ press \in FirstPress
  /\ last \in Points
  /\ lastPress = Up
  /\ touches = <<>> /\ strokes = <<>>

------------------------------------------------------------------------------
(* The user and the driver. *)

Sampled(p, pressure) == /\ Len(queue) < MaxQueue
                        /\ queue' = Append(queue, [pos |-> p, pressure |-> pressure])
                        /\ UNCHANGED threadVars

PutDown(p) == /\ ~finger /\ Len(strokes) < MaxStrokes
              /\ finger' = TRUE /\ start' = p
              /\ Sampled(p, Down)
              /\ UNCHANGED strokes

Move(p) == finger /\ Sampled(p, Down) /\ UNCHANGED userVars

Lift(p) == /\ finger
           /\ finger' = FALSE
           /\ strokes' = Append(strokes, TouchOf(start, p))
           /\ Sampled(p, Up)
           /\ UNCHANGED start

------------------------------------------------------------------------------
(* Faulty variants of Turn: every sample of a finger moves the start; and the *)
(* last pressure is not remembered.                                           *)
TurnFollowing(p, pr) ==
  /\ pos' = p /\ press' = pr /\ lastPress' = pr
  /\ last' = IF pr = Down THEN p ELSE last
  /\ touches' = IF pr # lastPress /\ pr # Down THEN Append(touches, TouchOf(last, p))
                                               ELSE touches
TurnForgetful(p, pr) ==
  /\ pos' = p /\ press' = pr /\ UNCHANGED lastPress
  /\ last' = IF pr # lastPress /\ pr = Down THEN p ELSE last
  /\ touches' = IF pr # lastPress /\ pr # Down THEN Append(touches, TouchOf(last, p))
                                               ELSE touches

(* One turn of the loop of ts_pthread, after getPos left p and pr.  The       *)
(* handler of a page is called with the touch (actions Touched and TStep of   *)
(* module ArmTouch).                                                          *)
Turn(p, pr) ==
  /\ pos' = p /\ press' = pr
  /\ lastPress' = pr
  /\ last' = IF pr # lastPress /\ pr = Down THEN p ELSE last
  /\ touches' = IF pr # lastPress /\ pr # Down THEN Append(touches, TouchOf(last, p))
                                               ELSE touches

Sample == /\ queue # <<>>
          /\ Turn(Head(queue).pos, Head(queue).pressure)
          /\ queue' = Tail(queue)
          /\ UNCHANGED userVars

(* getPos reports the error and leaves a, b and press as they are. *)
SampleFails == /\ Turn(pos, press)
               /\ UNCHANGED <<queue, userVars>>

SamplerNext == \/ Sample
               \/ SampleFails
               \/ \E p \in Points : PutDown(p) \/ Move(p) \/ Lift(p)

SamplerSpec == SamplerInit /\ [][SamplerNext]_samplerVars /\ WF_samplerVars(Sample)

------------------------------------------------------------------------------
(* However far T lags behind the finger, it hands out one touch per stroke,   *)
(* in order, with the offset between where the finger was put down and where  *)
(* it was lifted (main.c:690-704; section 3.5 of the report).                 *)
OneTouchPerStroke == /\ Len(touches) <= Len(strokes)
                     /\ \A i \in DOMAIN touches : touches[i] = strokes[i]

(* No stroke is dropped, although only changes of the pressure are looked at. *)
StrokesHandled == \A n \in 1..MaxStrokes : Len(strokes) = n ~> Len(touches) >= n

(* What proc_ts_pic makes of a slanted stroke, without the truncating         *)
(* division of main.c:229: it is horizontal in a lopsided sector, between the  *)
(* slopes -2 and 1.                                                           *)
InSector(t) == LET run == Abs(t.dx)
                   rise == IF t.dx < 0 THEN -t.dy ELSE t.dy
               IN t.dx # 0 /\ -2 * run < rise /\ rise < run

GestureIsSector ==
  \A i \in DOMAIN touches :
    ~Still(touches[i]) => (Horizontal(touches[i]) <=> InSector(touches[i]))
=============================================================================
