---------------------------- MODULE TouchProofs ----------------------------
(* What holds of every touch and every stroke, not only of those TLC tries.   *)
EXTENDS TouchSampler, SequenceTheorems, TLAPS

LEMMA TouchIsNumbers ==
  ASSUME NEW t \in Touch
  PROVE  t.a \in Int /\ t.b \in Int /\ t.dx \in Int /\ t.dy \in Int
<1>1. t.a \in 0..800
  BY DEF Touch
<1>2. t.b \in 0..480
  BY DEF Touch
<1>3. t.dx \in -800..800
  BY DEF Touch
<1>4. t.dy \in -480..480
  BY DEF Touch
<1>5. \A n : n \in 0..800 \/ n \in 0..480 \/ n \in -800..800 \/ n \in -480..480 => n \in Int
  OBVIOUS
<1> QED
  BY <1>1, <1>2, <1>3, <1>4, <1>5

(* No touch is in two targets of the main menu, so the order of the else-ifs  *)
(* of proc_ts_main does not matter (main.c:160-184).                          *)
THEOREM MainTargetUnique ==
  ASSUME NEW t \in Touch, NEW p \in MainTarget(t), NEW q \in MainTarget(t)
  PROVE  p = q
<1>1. t.a \in Int /\ t.b \in Int
  BY TouchIsNumbers
<1>2. InTile(t, "PIC")   => 440 <= t.a /\ t.a <= 520 /\ 285 <= t.b
  BY <1>1 DEF InTile, TileLeft
<1>3. InTile(t, "MUSIC") => 280 <= t.a /\ t.a <= 360 /\ 285 <= t.b
  BY <1>1 DEF InTile, TileLeft
<1>4. InTile(t, "VIDEO") => 120 <= t.a /\ t.a <= 200 /\ 285 <= t.b
  BY <1>1 DEF InTile, TileLeft
<1>5. InTile(t, "VOICE") => 605 <= t.a /\ t.a <= 685 /\ 285 <= t.b
  BY <1>1 DEF InTile, TileLeft
<1>6. InShutdown(t) => t.b <= 80
  BY <1>1 DEF InShutdown
<1>7. DOMAIN TileLeft = {"PIC", "MUSIC", "VIDEO", "VOICE"}
  BY DEF TileLeft
<1>8. \A r \in MainTarget(t) :
        \/ r \in {"PIC", "MUSIC", "VIDEO", "VOICE"} /\ InTile(t, r)
        \/ r = "END" /\ InShutdown(t)
  BY <1>7 DEF MainTarget
<1> QED
  BY <1>1, <1>2, <1>3, <1>4, <1>5, <1>6, <1>8

(* No touch is on two buttons of a player page (main.c:396-431, 515-550).     *)
THEOREM ButtonsDisjoint ==
  ASSUME NEW t \in Touch, NEW page \in {"MUSIC", "VIDEO"}
  PROVE  /\ PlayButton(t) => ~PrevButton(t) /\ ~NextButton(t) /\ ~BackButton(t, page)
         /\ PrevButton(t) => ~NextButton(t) /\ ~BackButton(t, page)
         /\ NextButton(t) => ~BackButton(t, page)
<1>1. t.a \in Int /\ t.b \in Int
  BY TouchIsNumbers
<1> QED
  BY <1>1 DEF PlayButton, PrevButton, NextButton, BackButton, OnButton

(* The back button of the voice page does nothing: showBackButton draws it in *)
(* the top right corner (pichandler.c:285-289, main.c:644), proc_ts_voice     *)
(* only takes the top left one (main.c:635).                                  *)
THEOREM VoiceBackDead ==
  ASSUME NEW t \in Touch, BackDrawn(t)
  PROVE  ~VoiceBack(t)
<1>1. t.a \in Int
  BY TouchIsNumbers
<1> QED
  BY <1>1 DEF BackDrawn, VoiceBack

------------------------------------------------------------------------------
LEMMA Quotient ==
  ASSUME NEW x \in Nat, NEW y \in Nat \ {0}
  PROVE  /\ x \div y \in Nat
         /\ x \div y < 1 <=> x < y
         /\ x \div y <= 1 <=> x < 2 * y
<1> DEFINE q == x \div y
<1>1. q \in Nat /\ y * q <= x /\ x < y * q + y
  BY Z3
<1>2. \A k \in Nat : k >= 1 => y * k >= y
  BY Z3
<1>3. \A k \in Nat : k >= 2 => y * k >= 2 * y
  BY Z3
<1> HIDE DEF q
<1>4. q < 1 <=> x < y
  <2>1. CASE q = 0
    BY <1>1, <2>1, Z3
  <2>2. CASE q # 0
    BY <1>1, <1>2, <2>2, Z3
  <2> QED
    BY <2>1, <2>2
<1>5. q <= 1 <=> x < 2 * y
  <2>1. CASE q = 0
    BY <1>1, <2>1, Z3
  <2>2. CASE q = 1
    BY <1>1, <2>2, Z3
  <2>3. CASE q # 0 /\ q # 1
    <3>1. y * q >= 2 * y
      BY <1>1, <1>3, <2>3, Z3
    <3> QED
      BY <1>1, <2>3, <3>1, Z3
  <2> QED
    BY <2>1, <2>2, <2>3
<1> QED
  BY <1>1, <1>4, <1>5 DEF q

(* The sector of the album's horizontal strokes, without the division of      *)
(* main.c:229.                                                                *)
LEMMA SectorOfStroke ==
  ASSUME NEW t, t.dx \in Int, t.dy \in Int, ~Still(t)
  PROVE  Horizontal(t) <=> InSector(t)
<1> DEFINE run == Abs(t.dx)
           rise == Abs(t.dy)
<1>1. run \in Nat /\ rise \in Nat /\ (t.dx # 0 <=> run # 0) /\ (t.dy # 0 <=> rise # 0)
  BY DEF Abs
<1>2. CASE t.dx = 0
  BY <1>2 DEF Horizontal, InSector
<1>3. CASE t.dx # 0 /\ t.dy = 0
  BY <1>3 DEF Horizontal, InSector, Abs
<1>4. CASE t.dx # 0 /\ t.dy # 0
  <2> DEFINE q == rise \div run
  <2>1. q \in Nat /\ (q < 1 <=> rise < run) /\ (q <= 1 <=> rise < 2 * run)
    BY <1>1, <1>4, Quotient
  <2>2. Horizontal(t) <=> TruncDiv(t.dy, t.dx) >= -1 /\ TruncDiv(t.dy, t.dx) < 1
    BY <1>4 DEF Horizontal
  <2>3. TruncDiv(t.dy, t.dx) = IF (t.dy < 0) = (t.dx < 0) THEN q ELSE -q
    BY DEF TruncDiv
  <2>4. Horizontal(t) <=> IF (t.dy < 0) = (t.dx < 0) THEN q < 1 ELSE q <= 1
    <3> HIDE DEF q
    <3> QED
      BY <2>1, <2>2, <2>3
  <2>5. InSector(t) <=> IF (t.dy < 0) = (t.dx < 0) THEN rise < run ELSE rise < 2 * run
    BY <1>4 DEF InSector, Abs
  <2> HIDE DEF q
  <2> QED
    BY <2>1, <2>4, <2>5
<1> QED
  BY <1>2, <1>3, <1>4

------------------------------------------------------------------------------
(* The sampler only hands out touches between points of the screen. *)
SamplerTypeOK ==
  /\ queue \in Seq([pos : Points, pressure : {Up, Down}])
  /\ start \in Points /\ pos \in Points /\ last \in Points
  /\ touches \in Seq(Touch)

LEMMA TouchOfType ==
  ASSUME NEW p \in Points, NEW q \in Points
  PROVE  TouchOf(p, q) \in Touch
<1> DEFINE px == p.x
           py == p.y
           qx == q.x
           qy == q.y
<1>1. px \in 0..800 /\ py \in 0..480 /\ qx \in 0..800 /\ qy \in 0..480
  BY PointsAssumption
<1> HIDE DEF px, py, qx, qy
<1>2. qx - px \in -800..800
  BY <1>1
<1>3. py - qy \in -480..480
  BY <1>1
<1>4. \A a, b, x, y : a \in 0..800 /\ b \in 0..480 /\ x \in -800..800 /\ y \in -480..480
                    => [a |-> a, b |-> b, dx |-> x, dy |-> y] \in Touch
  BY DEF Touch
<1> QED
  BY <1>1, <1>2, <1>3, <1>4 DEF TouchOf, px, py, qx, qy

LEMMA TurnType ==
  ASSUME SamplerTypeOK, NEW p \in Points, NEW pr, Turn(p, pr)
  PROVE  pos' \in Points /\ last' \in Points /\ touches' \in Seq(Touch)
<1>1. TouchOf(last, p) \in Touch
  BY TouchOfType DEF SamplerTypeOK
<1> QED
  BY <1>1 DEF Turn, SamplerTypeOK

LEMMA SamplerTyped == SamplerSpec => []SamplerTypeOK
<1>1. SamplerInit => SamplerTypeOK
  BY DEF SamplerInit, SamplerTypeOK
<1>2. SamplerTypeOK /\ [SamplerNext]_samplerVars => SamplerTypeOK'
  <2> SUFFICES ASSUME SamplerTypeOK, [SamplerNext]_samplerVars PROVE SamplerTypeOK'
    OBVIOUS
  <2>1. CASE Sample
    <3> DEFINE Samples == [pos : Points, pressure : {Up, Down}]
    <3>1. Head(queue) \in Samples /\ Tail(queue) \in Seq(Samples)
      <4>1. queue \in Seq(Samples) /\ queue # <<>>
        BY <2>1 DEF Sample, SamplerTypeOK
      <4> HIDE DEF Samples
      <4> QED
        BY <4>1, HeadTailProperties
    <3>2. pos' \in Points /\ last' \in Points /\ touches' \in Seq(Touch)
      BY <2>1, <3>1, TurnType DEF Sample
    <3> QED
      BY <2>1, <3>1, <3>2 DEF Sample, SamplerTypeOK, userVars
  <2>2. CASE SampleFails
    <3>1. pos' \in Points /\ last' \in Points /\ touches' \in Seq(Touch)
      BY <2>2, TurnType DEF SampleFails, SamplerTypeOK
    <3> QED
      BY <2>2, <3>1 DEF SampleFails, SamplerTypeOK, userVars
  <2>3. ASSUME NEW p \in Points, PutDown(p) \/ Move(p) \/ Lift(p) PROVE SamplerTypeOK'
    <3>1. PICK pr \in {Up, Down} : queue' = Append(queue, [pos |-> p, pressure |-> pr])
      BY <2>3 DEF PutDown, Move, Lift, Sampled
    <3>2. queue' \in Seq([pos : Points, pressure : {Up, Down}])
      BY <3>1 DEF SamplerTypeOK
    <3>3. start' \in Points /\ UNCHANGED threadVars
      BY <2>3 DEF PutDown, Move, Lift, Sampled, SamplerTypeOK, userVars
    <3> QED
      BY <3>2, <3>3 DEF SamplerTypeOK, threadVars
  <2>4. CASE UNCHANGED samplerVars
    BY <2>4 DEF SamplerTypeOK, samplerVars
  <2> QED
    BY <2>1, <2>2, <2>3, <2>4 DEF SamplerNext
<1> QED
  BY <1>1, <1>2, PTL DEF SamplerSpec

(* For every screen and every stroke the classifier is the sector between the *)
(* slopes -2 and 1 (main.c:227-248).                                          *)
THEOREM GesturesAreSectors == SamplerSpec => []GestureIsSector
<1>1. SamplerTypeOK => GestureIsSector
  <2> SUFFICES ASSUME SamplerTypeOK, NEW i \in DOMAIN touches, ~Still(touches[i])
               PROVE  Horizontal(touches[i]) <=> InSector(touches[i])
    BY DEF GestureIsSector
  <2>1. touches[i] \in Touch
    BY DEF SamplerTypeOK
  <2>2. touches[i].dx \in Int /\ touches[i].dy \in Int
    BY <2>1, TouchIsNumbers
  <2> QED
    BY <2>2, SectorOfStroke
<1> QED
  BY <1>1, SamplerTyped, PTL

------------------------------------------------------------------------------
(* However far T lags behind, the samples that wait in the driver are those   *)
(* of the strokes T has not handed out yet.  Replayed(n, from) says so without *)
(* running T: after the k-th waiting sample it will have handed out n[k]      *)
(* touches and will remember from[k] as the start of the last stroke.         *)
Pressure(k) == IF k = 0 THEN lastPress ELSE queue[k].pressure
Replays(k, n, from) ==
  \/ /\ queue[k].pressure = Up /\ Pressure(k - 1) = Down
     /\ n[k] = n[k - 1] + 1 /\ from[k] = from[k - 1]
     /\ strokes[n[k]] = TouchOf(from[k], queue[k].pos)
  \/ /\ queue[k].pressure = Down
     /\ n[k] = n[k - 1]
     /\ from[k] = IF Pressure(k - 1) = Up THEN queue[k].pos ELSE from[k - 1]
Replayed(n, from) ==
  /\ n[0] = Len(touches) /\ from[0] = last
  /\ \A k \in 1..Len(queue) : Replays(k, n, from)
  /\ n[Len(queue)] = Len(strokes)
  /\ finger <=> Pressure(Len(queue)) = Down
  /\ finger => from[Len(queue)] = start

Counts == [0..Len(queue) -> 0..Len(strokes)]
Starts == [0..Len(queue) -> Points]

StrokesTyped == /\ SamplerTypeOK
                /\ strokes \in Seq(Touch)
                /\ finger \in BOOLEAN /\ lastPress \in {Up, Down}

ReplayInv ==
  /\ StrokesTyped
  /\ OneTouchPerStroke
  /\ \E n \in Counts, from \in Starts : Replayed(n, from)

(* The next sample that waits, handed to the loop of ts_pthread. *)
LEMMA NextSampleTurns ==
  ASSUME StrokesTyped, OneTouchPerStroke, NEW n \in Counts, NEW from \in Starts,
         Replayed(n, from), queue # <<>>, UNCHANGED strokes,
         Turn(queue[1].pos, queue[1].pressure)
  PROVE  /\ Len(touches') = n[1] /\ last' = from[1] /\ lastPress' = queue[1].pressure
         /\ OneTouchPerStroke'
<1> DEFINE p == queue[1].pos
           pr == queue[1].pressure
<1>1. Len(queue) \in Nat /\ Len(queue) >= 1 /\ Len(strokes) \in Nat /\ touches \in Seq(Touch)
  BY DEF StrokesTyped, SamplerTypeOK
<1>2. /\ Replays(1, n, from) /\ Pressure(0) = lastPress
      /\ n[0] = Len(touches) /\ from[0] = last /\ n[1] \in 0..Len(strokes)
  BY <1>1 DEF Replayed, Counts, Pressure
<1>3. /\ lastPress' = pr /\ Up # Down
      /\ last' = IF pr # lastPress /\ pr = Down THEN p ELSE last
      /\ touches' = IF pr # lastPress /\ pr # Down THEN Append(touches, TouchOf(last, p))
                                                   ELSE touches
  BY DEF Turn, Up, Down
<1>4. CASE pr = Up
  <2>1. /\ lastPress = Down /\ n[1] = Len(touches) + 1 /\ from[1] = last
        /\ strokes[n[1]] = TouchOf(last, p)
    BY <1>2, <1>3, <1>4 DEF Replays
  <2>2. last' = last /\ touches' = Append(touches, TouchOf(last, p))
    BY <1>3, <1>4, <2>1
  <2> DEFINE t == TouchOf(last, p)
  <2> HIDE DEF t
  <2>3. /\ Len(touches') = n[1]
        /\ \A i \in 1..n[1] : touches'[i] = IF i <= Len(touches) THEN touches[i] ELSE t
    <3>1. touches' = Append(touches, t) /\ n[1] = Len(touches) + 1
      BY <2>1, <2>2 DEF t
    <3> QED
      BY <1>1, <3>1
  <2>4. OneTouchPerStroke'
    <3>1. \A i \in 1..n[1] : touches'[i] = strokes[i]
      <4> SUFFICES ASSUME NEW i \in 1..n[1] PROVE touches'[i] = strokes[i]
        OBVIOUS
      <4>1. CASE i <= Len(touches)
        BY <1>1, <2>3, <4>1 DEF OneTouchPerStroke
      <4>2. CASE ~(i <= Len(touches))
        <5>1. i = n[1]
          BY <1>1, <1>2, <2>1, <4>2
        <5> QED
          BY <2>1, <2>3, <4>2, <5>1 DEF t
      <4> QED
        BY <4>1, <4>2
    <3>2. DOMAIN touches' = 1..n[1] /\ Len(touches') <= Len(strokes)
      <4>1. touches' \in Seq(Touch \cup {t})
        BY <1>1, <2>2 DEF t
      <4> QED
        BY <1>1, <1>2, <2>3, <4>1
    <3> QED
      BY <3>1, <3>2 DEF OneTouchPerStroke
  <2> QED
    BY <1>3, <2>1, <2>2, <2>3, <2>4
<1>5. CASE pr = Down
  <2>1. n[1] = Len(touches) /\ from[1] = IF lastPress = Up THEN p ELSE last
    BY <1>2, <1>3, <1>5 DEF Replays
  <2>2. touches' = touches /\ last' = from[1]
    BY <1>3, <1>5, <2>1 DEF StrokesTyped
  <2> QED
    BY <1>3, <2>1, <2>2 DEF OneTouchPerStroke
<1> QED
  BY <1>2, <1>4, <1>5 DEF Replays

LEMMA SampleReplays ==
  ASSUME ReplayInv, Sample, StrokesTyped'
  PROVE  ReplayInv'
<1> DEFINE Samples == [pos : Points, pressure : {Up, Down}]
<1>1. PICK n \in Counts, from \in Starts : Replayed(n, from)
  BY DEF ReplayInv
<1>2. queue \in Seq(Samples) /\ queue # <<>> /\ StrokesTyped
  BY DEF ReplayInv, StrokesTyped, SamplerTypeOK, Sample
<1>3. PICK L \in Nat : L = Len(queue)
  BY <1>2
<1>4. /\ L >= 1 /\ Head(queue) = queue[1]
      /\ Len(queue') = L - 1
      /\ \A k \in 1..L - 1 : queue'[k] = queue[k + 1]
  <2> HIDE DEF Samples
  <2>1. queue' = Tail(queue)
    BY DEF Sample
  <2>2. L >= 1 /\ Head(queue) = queue[1]
    BY <1>2, <1>3
  <2> QED
    BY <1>2, <1>3, <2>1, <2>2, HeadTailProperties
<1>5. UNCHANGED <<strokes, finger, start>> /\ Turn(queue[1].pos, queue[1].pressure)
  BY <1>4 DEF Sample, userVars
<1>6. /\ Len(touches') = n[1] /\ last' = from[1] /\ lastPress' = queue[1].pressure
      /\ OneTouchPerStroke'
  BY <1>1, <1>2, <1>5, NextSampleTurns DEF ReplayInv
<1>7. /\ \A k \in 0..L : n[k] \in 0..Len(strokes) /\ from[k] \in Points
      /\ n[L] = Len(strokes)
      /\ \A k \in 1..L : Replays(k, n, from)
      /\ (finger <=> Pressure(L) = Down) /\ (finger => from[L] = start)
  BY <1>1, <1>3 DEF Replayed, Counts, Starts
<1>8. \E m \in Counts', f \in Starts' :
         \A k \in 0..L - 1 : m[k] = n[k + 1] /\ f[k] = from[k + 1]
  <2> DEFINE m == [k \in 0..L - 1 |-> n[k + 1]]
             f == [k \in 0..L - 1 |-> from[k + 1]]
  <2>1. \A k \in 0..L - 1 : k + 1 \in 0..L
    BY <1>4
  <2>2. m \in [0..L - 1 -> 0..Len(strokes)] /\ f \in [0..L - 1 -> Points]
    BY <1>7, <2>1
  <2>3. m \in Counts' /\ f \in Starts'
    BY <1>4, <1>5, <2>2 DEF Counts, Starts
  <2> QED
    BY <2>3
<1>9. PICK m \in Counts', f \in Starts' :
         \A k \in 0..L - 1 : m[k] = n[k + 1] /\ f[k] = from[k + 1]
  BY <1>8
<1>10. \A k \in 0..L - 1 : Pressure(k)' = queue[k + 1].pressure
  <2> SUFFICES ASSUME NEW k \in 0..L - 1 PROVE Pressure(k)' = queue[k + 1].pressure
    OBVIOUS
  <2>1. CASE k = 0
    BY <1>6, <2>1 DEF Pressure
  <2>2. CASE k # 0
    <3>1. k \in 1..L - 1
      BY <1>4, <2>2
    <3> QED
      BY <1>4, <2>2, <3>1 DEF Pressure
  <2> QED
    BY <2>1, <2>2
<1>11. \A k \in 1..L - 1 : Replays(k, m, f)'
  <2> SUFFICES ASSUME NEW k \in 1..L - 1 PROVE Replays(k, m, f)'
    OBVIOUS
  <2>1. /\ k \in 0..L - 1 /\ k - 1 \in 0..L - 1 /\ k + 1 \in 1..L /\ (k + 1) - 1 = k /\ (k - 1) + 1 = k
        /\ k # 0
    BY <1>4
  <2>2. m[k] = n[k + 1] /\ m[k - 1] = n[k] /\ f[k] = from[k + 1] /\ f[k - 1] = from[k]
    BY <1>9, <2>1
  <2>3. queue'[k] = queue[k + 1] /\ Pressure(k - 1)' = Pressure(k)
    <3>1. Pressure(k) = queue[k].pressure
      BY <2>1 DEF Pressure
    <3> QED
      BY <1>4, <1>10, <2>1, <3>1
  <2>4. Replays(k + 1, n, from)
    BY <1>7, <2>1
  <2> QED
    BY <1>5, <2>1, <2>2, <2>3, <2>4 DEF Replays
<1>12. Replayed(m, f)'
  <2>1. 0 \in 0..L - 1 /\ L - 1 \in 0..L - 1 /\ 0 + 1 = 1 /\ (L - 1) + 1 = L /\ L # 0
    BY <1>4
  <2>2. m[0] = n[1] /\ f[0] = from[1] /\ m[L - 1] = n[L] /\ f[L - 1] = from[L]
    BY <1>9, <2>1
  <2>3. Pressure(L - 1)' = Pressure(L)
    BY <1>10, <2>1 DEF Pressure
  <2>4. m[0] = Len(touches') /\ f[0] = last'
    BY <1>6, <2>2
  <2>5. m[Len(queue')] = Len(strokes')
    BY <1>4, <1>5, <1>7, <2>2
  <2>6. (finger <=> Pressure(Len(queue)) = Down)' /\ (finger' => f[Len(queue')] = start')
    BY <1>4, <1>5, <1>7, <2>2, <2>3
  <2>7. \A k \in 1..Len(queue') : Replays(k, m, f)'
    BY <1>4, <1>11
  <2> QED
    BY <2>4, <2>5, <2>6, <2>7 DEF Replayed
<1> QED
  BY <1>6, <1>12 DEF ReplayInv

(* The driver queues the sample of what the finger does. *)
LEMMA QueuedReplays ==
  ASSUME ReplayInv, NEW p \in Points, PutDown(p) \/ Move(p) \/ Lift(p), StrokesTyped'
  PROVE  ReplayInv'
<1> DEFINE Samples == [pos : Points, pressure : {Up, Down}]
<1>1. PICK n \in Counts, from \in Starts : Replayed(n, from)
  BY DEF ReplayInv
<1>2. /\ queue \in Seq(Samples) /\ strokes \in Seq(Touch) /\ touches \in Seq(Touch)
      /\ StrokesTyped /\ start \in Points
  BY DEF ReplayInv, StrokesTyped, SamplerTypeOK
<1>3. PICK L \in Nat : L = Len(queue)
  BY <1>2
<1>4. PICK S \in Nat : S = Len(strokes)
  BY <1>2
<1>5. PICK pr \in {Up, Down} : pr = IF Lift(p) THEN Up ELSE Down
  BY DEF Up, Down
<1>6. /\ queue' = Append(queue, [pos |-> p, pressure |-> pr])
      /\ UNCHANGED <<last, lastPress, touches>>
  BY <1>5 DEF PutDown, Move, Lift, Sampled, threadVars, Down, Up
<1>7. /\ Len(queue') = L + 1
      /\ queue'[L + 1].pos = p /\ queue'[L + 1].pressure = pr
      /\ \A k \in 1..L : queue'[k] = queue[k]
  <2>1. PICK x \in Samples : x = [pos |-> p, pressure |-> pr]
    OBVIOUS
  <2>2. x.pos = p /\ x.pressure = pr
    BY <2>1
  <2> HIDE DEF Samples
  <2> QED
    BY <1>2, <1>3, <1>6, <2>1, <2>2, AppendProperties
<1>8. PICK T \in Nat : /\ T = Len(strokes') /\ T = IF Lift(p) THEN S + 1 ELSE S
                       /\ \A k \in 1..S : strokes'[k] = strokes[k]
                       /\ Lift(p) => strokes'[S + 1] = TouchOf(start, p)
  <2>1. CASE Lift(p)
    <3>1. PICK t \in Touch : t = TouchOf(start, p)
      BY <1>2, TouchOfType
    <3>2. strokes' = Append(strokes, t)
      BY <2>1, <3>1 DEF Lift
    <3>3. /\ Len(strokes') = S + 1 /\ strokes'[S + 1] = t
          /\ \A k \in 1..S : strokes'[k] = strokes[k]
      BY <1>2, <1>4, <3>2, AppendProperties
    <3> QED
      BY <2>1, <3>1, <3>3
  <2>2. CASE ~Lift(p)
    <3>1. strokes' = strokes
      BY <2>2 DEF PutDown, Move, userVars
    <3> QED
      BY <1>4, <2>2, <3>1
  <2> QED
    BY <2>1, <2>2
<1>9. OneTouchPerStroke'
  <2>1. PICK N \in Nat : N = Len(touches) /\ DOMAIN touches = 1..N
    BY <1>2
  <2>2. N <= S /\ \A i \in 1..N : touches[i] = strokes[i]
    BY <1>4, <2>1 DEF OneTouchPerStroke, ReplayInv
  <2>3. N <= T /\ \A i \in 1..N : touches[i] = strokes'[i]
    <3>1. \A i \in 1..N : i \in 1..S
      BY <2>2
    <3>2. S <= T
      BY <1>8
    <3> QED
      BY <1>8, <2>2, <3>1, <3>2
  <2> QED
    BY <1>6, <1>8, <2>1, <2>3 DEF OneTouchPerStroke
<1>10. /\ \A k \in 0..L : n[k] \in 0..S /\ from[k] \in Points
       /\ n[0] = Len(touches) /\ from[0] = last /\ n[L] = S
       /\ \A k \in 1..L : Replays(k, n, from)
       /\ (finger <=> Pressure(L) = Down) /\ (finger => from[L] = start)
  BY <1>1, <1>3, <1>4 DEF Replayed, Counts, Starts
<1>11. Pressure(L) \in {Up, Down}
  <2>1. CASE L = 0
    BY <1>2, <2>1 DEF Pressure, StrokesTyped
  <2>2. CASE L # 0
    <3>1. queue[L] \in Samples
      <4> HIDE DEF Samples
      <4> QED
        BY <1>2, <1>3, <2>2
    <3> QED
      BY <2>2, <3>1 DEF Pressure
  <2> QED
    BY <2>1, <2>2
<1>12. PICK y \in Points : y = IF ~Lift(p) /\ Pressure(L) = Up THEN p ELSE from[L]
  BY <1>10
<1>13. \E m \in Counts', f \in Starts' :
         /\ \A k \in 0..L : m[k] = n[k] /\ f[k] = from[k]
         /\ m[L + 1] = T /\ f[L + 1] = y
  <2> DEFINE m == [k \in 0..L + 1 |-> IF k <= L THEN n[k] ELSE T]
             f == [k \in 0..L + 1 |-> IF k <= L THEN from[k] ELSE y]
  <2>1. \A k \in 0..L + 1 : m[k] \in 0..T /\ f[k] \in Points
    <3> SUFFICES ASSUME NEW k \in 0..L + 1 PROVE m[k] \in 0..T /\ f[k] \in Points
      OBVIOUS
    <3>1. S <= T /\ \A i \in 0..S : i \in 0..T
      BY <1>8
    <3>2. CASE k <= L
      <4>1. k \in 0..L
        BY <3>2
      <4> QED
        BY <1>10, <3>1, <3>2, <4>1
    <3>3. CASE ~(k <= L)
      BY <3>3
    <3> QED
      BY <3>2, <3>3
  <2>2. m \in [0..L + 1 -> 0..T] /\ f \in [0..L + 1 -> Points]
    BY <2>1
  <2>3. m \in Counts' /\ f \in Starts'
    BY <1>7, <1>8, <2>2 DEF Counts, Starts
  <2>4. \A k \in 0..L : m[k] = n[k] /\ f[k] = from[k]
    OBVIOUS
  <2>5. m[L + 1] = T /\ f[L + 1] = y
    OBVIOUS
  <2> QED
    BY <2>3, <2>4, <2>5
<1>14. PICK m \in Counts', f \in Starts' :
         /\ \A k \in 0..L : m[k] = n[k] /\ f[k] = from[k]
         /\ m[L + 1] = T /\ f[L + 1] = y
  BY <1>13
<1>15. /\ \A k \in 0..L : Pressure(k)' = Pressure(k)
       /\ Pressure(L + 1)' = pr
  <2>1. \A k \in 0..L : k = 0 \/ k \in 1..L
    OBVIOUS
  <2>2. L + 1 # 0
    OBVIOUS
  <2> QED
    BY <1>6, <1>7, <2>1, <2>2 DEF Pressure
<1>16. \A k \in 1..L : Replays(k, m, f)'
  <2> SUFFICES ASSUME NEW k \in 1..L PROVE Replays(k, m, f)'
    OBVIOUS
  <2>1. k \in 0..L /\ k - 1 \in 0..L
    OBVIOUS
  <2>2. /\ m[k] = n[k] /\ m[k - 1] = n[k - 1] /\ f[k] = from[k] /\ f[k - 1] = from[k - 1]
        /\ queue'[k] = queue[k] /\ Pressure(k - 1)' = Pressure(k - 1)
    BY <1>7, <1>14, <1>15, <2>1
  <2>3. Replays(k, n, from) /\ n[k] \in 0..S /\ n[k - 1] \in 0..S
    BY <1>10, <2>1
  <2>4. n[k] = n[k - 1] + 1 => n[k] \in 1..S
    BY <2>3
  <2>5. n[k] = n[k - 1] + 1 => strokes'[n[k]] = strokes[n[k]]
    BY <1>8, <2>4
  <2> QED
    BY <2>2, <2>3, <2>5 DEF Replays
<1>17. Replays(L + 1, m, f)'
  <2>1. L \in 0..L /\ (L + 1) - 1 = L
    OBVIOUS
  <2>2. m[L] = S /\ f[L] = from[L] /\ Pressure(L)' = Pressure(L)
    BY <1>10, <1>14, <1>15, <2>1
  <2>3. CASE Lift(p)
    <3>1. finger /\ pr = Up
      BY <2>3, <1>5 DEF Lift
    <3>2. y = start /\ Pressure(L) = Down /\ from[L] = start
      BY <1>10, <1>12, <2>3, <3>1
    <3>3. m[L + 1] = S + 1 /\ f[L + 1] = start /\ strokes'[S + 1] = TouchOf(start, p)
      BY <1>8, <1>14, <2>3, <3>2
    <3> QED
      BY <1>7, <2>1, <2>2, <3>1, <3>2, <3>3 DEF Replays
  <2>4. CASE ~Lift(p)
    <3>1. pr = Down /\ m[L + 1] = S /\ f[L + 1] = IF Pressure(L) = Up THEN p ELSE from[L]
      BY <1>5, <1>8, <1>12, <1>14, <2>4
    <3> QED
      BY <1>7, <2>1, <2>2, <3>1 DEF Replays
  <2> QED
    BY <2>3, <2>4
<1>18. (finger' <=> pr = Down) /\ (finger' => y = start')
  <2>1. CASE Lift(p)
    <3>1. finger' = FALSE /\ pr = Up /\ Up # Down
      BY <1>5, <2>1 DEF Lift, Up, Down
    <3> QED
      BY <3>1
  <2>2. CASE PutDown(p) /\ ~Lift(p)
    <3>1. finger' = TRUE /\ ~finger /\ start' = p /\ pr = Down
      BY <1>5, <2>2 DEF PutDown
    <3>2. y = p
      BY <1>10, <1>11, <1>12, <2>2, <3>1
    <3> QED
      BY <3>1, <3>2
  <2>3. CASE Move(p) /\ ~Lift(p)
    <3>1. finger /\ finger' = finger /\ start' = start /\ pr = Down
      BY <1>5, <2>3 DEF Move, userVars
    <3>2. y = start
      <4>1. Pressure(L) = Down /\ Up # Down
        BY <1>10, <3>1 DEF Up, Down
      <4> QED
        BY <1>10, <1>12, <3>1, <4>1
    <3>3. finger' = TRUE
      BY <1>2, <3>1 DEF StrokesTyped
    <3> QED
      BY <3>1, <3>2, <3>3
  <2> QED
    BY <2>1, <2>2, <2>3
<1>19. Replayed(m, f)'
  <2>1. m[0] = Len(touches') /\ f[0] = last'
    BY <1>6, <1>10, <1>14
  <2>2. \A k \in 1..L + 1 : Replays(k, m, f)'
    <3>1. \A k \in 1..L + 1 : k \in 1..L \/ k = L + 1
      OBVIOUS
    <3> QED
      BY <1>16, <1>17, <3>1
  <2>3. m[Len(queue')] = Len(strokes') /\ \A k \in 1..Len(queue') : Replays(k, m, f)'
    BY <1>7, <1>8, <1>14, <2>2
  <2>4. (finger <=> Pressure(Len(queue)) = Down)' /\ (finger' => f[Len(queue')] = start')
    BY <1>7, <1>14, <1>15, <1>18
  <2> QED
    BY <2>1, <2>3, <2>4 DEF Replayed
<1> QED
  BY <1>9, <1>19 DEF ReplayInv

(* A read that fails leaves a, b and press alone (ts.c, getPos): the turn of  *)
(* the loop finds no change.  Only before the first sample does it find what  *)
(* the variables happened to hold.                                            *)
ReadBefore == SampleFails => press = lastPress

LEMMA StrokesStayTyped ==
  ASSUME StrokesTyped, SamplerNext, ReadBefore, SamplerTypeOK'
  PROVE  StrokesTyped'
<1>1. CASE Sample
  <2>1. queue[1].pressure \in {Up, Down} /\ Head(queue) = queue[1]
    <3> DEFINE Samples == [pos : Points, pressure : {Up, Down}]
    <3>1. queue \in Seq(Samples) /\ queue # <<>>
      BY <1>1 DEF StrokesTyped, SamplerTypeOK, Sample
    <3>2. queue[1] \in Samples /\ Head(queue) = queue[1]
      <4> HIDE DEF Samples
      <4>1. Len(queue) \in Nat /\ Len(queue) >= 1
        BY <3>1
      <4> QED
        BY <3>1, <4>1
    <3> QED
      BY <3>2
  <2> QED
    BY <1>1, <2>1 DEF Sample, Turn, userVars, StrokesTyped
<1>2. CASE SampleFails
  BY <1>2 DEF SampleFails, Turn, ReadBefore, userVars, StrokesTyped
<1>3. ASSUME NEW p \in Points, PutDown(p) \/ Move(p) \/ Lift(p) PROVE StrokesTyped'
  <2>1. TouchOf(start, p) \in Touch
    BY TouchOfType DEF StrokesTyped, SamplerTypeOK
  <2>2. strokes' \in Seq(Touch)
    BY <1>3, <2>1 DEF PutDown, Move, Lift, userVars, StrokesTyped
  <2>3. finger' \in BOOLEAN /\ lastPress' = lastPress
    BY <1>3 DEF PutDown, Move, Lift, Sampled, threadVars, userVars, StrokesTyped
  <2> QED
    BY <2>2, <2>3 DEF StrokesTyped
<1> QED
  BY <1>1, <1>2, <1>3 DEF SamplerNext

LEMMA ReplayStutters ==
  ASSUME ReplayInv, UNCHANGED <<queue, finger, start, last, lastPress, touches, strokes>>,
         SamplerTypeOK'
  PROVE  ReplayInv'
<1>1. PICK n \in Counts, from \in Starts : Replayed(n, from)
  BY DEF ReplayInv
<1>2. n \in Counts' /\ from \in Starts' /\ Replayed(n, from)'
  BY <1>1 DEF Counts, Starts, Replayed, Replays, Pressure
<1> QED
  BY <1>2 DEF ReplayInv, StrokesTyped, OneTouchPerStroke

LEMMA StrokesReplay ==
  SamplerSpec /\ [][ReadBefore]_samplerVars => []ReplayInv
<1>1. SamplerInit => ReplayInv
  <2> SUFFICES ASSUME SamplerInit PROVE ReplayInv
    OBVIOUS
  <2>1. StrokesTyped
    <3>1. SamplerTypeOK
      BY DEF SamplerInit, SamplerTypeOK
    <3>2. strokes \in Seq(Touch) /\ finger = FALSE /\ lastPress = Up
      BY DEF SamplerInit
    <3> QED
      BY <3>1, <3>2 DEF StrokesTyped
  <2>2. /\ Len(queue) = 0 /\ Len(touches) = 0 /\ Len(strokes) = 0 /\ DOMAIN touches = {}
        /\ 0..0 = {0} /\ 1..0 = {}
    BY DEF SamplerInit
  <2> DEFINE n == [k \in {0} |-> 0]
             from == [k \in {0} |-> last]
  <2>3. n \in Counts /\ from \in Starts
    BY <2>1, <2>2 DEF Counts, Starts, StrokesTyped, SamplerTypeOK
  <2>4. finger = FALSE /\ ~(Pressure(0) = Down)
    BY DEF SamplerInit, Pressure, Up, Down
  <2>5. Replayed(n, from)
    BY <2>2, <2>4 DEF Replayed
  <2> QED
    BY <2>1, <2>2, <2>3, <2>5 DEF ReplayInv, OneTouchPerStroke
<1>2. ReplayInv /\ [SamplerNext]_samplerVars /\ [ReadBefore]_samplerVars /\ SamplerTypeOK'
      => ReplayInv'
  <2> SUFFICES ASSUME ReplayInv, [SamplerNext]_samplerVars, [ReadBefore]_samplerVars, SamplerTypeOK'
               PROVE  ReplayInv'
    OBVIOUS
  <2>1. CASE UNCHANGED samplerVars
    BY <2>1, ReplayStutters DEF samplerVars
  <2>2. CASE SamplerNext /\ ReadBefore
    <3>1. StrokesTyped'
      BY <2>2, StrokesStayTyped DEF ReplayInv
    <3>2. CASE Sample
      BY <3>1, <3>2, SampleReplays
    <3>3. CASE SampleFails
      <4>1. UNCHANGED <<queue, finger, start, last, lastPress, touches, strokes>>
        BY <2>2, <3>3 DEF ReadBefore, SampleFails, Turn, userVars
      <4> QED
        BY <4>1, ReplayStutters
    <3>4. ASSUME NEW p \in Points, PutDown(p) \/ Move(p) \/ Lift(p) PROVE ReplayInv'
      BY <3>1, <3>4, QueuedReplays
    <3> QED
      BY <2>2, <3>2, <3>3, <3>4 DEF SamplerNext
  <2> QED
    BY <2>1, <2>2
<1> QED
  BY <1>1, <1>2, SamplerTyped, PTL DEF SamplerSpec

(* Whatever the initial press, T hands out one touch per stroke, in order and *)
(* from where the finger was put down to where it was lifted, once a first    *)
(* read has succeeded (main.c:690-704).                                       *)
THEOREM StrokesAreTouches ==
  SamplerSpec /\ [][ReadBefore]_samplerVars => []OneTouchPerStroke
<1>1. ReplayInv => OneTouchPerStroke
  BY DEF ReplayInv
<1> QED
  BY <1>1, StrokesReplay, PTL

(* A press that happens to be up when T starts makes no difference between a  *)
(* first read that fails and one that does not.                               *)
THEOREM StrokesAreTouchesFromUp ==
  ASSUME FirstPress \subseteq {Up}
  PROVE  SamplerSpec => []OneTouchPerStroke
<1>1. SamplerInit => press = lastPress
  BY DEF SamplerInit
<1>2. press = lastPress /\ [SamplerNext]_samplerVars => (press = lastPress)' /\ [ReadBefore]_samplerVars
  BY DEF SamplerNext, Sample, SampleFails, Turn, PutDown, Move, Lift, Sampled, threadVars,
     samplerVars, ReadBefore
<1>3. SamplerSpec => [](press = lastPress)
  BY <1>1, <1>2, PTL DEF SamplerSpec
<1>4. SamplerSpec => [][ReadBefore]_samplerVars
  BY <1>2, <1>3, PTL DEF SamplerSpec
<1> QED
  BY <1>4, StrokesAreTouches, PTL
=============================================================================
