---------------------------- MODULE TouchTargets ----------------------------
(* What a finger means: the regions proc_ts_main, proc_ts_pic, proc_ts_music, *)
(* proc_ts_video and proc_ts_voice compare a touch with, and the classifier   *)
(* of album gestures.  A touch is the record [a, b, dx, dy]: (a, b) is where  *)
(* the finger left the 800x480 screen, dx = a - last_a and dy = last_b - b    *)
(* how far it travelled (dy > 0 is upwards).  All operators are pure.         *)
EXTENDS Integers

Touch == [a : 0..800, b : 0..480, dx : -800..800, dy : -480..480]

(* C's integer division, which truncates towards zero (b # 0). *)
Abs(x) == IF x < 0 THEN -x ELSE x
FloorDiv(x, y) == IF (x < 0) = (y < 0) THEN Abs(x) \div Abs(y)         \* faulty
                                       ELSE -((Abs(x) + Abs(y) - 1) \div Abs(y))
TruncDiv(x, y) == IF (x < 0) = (y < 0) THEN Abs(x) \div Abs(y)
                                       ELSE -(Abs(x) \div Abs(y))

------------------------------------------------------------------------------
(* The main menu: four 81-pixel tiles in one row, and two overlapping ways to *)
(* hit the shutdown corner.  The order of the else-ifs does not matter, since *)
(* no touch is in two tiles (theorem MainTargetUnique).                       *)
TileLeft == [PIC |-> 440, MUSIC |-> 280, VIDEO |-> 120, VOICE |-> 605]

InTile(t, p) == t.a \in TileLeft[p] .. TileLeft[p] + 80 /\ t.b \in 285..365

InShutdown(t) == \/ t.a \in 720..800 /\ t.b \in 0..80
                 \/ t.a >= 740 /\ t.b <= 60

MainTarget(t) == {p \in DOMAIN TileLeft : InTile(t, p)}
                   \cup (IF InShutdown(t) THEN {"END"} ELSE {})

------------------------------------------------------------------------------
(* The player pages: three buttons on the bottom line, and the back button.   *)
(* The comparisons are strict, and the video page's back region is narrower.  *)
OnButton(t, left) == left < t.a /\ t.a < left + 60 /\ 420 < t.b /\ t.b < 480

PlayButton(t) == OnButton(t, 370)
PrevButton(t) == OnButton(t, 250)
NextButton(t) == OnButton(t, 490)
BackButton(t, page) == t.a > (IF page = "VIDEO" THEN 760 ELSE 740) /\ t.b < 60

(* The voice page compares with the top LEFT corner, although showBackButton  *)
(* draws the button at x = 740.                                               *)
VoiceBack(t) == t.a < 60 /\ t.b < 60
BackDrawn(t) == t.a \in 740..799 /\ t.b \in 0..59

------------------------------------------------------------------------------
(* The album.  Browse(t) is the set of commands proc_ts_pic stores when no    *)
(* menu is on the screen: one command, or none when a still touch is on the   *)
(* centre line or in the top strip.  A still touch on the back button is the  *)
(* only one that also leaves the page.                                        *)
Still(t) == t.dx = 0 /\ t.dy = 0

Horizontal(t) ==
  \/ t.dx # 0 /\ t.dy = 0
  \/ t.dx # 0 /\ t.dy # 0 /\ TruncDiv(t.dy, t.dx) >= -1 /\ TruncDiv(t.dy, t.dx) < 1

Swipe(t) == IF Horizontal(t)
              THEN (IF t.dx > 0 THEN "PREV_FLYRIGHT" ELSE "NEXT_FLYLEFT")
              ELSE (IF t.dy > 0 THEN "PREV_FLYUP" ELSE "NEXT_FTYDOWN")

AlbumBack(t) == Still(t) /\ t.a > 740 /\ t.b < 60

Browse(t) ==
  IF ~Still(t) THEN {Swipe(t)}
  ELSE CASE t.a > 400 /\ t.b > 60 -> {"NEXT_WINDOWSHADE"}
         [] t.a < 400 /\ t.b > 60 -> {"PREV_WINDOWSHADE"}
         [] AlbumBack(t)          -> {"NULL"}
         [] OTHER                 -> {}

(* With the menu on the screen the halves of its band choose a slide show and *)
(* every other touch dismisses it.                                            *)
InMenuBand(t) == t.b > 165 /\ t.b < 315 /\ t.a # 400
MenuChoice(t) == IF t.a < 400 THEN "PLAY_SEQUENTIAL" ELSE "PLAY_SHUFFLE"
=============================================================================
