------------------------------ MODULE Drawing ------------------------------
(* showThePic (pichandler.c): the file is read, the frame buffer is mapped    *)
(* and the picture is copied into it in place, line by line, the way the      *)
(* animation says.  A line is a column of the screen in FLYLEFT and FLYRIGHT  *)
(* and a row in the other modes; the inner loop treats the cells of a line    *)
(* alike, so a line stands for each of them.  Lines are counted from the left *)
(* or from the top; the rows of a bmp file are stored from the bottom.  What  *)
(* a line of the screen shows is <<picture, line of it>>.                     *)
EXTENDS Integers

CONSTANTS
  Extent,      \* lines of the screen: 800 columns or 480 rows
  Move,        \* moveLength, lines a frame moves (40)
  Pages,       \* strips of the window shades (15)
  Pictures,    \* the files; "unknown" is what a line showed at power on
  Rows,        \* for each picture, its number of lines (pixHeight)
  Plain,       \* for each picture, its lines in the background colour
  Calls,       \* the calls of the pages: [mode, show, pic, y]
  MaxFailures  \* bound: calls that fail

Ascending  == {"flyleft", "flyup"}
Descending == {"flyright", "flydown"}
Flying     == Ascending \cup Descending
Modes      == {"none", "shades"} \cup Flying
Ways       == {"shading", "noshading", "clear"}

(* Every bitmap the pages draw stays on the screen; those that fly have its   *)
(* size (report 2.3 and the bitmaps in arm-project/material).                 *)
ASSUME ExtentAssumption == Extent \in Nat \ {0} /\ Move \in Nat \ {0} /\ Extent % Move = 0
ASSUME PagesAssumption == Pages \in Nat \ {0} /\ MaxFailures \in Nat
ASSUME PictureAssumption == Rows \in [Pictures -> Nat]
ASSUME CallsAssumption ==
  /\ Calls \subseteq [mode : Modes, show : Ways, pic : Pictures, y : Nat]
  /\ \A c \in Calls : /\ c.y + Rows[c.pic] <= Extent
                      /\ c.mode \in Flying => c.y = 0 /\ Rows[c.pic] = Extent

VARIABLES
  dpc,      \* "idle", "opened" (the file), "ready" (the screen too), "draw"
  args,     \* the arguments of the call
  frame,    \* times
  line,     \* i
  strip,    \* p
  screen,   \* what each line of the frame buffer shows
  held,     \* how many of each resource the calls have not given back
  failures, \* calls that failed after the file was opened
  before    \* history: the screen when the call began

drawVars == <<dpc, args, frame, line, strip, screen, held, failures, before>>

(* Two descriptors, and the malloc'd bmp_buff. *)
Resources == {"bmp_fd", "lcdFd", "bmp_buff"}

Lines == 0 .. Extent - 1

DrawInit ==
  /\ dpc = "idle"
  /\ args \in Calls
  /\ frame = 0 /\ line = 0 /\ strip = 0 /\ failures = 0
  /\ held = [r \in Resources |-> 0]
  /\ screen = [k \in Lines |-> <<"unknown", k>>]
  /\ before = screen

Height == Rows[args.pic]
Show(k) == <<args.pic, k>>
FromBottom(r) == Height - 1 - r

FirstLine(mode) == IF mode \in Descending THEN Extent - 1 ELSE 0

------------------------------------------------------------------------------
(* A call begins with its file.  When that does not open the call returns and *)
(* nothing has changed: a stuttering step.                                    *)
OpenFile(c) ==
  /\ dpc = "idle"
  /\ dpc' = "opened" /\ args' = c
  /\ held' = [held EXCEPT !["bmp_fd"] = @ + 1]
  /\ UNCHANGED <<frame, line, strip, screen, failures, before>>

OpenScreen ==
  /\ dpc = "opened"
  /\ dpc' = "ready"
  /\ held' = [held EXCEPT !["lcdFd"] = @ + 1]
  /\ UNCHANGED <<args, frame, line, strip, screen, failures, before>>

Failed == /\ failures < MaxFailures /\ failures' = failures + 1
          /\ dpc' = "idle"
          /\ UNCHANGED <<args, frame, line, strip, screen, before>>

(* It does not open, and what the call closes is the -1 it got. *)
OpenScreenFails == dpc = "opened" /\ Failed /\ UNCHANGED held

(* Faulty: the early return forgets the file, too. *)
ReadFailsOpen ==
  /\ dpc = "ready" /\ Failed
  /\ held' = [held EXCEPT !["bmp_buff"] = @ + 1]

(* The read into the buffer fails: the file is closed, the rest stays. *)
ReadFails ==
  /\ dpc = "ready" /\ Failed
  /\ held' = [held EXCEPT !["bmp_buff"] = @ + 1, !["bmp_fd"] = @ - 1]

(* The buffer is filled, the file closed and the frame buffer mapped.  The    *)
(* first loop starts.                                                         *)
Begin ==
  /\ dpc = "ready"
  /\ dpc' = "draw"
  /\ held' = [held EXCEPT !["bmp_buff"] = @ + 1, !["bmp_fd"] = @ - 1]
  /\ frame' = 0 /\ line' = FirstLine(args.mode) /\ strip' = 0
  /\ before' = screen
  /\ UNCHANGED <<args, screen, failures>>

(* free, munmap and close(lcdFd). *)
End == /\ dpc' = "idle"
       /\ held' = [held EXCEPT !["bmp_buff"] = @ - 1, !["lcdFd"] = @ - 1]
       /\ UNCHANGED <<args, frame, line, strip, screen, failures, before>>

------------------------------------------------------------------------------
(* The flying modes.  What a line takes from the screen has moved Move lines; *)
(* what it takes from the file has come into sight.                           *)

FromScreen == IF args.mode \in Ascending THEN line + Move ELSE line - Move

(* Faulty: a frame shows what the one before it should have shown. *)
LateFromFile ==
  LET moved == frame * Move
  IN CASE args.mode = "flyleft"  -> line + moved - Extent
       [] args.mode = "flyright" -> line - moved + Extent
       [] args.mode = "flyup"    -> FromBottom(2 * Extent - 1 - line - moved)
       [] args.mode = "flydown"  -> FromBottom(moved - line - 1)

FromFile ==
  LET moved == (frame + 1) * Move
  IN CASE args.mode = "flyleft"  -> line + moved - Extent
       [] args.mode = "flyright" -> line - moved + Extent
       [] args.mode = "flyup"    -> FromBottom(2 * Extent - 1 - line - moved)
       [] args.mode = "flydown"  -> FromBottom(moved - line - 1)

LastLine(mode) == IF mode \in Descending THEN 0 ELSE Extent - 1
NextLine(mode) == IF mode \in Descending THEN line - 1 ELSE line + 1

Fly ==
  /\ dpc = "draw" /\ args.mode \in Flying /\ frame < Extent \div Move
  /\ screen' = [screen EXCEPT ![line] =
                  IF FromScreen \in Lines THEN screen[FromScreen] ELSE Show(FromFile)]
  /\ IF line = LastLine(args.mode)
       THEN frame' = frame + 1 /\ line' = FirstLine(args.mode)
       ELSE line' = NextLine(args.mode) /\ UNCHANGED frame
  /\ UNCHANGED <<dpc, args, strip, held, failures, before>>

FlyEnd == /\ dpc = "draw" /\ args.mode \in Flying /\ frame = Extent \div Move
          /\ End

------------------------------------------------------------------------------
(* The other modes put lines of the picture at line y and below. *)

(* SHADING copies every cell, NOSHADING those not in the background colour,   *)
(* and CLEAR is in no branch.                                                 *)
Painted(k) == \/ args.show = "shading"
              \/ args.show = "noshading" /\ k \notin Plain[args.pic]

Paint(k) ==
  screen' = IF Painted(k) THEN [screen EXCEPT ![k + args.y] = Show(k)] ELSE screen

(* Faulty: the loop goes on to the next line only when it has painted one. *)
StillSkipping ==
  /\ dpc = "draw" /\ args.mode = "none" /\ line < Height
  /\ Paint(line)
  /\ line' = IF Painted(line) THEN line + 1 ELSE line
  /\ UNCHANGED <<dpc, args, frame, strip, held, failures, before>>

Still ==
  /\ dpc = "draw" /\ args.mode = "none" /\ line < Height
  /\ Paint(line)
  /\ line' = line + 1
  /\ UNCHANGED <<dpc, args, frame, strip, held, failures, before>>

StillEnd == dpc = "draw" /\ args.mode = "none" /\ line = Height /\ End

(* Faulty: the strips are as far apart as they are many. *)
ShadeLineApart(p, i) == p * Pages + i

(* One line of every strip is drawn, then the next of every strip. *)
ShadeLine(p, i) == (p * Height) \div Pages + i

(* Faulty: one strip too many. *)
ShadeOver ==
  /\ dpc = "draw" /\ args.mode = "shades" /\ line < Height \div Pages
  /\ Paint(ShadeLine(strip, line))
  /\ IF strip = Pages THEN strip' = 0 /\ line' = line + 1
                      ELSE strip' = strip + 1 /\ UNCHANGED line
  /\ UNCHANGED <<dpc, args, frame, held, failures, before>>

Shade ==
  /\ dpc = "draw" /\ args.mode = "shades" /\ line < Height \div Pages
  /\ Paint(ShadeLine(strip, line))
  /\ IF strip = Pages - 1 THEN strip' = 0 /\ line' = line + 1
                          ELSE strip' = strip + 1 /\ UNCHANGED line
  /\ UNCHANGED <<dpc, args, frame, held, failures, before>>

ShadeEnd == /\ dpc = "draw" /\ args.mode = "shades" /\ line = Height \div Pages
            /\ End

Draw == \/ OpenScreen \/ OpenScreenFails \/ Begin \/ ReadFails
        \/ Fly \/ FlyEnd \/ Still \/ StillEnd \/ Shade \/ ShadeEnd

DrawNext == (\E c \in Calls : OpenFile(c)) \/ Draw

DrawSpec == DrawInit /\ [][DrawNext]_drawVars /\ WF_drawVars(Draw)
------------------------------------------------------------------------------
DrawTypeOK ==
  /\ dpc \in {"idle", "opened", "ready", "draw"}
  /\ args \in Calls
  /\ frame \in Nat /\ line \in Int /\ strip \in 0 .. Pages - 1
  /\ held \in [Resources -> Nat] /\ failures \in Nat
  /\ screen \in [Lines -> (Pictures \cup {"unknown"}) \X Int]
  /\ before \in [Lines -> (Pictures \cup {"unknown"}) \X Int]

(* The tape a flying picture moves along: the old screen and, behind it, the  *)
(* picture.                                                                   *)
Tape(k) == IF k \in Lines THEN before[k]
           ELSE IF k < 0 THEN Show(k + Extent) ELSE Show(k - Extent)

(* Copying in place, in whatever direction, loses no line: when a frame is    *)
(* complete the whole screen has moved by Move lines along the tape.          *)
FrameMoves ==
  dpc = "draw" /\ args.mode \in Flying /\ line = FirstLine(args.mode)
    => \A k \in Lines : screen[k] = Tape(IF args.mode \in Ascending
                                           THEN k + frame * Move ELSE k - frame * Move)

(* Neither copying loop leaves the picture's buffer or the frame buffer. *)
InsideBuffers ==
  dpc = "draw" =>
    /\ args.mode \in Flying /\ frame < Extent \div Move
         => line \in Lines /\ (FromScreen \in Lines \/ FromFile \in 0 .. Height - 1)
    /\ args.mode = "shades" /\ line < Height \div Pages
         => ShadeLine(strip, line) \in 0 .. Height - 1

Covered(k) == k - args.y \in 0 .. Height - 1 /\ Painted(k - args.y)

(* When a call is through with a picture whose height the strips divide, the  *)
(* picture is on the screen, each of its lines at its place, and whatever it  *)
(* does not cover is as it was.                                               *)
PictureShown ==
  \/ dpc = "draw" /\ args.mode = "none" /\ line = Height
  \/ dpc = "draw" /\ args.mode = "shades" /\ line = Height \div Pages /\ Height % Pages = 0
  \/ dpc = "draw" /\ args.mode \in Flying /\ frame = Extent \div Move /\ args.show = "shading"
  => \A k \in Lines : screen[k] = IF Covered(k) THEN Show(k - args.y) ELSE before[k]

(* Between two calls, the program has lost one descriptor for each call that  *)
(* failed, and bmp_buff for those whose descriptor was lcdFd; the others gave *)
(* everything back (pichandler.c:51-56, 83-89, 258-264).                      *)
OneLeakPerFailure ==
  dpc = "idle" => /\ held["bmp_fd"] + held["lcdFd"] = failures
                  /\ held["bmp_buff"] = held["lcdFd"]

(* Every call returns to the page. *)
DrawingEnds == dpc # "idle" ~> dpc = "idle"
=============================================================================
