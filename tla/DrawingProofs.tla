--------------------------- MODULE DrawingProofs ---------------------------
(* For every size of the screen, step of the animation, number of strips and  *)
(* set of pictures: the copying loops of showThePic stay inside both buffers, *)
(* a flying picture moves frame by frame, and the picture is complete in the  *)
(* end.                                                                       *)
EXTENDS Drawing, TLAPS

(* A line counts as moved when the loop has passed it in this frame. *)
Passed(k) == IF args.mode \in Ascending THEN k < line ELSE k > line
Frames(k) == IF Passed(k) THEN frame + 1 ELSE frame
Onto(k, n) == IF args.mode \in Ascending THEN k + n * Move ELSE k - n * Move

(* What the screen shows in the middle of a frame. *)
FlyInv ==
  dpc = "draw" /\ args.mode \in Flying =>
    /\ frame \in 0 .. Extent \div Move /\ line \in Lines
    /\ frame = Extent \div Move => line = FirstLine(args.mode)
    /\ \A k \in Lines : screen[k] = Tape(Onto(k, Frames(k)))

(* ... and in the middle of the shades. *)
Spacing == Height \div Pages
Shaded(l) == \E q \in 0 .. Pages - 1, j \in 0 .. Spacing - 1 :
               /\ l = q * Spacing + j
               /\ j < line \/ (j = line /\ q < strip)
ShadeInv ==
  dpc = "draw" /\ args.mode = "shades" =>
    /\ line \in 0 .. Spacing
    /\ line = Spacing => strip = 0
    /\ Height % Pages = 0 =>
         \A k \in Lines : screen[k] = IF Covered(k) /\ Shaded(k - args.y)
                                        THEN Show(k - args.y) ELSE before[k]

StillInv ==
  dpc = "draw" /\ args.mode = "none" =>
    /\ line \in 0 .. Height
    /\ \A k \in Lines : screen[k] = IF Covered(k) /\ k - args.y < line
                                      THEN Show(k - args.y) ELSE before[k]

DrawInv == DrawTypeOK /\ FlyInv /\ ShadeInv /\ StillInv

------------------------------------------------------------------------------
(* Arithmetic of the loops. *)

LEMMA NextFrame ==
  ASSUME NEW n \in Int
  PROVE  n * Move \in Int /\ (n + 1) * Move = n * Move + Move
BY ExtentAssumption, Z3

LEMMA LastFrame ==
  /\ Extent \div Move \in Nat
  /\ (Extent \div Move) * Move = Extent
BY ExtentAssumption, Z3

LEMMA FrameBound ==
  ASSUME NEW n \in Nat, n < Extent \div Move
  PROVE  n * Move >= 0 /\ n * Move + Move <= Extent
<1>. DEFINE N == Extent \div Move
<1>1. N \in Nat /\ N * Move = Extent /\ Move \in Nat /\ Extent \in Nat
  BY LastFrame, ExtentAssumption
<1>2. n + 1 <= N
  BY <1>1
<1>. HIDE DEF N
<1>3. (n + 1) * Move <= N * Move /\ n * Move >= 0
  BY <1>1, <1>2, Z3
<1>. QED BY <1>1, <1>3, NextFrame

LEMMA HeightType ==
  ASSUME args \in Calls
  PROVE  /\ Height \in Nat /\ args.y \in Nat /\ args.y + Height <= Extent
         /\ args.mode \in Flying => args.y = 0 /\ Height = Extent
         /\ args.pic \in Pictures /\ args.mode \in Modes /\ args.show \in Ways
BY CallsAssumption, PictureAssumption DEF Height

LEMMA SpacingType ==
  ASSUME args \in Calls
  PROVE  Spacing \in Nat /\ Spacing * Pages <= Height
<1>. DEFINE h == Height
<1>1. h \in Nat /\ Pages \in Nat \ {0}
  BY HeightType, PagesAssumption
<1>. HIDE DEF h
<1>2. h \div Pages \in Nat /\ (h \div Pages) * Pages <= h
  BY <1>1, Z3
<1>. QED BY <1>2 DEF h, Spacing

(* With a height the strips divide, strip q begins at line q * Spacing. *)
LEMMA StripStart ==
  ASSUME args \in Calls, Height % Pages = 0, NEW q \in 0 .. Pages - 1
  PROVE  /\ Height = Pages * Spacing
         /\ (q * Height) \div Pages = q * Spacing
         /\ q * Spacing \in Nat
<1>. DEFINE h == Height
            s == h \div Pages
<1>1. h \in Nat /\ Pages \in Nat \ {0} /\ h % Pages = 0 /\ q \in Nat
  BY HeightType, PagesAssumption
<1>. HIDE DEF h
<1>2. s \in Nat /\ h = Pages * s
  BY <1>1, Z3
<1>. HIDE DEF s
<1>3. q * s \in Nat
  BY <1>1, <1>2, Z3
<1>4. q * h = (q * s) * Pages
  BY <1>1, <1>2, Z3
<1>. DEFINE m == q * s
<1>5. m \in Nat
  BY <1>3
<1>. HIDE DEF m
<1>6. (m * Pages) \div Pages = m
  BY <1>1, <1>5, Z3
<1>7. (q * h) \div Pages = q * s
  BY <1>4, <1>6 DEF m
<1>. QED BY <1>2, <1>3, <1>7 DEF h, s, Spacing

(* Every line of the picture is a line of some strip. *)
LEMMA StripOfLine ==
  ASSUME args \in Calls, Height % Pages = 0, NEW l \in 0 .. Height - 1
  PROVE  \E q \in 0 .. Pages - 1, j \in 0 .. Spacing - 1 : l = q * Spacing + j
<1>. DEFINE s == Spacing
            q == l \div s
            j == l % s
<1>1. Height = Pages * s /\ s \in Nat /\ l \in Nat /\ l < Height /\ Pages \in Nat \ {0}
  BY StripStart, SpacingType, HeightType, PagesAssumption
<1>. HIDE DEF s
<1>2. s # 0
  BY <1>1, Z3
<1>3. q \in Nat /\ j \in 0 .. s - 1 /\ l = q * s + j
  BY <1>1, <1>2, Z3
<1>. HIDE DEF q, j
<1>4. q < Pages
  <2>1. SUFFICES ASSUME q >= Pages PROVE FALSE
    BY <1>1, <1>3
  <2>2. q * s >= Pages * s
    BY <1>1, <1>3, <2>1, Z3
  <2>. QED BY <1>1, <1>3, <2>2, Z3
<1>5. q \in 0 .. Pages - 1
  BY <1>1, <1>3, <1>4
<1>. QED BY <1>3, <1>5 DEF s

(* Whatever the height, the shades stay inside the picture. *)
LEMMA ShadeLineBound ==
  ASSUME args \in Calls, NEW p \in 0 .. Pages - 1, NEW i \in 0 .. Spacing - 1
  PROVE  ShadeLine(p, i) \in 0 .. Height - 1
<1>. DEFINE h == Height
            s == Spacing
            a == (p * h) \div Pages
<1>1. h \in Nat /\ s \in Nat /\ s * Pages <= h /\ Pages \in Nat \ {0}
  BY HeightType, SpacingType, PagesAssumption
<1>2. i \in Nat /\ i < s /\ p \in Nat /\ p + 1 <= Pages
  BY <1>1
<1>. HIDE DEF h, s
<1>3. p * h \in Nat
  BY <1>1, <1>2, Z3
<1>4. a \in Nat /\ a * Pages <= p * h
  BY <1>1, <1>3, Z3
<1>. HIDE DEF a
<1>5. (p + 1) * h <= Pages * h /\ (p + 1) * h = p * h + h
  BY <1>1, <1>2, Z3
<1>6. (a + s) * Pages <= Pages * h
  BY <1>1, <1>2, <1>3, <1>4, <1>5, Z3
<1>7. a + s <= h
  BY <1>1, <1>2, <1>4, <1>6, Z3
<1>8. a + i \in 0 .. h - 1
  BY <1>1, <1>2, <1>4, <1>7
<1>. QED BY <1>8 DEF a, h, s, ShadeLine, Spacing
------------------------------------------------------------------------------
(* Types. *)

Content == (Pictures \cup {"unknown"}) \X Int

LEMMA ShowType ==
  ASSUME args \in Calls, NEW k \in Int
  PROVE  Show(k) \in Content
BY HeightType DEF Show, Content

LEMMA FromFileType ==
  ASSUME DrawTypeOK, args.mode \in Flying
  PROVE  FromFile \in Int
<1>. DEFINE moved == (frame + 1) * Move
            h == Height
<1>1. moved \in Int
  BY NextFrame DEF DrawTypeOK
<1>2. Extent \in Int /\ line \in Int /\ h \in Int
  BY ExtentAssumption, HeightType DEF DrawTypeOK
<1>3. FromFile = CASE args.mode = "flyleft"  -> line + moved - Extent
                   [] args.mode = "flyright" -> line - moved + Extent
                   [] args.mode = "flyup"    -> h - 1 - (2 * Extent - 1 - line - moved)
                   [] args.mode = "flydown"  -> h - 1 - (moved - line - 1)
  BY DEF FromFile, FromBottom
<1>. HIDE DEF moved, h
<1>. QED BY <1>1, <1>2, <1>3 DEF Flying, Ascending, Descending

(* What the calls hold at each place of showThePic. *)
Files == IF dpc \in {"opened", "ready"} THEN 1 ELSE 0
Screens == IF dpc \in {"ready", "draw"} THEN 1 ELSE 0

CountInv ==
  /\ held["bmp_fd"] >= Files /\ held["lcdFd"] >= Screens
  /\ held["bmp_fd"] + held["lcdFd"] = failures + Files + Screens
  /\ held["bmp_buff"] = held["lcdFd"] - (IF dpc = "ready" THEN 1 ELSE 0)

LEMMA CountInit == DrawInit => CountInv
BY DEF DrawInit, CountInv, Resources, Files, Screens

LEMMA CountStep ==
  ASSUME DrawTypeOK, CountInv, [DrawNext]_drawVars
  PROVE  CountInv' /\ held' \in [Resources -> Nat] /\ failures' \in Nat
<1>. DEFINE Counted == CountInv' /\ held' \in [Resources -> Nat] /\ failures' \in Nat
<1>. USE DEF DrawTypeOK, CountInv, Resources, Files, Screens
<1>1. ASSUME NEW c \in Calls, OpenFile(c) PROVE Counted
  BY <1>1 DEF OpenFile
<1>2. CASE OpenScreen
  BY <1>2 DEF OpenScreen
<1>3. CASE OpenScreenFails
  BY <1>3 DEF OpenScreenFails, Failed
<1>4. CASE Begin
  BY <1>4 DEF Begin
<1>5. CASE ReadFails
  <2>1. /\ held["bmp_fd"] \in Nat \ {0} /\ held["bmp_buff"] \in Nat
        /\ dpc' = "idle" /\ failures' = failures + 1
    BY <1>5 DEF ReadFails, Failed
  <2>2. /\ held' \in [Resources -> Nat] /\ held'["lcdFd"] = held["lcdFd"]
        /\ held'["bmp_fd"] = held["bmp_fd"] - 1
        /\ held'["bmp_buff"] = held["bmp_buff"] + 1
    BY <1>5, <2>1 DEF ReadFails
  <2>. QED BY <1>5, <2>1, <2>2 DEF ReadFails
<1>6. CASE Fly \/ Still \/ Shade
  BY <1>6 DEF Fly, Still, Shade
<1>7. CASE FlyEnd \/ StillEnd \/ ShadeEnd
  <2>1. dpc = "draw" /\ End
    BY <1>7 DEF FlyEnd, StillEnd, ShadeEnd
  <2>2. held["lcdFd"] \in Nat \ {0} /\ held["bmp_buff"] \in Nat \ {0}
    BY <2>1
  <2>3. /\ held' \in [Resources -> Nat] /\ held'["bmp_fd"] = held["bmp_fd"]
        /\ held'["lcdFd"] = held["lcdFd"] - 1
        /\ held'["bmp_buff"] = held["bmp_buff"] - 1
    BY <2>1, <2>2 DEF End
  <2>. QED BY <2>1, <2>2, <2>3 DEF End
<1>8. CASE UNCHANGED drawVars
  BY <1>8 DEF drawVars
<1>. QED BY <1>1, <1>2, <1>3, <1>4, <1>5, <1>6, <1>7, <1>8 DEF DrawNext, Draw

LEMMA TypeInit == DrawInit => DrawTypeOK
BY PagesAssumption DEF DrawInit, DrawTypeOK, Lines, Resources

LEMMA TypeStep ==
  ASSUME DrawTypeOK, CountInv, [DrawNext]_drawVars
  PROVE  DrawTypeOK'
<1>. USE DEF Content
<1>1. held' \in [Resources -> Nat] /\ failures' \in Nat
  BY CountStep
<1>2. CASE (\E c \in Calls : OpenFile(c)) \/ OpenScreen \/ OpenScreenFails \/ ReadFails
  BY <1>1, <1>2 DEF OpenFile, OpenScreen, OpenScreenFails, ReadFails, Failed, DrawTypeOK
<1>8. CASE Begin
  BY <1>1, <1>8, PagesAssumption, ExtentAssumption DEF Begin, DrawTypeOK, FirstLine
<1>3. CASE Fly
  <2>. DEFINE new == IF FromScreen \in Lines THEN screen[FromScreen] ELSE Show(FromFile)
  <2>1. new \in Content
    BY <1>3, FromFileType, ShowType DEF Fly, DrawTypeOK
  <2>. HIDE DEF new
  <2>2. screen' = [screen EXCEPT ![line] = new]
    BY <1>3 DEF Fly, new
  <2>3. screen' \in [Lines -> Content]
    BY <2>1, <2>2 DEF DrawTypeOK
  <2>4. frame' \in Nat /\ line' \in Int
    BY <1>3, ExtentAssumption DEF Fly, DrawTypeOK, FirstLine, NextLine
  <2>. QED BY <1>3, <2>3, <2>4 DEF Fly, DrawTypeOK
<1>4. CASE Still
  <2>1. line \in Int /\ Show(line) \in Content
    BY ShowType DEF DrawTypeOK
  <2>2. screen' \in [Lines -> Content]
    BY <1>4, <2>1 DEF Still, Paint, DrawTypeOK
  <2>. QED BY <1>4, <2>2 DEF Still, DrawTypeOK
<1>5. CASE Shade
  <2>1. ShadeLine(strip, line) \in Int
    <3>. DEFINE a == strip * Height
    <3>1. a \in Int
      BY HeightType, Z3 DEF DrawTypeOK
    <3>. HIDE DEF a
    <3>2. a \div Pages \in Int
      BY <3>1, PagesAssumption
    <3>. QED BY <3>2 DEF ShadeLine, a, DrawTypeOK
  <2>2. Show(ShadeLine(strip, line)) \in Content
    BY <2>1, ShowType DEF DrawTypeOK
  <2>3. screen' \in [Lines -> Content]
    BY <1>5, <2>2 DEF Shade, Paint, DrawTypeOK
  <2>4. strip' \in 0 .. Pages - 1 /\ line' \in Int
    BY <1>5, PagesAssumption DEF Shade, DrawTypeOK
  <2>. QED BY <1>5, <2>3, <2>4 DEF Shade, DrawTypeOK
<1>6. CASE FlyEnd \/ StillEnd \/ ShadeEnd
  BY <1>1, <1>6 DEF FlyEnd, StillEnd, ShadeEnd, End, DrawTypeOK
<1>7. CASE UNCHANGED drawVars
  BY <1>7 DEF drawVars, DrawTypeOK
<1>. QED BY <1>2, <1>3, <1>4, <1>5, <1>6, <1>7, <1>8 DEF DrawNext, Draw

------------------------------------------------------------------------------
(* The frames of a flying picture. *)

LEMMA FromFileLine ==
  ASSUME DrawTypeOK, args.mode \in Flying
  PROVE  /\ args.mode \in Ascending => FromFile = line + (frame + 1) * Move - Extent
         /\ args.mode \in Descending => FromFile = line - (frame + 1) * Move + Extent
<1>. DEFINE moved == (frame + 1) * Move
            h == Height
<1>1. moved \in Int
  BY NextFrame DEF DrawTypeOK
<1>2. Extent \in Int /\ line \in Int /\ h = Extent
  BY ExtentAssumption, HeightType DEF DrawTypeOK
<1>3. FromFile = CASE args.mode = "flyleft"  -> line + moved - Extent
                   [] args.mode = "flyright" -> line - moved + Extent
                   [] args.mode = "flyup"    -> h - 1 - (2 * Extent - 1 - line - moved)
                   [] args.mode = "flydown"  -> h - 1 - (moved - line - 1)
  BY DEF FromFile, FromBottom
<1>. HIDE DEF moved, h
<1>4. (args.mode \in Ascending => FromFile = line + moved - Extent)
      /\ (args.mode \in Descending => FromFile = line - moved + Extent)
  BY <1>1, <1>2, <1>3 DEF Flying, Ascending, Descending
<1>. QED BY <1>4 DEF moved

(* The copy in place reads a line this frame has not passed yet, or the file. *)
LEMMA FlyCopies ==
  ASSUME DrawTypeOK, FlyInv, Fly
  PROVE  screen'[line] = Tape(Onto(line, frame + 1))
<1>. DEFINE moved == frame * Move
            e == Extent
            v == Move
<1>1. dpc = "draw" /\ args.mode \in Flying /\ frame < Extent \div Move /\ frame \in Nat
      /\ line \in Lines /\ frame + 1 # frame
  BY DEF Fly, FlyInv, DrawTypeOK
<1>2. /\ moved \in Int /\ moved >= 0 /\ moved + v <= e /\ (frame + 1) * Move = moved + v
      /\ e \in Nat /\ v \in Nat \ {0} /\ line \in Int
  BY <1>1, FrameBound, NextFrame, ExtentAssumption DEF Lines
<1>3. screen'[line] = IF FromScreen \in Lines THEN screen[FromScreen] ELSE Show(FromFile)
  BY <1>1 DEF Fly, DrawTypeOK
<1>4. ASSUME NEW k \in Lines, ~Passed(k) PROVE screen[k] = Tape(Onto(k, frame))
  BY <1>1, <1>4 DEF FlyInv, Frames
<1>5. Lines = 0 .. e - 1
  BY DEF Lines
<1>6. CASE args.mode \in Ascending
  <2>1. FromScreen = line + v /\ FromFile = line + (moved + v) - e
        /\ Onto(line, frame + 1) = line + (moved + v)
    BY <1>1, <1>2, <1>6, FromFileLine DEF FromScreen, Onto
  <2>2. CASE FromScreen \in Lines
    <3>1. ~Passed(FromScreen)
      BY <1>2, <1>6, <2>1, <2>2, <1>5 DEF Passed
    <3>2. Onto(FromScreen, frame) = line + v + moved
      BY <1>6, <2>1 DEF Onto
    <3>. HIDE DEF moved, e, v
    <3>3. line + v + moved = line + (moved + v)
      BY <1>2
    <3>. QED BY <1>3, <1>4, <2>1, <2>2, <3>1, <3>2, <3>3
  <2>3. CASE FromScreen \notin Lines
    <3>. DEFINE x == line + (moved + v)
    <3>1. Tape(x) = IF x \in Lines THEN before[x]
                     ELSE IF x < 0 THEN Show(x + e) ELSE Show(x - e)
      BY DEF Tape
    <3>. HIDE DEF moved, e, v
    <3>2. x >= e /\ x \in Int
      BY <1>1, <1>2, <1>5, <2>1, <2>3
    <3>3. Tape(x) = Show(x - e)
      BY <1>2, <1>5, <3>1, <3>2
    <3>4. Onto(line, frame + 1) = x /\ FromFile = x - e
      BY <1>2, <2>1
    <3>. HIDE DEF x
    <3>. QED BY <1>3, <2>3, <3>3, <3>4
  <2>. QED BY <2>2, <2>3
<1>7. CASE args.mode \notin Ascending
  <2>0. args.mode \in Descending
    BY <1>1, <1>7 DEF Flying
  <2>1. FromScreen = line - v /\ FromFile = line - (moved + v) + e
        /\ Onto(line, frame + 1) = line - (moved + v)
    BY <1>1, <1>2, <1>7, <2>0, FromFileLine DEF FromScreen, Onto
  <2>2. CASE FromScreen \in Lines
    <3>1. ~Passed(FromScreen)
      BY <1>2, <1>7, <2>1, <2>2, <1>5 DEF Passed
    <3>2. Onto(FromScreen, frame) = line - v - moved
      BY <1>7, <2>1 DEF Onto
    <3>. HIDE DEF moved, e, v
    <3>3. line - v - moved = line - (moved + v)
      BY <1>2
    <3>. QED BY <1>3, <1>4, <2>1, <2>2, <3>1, <3>2, <3>3
  <2>3. CASE FromScreen \notin Lines
    <3>. DEFINE x == line - (moved + v)
    <3>1. Tape(x) = IF x \in Lines THEN before[x]
                     ELSE IF x < 0 THEN Show(x + e) ELSE Show(x - e)
      BY DEF Tape
    <3>. HIDE DEF moved, e, v
    <3>2. x < 0 /\ x \in Int
      BY <1>1, <1>2, <1>5, <2>1, <2>3
    <3>3. Tape(x) = Show(x + e)
      BY <1>2, <1>5, <3>1, <3>2
    <3>4. Onto(line, frame + 1) = x /\ FromFile = x + e
      BY <1>2, <2>1
    <3>. HIDE DEF x
    <3>. QED BY <1>3, <2>3, <3>3, <3>4
  <2>. QED BY <2>2, <2>3
<1>. QED BY <1>6, <1>7

LEMMA FlyStep ==
  ASSUME DrawTypeOK, FlyInv, Fly
  PROVE  FlyInv'
<1>1. /\ dpc = "draw" /\ args.mode \in Flying /\ frame < Extent \div Move /\ frame \in Nat
      /\ line \in Lines /\ line \in Int /\ args' = args /\ before' = before /\ dpc' = dpc
      /\ Extent \in Nat \ {0} /\ Extent \div Move \in Nat
  BY ExtentAssumption, LastFrame DEF Fly, FlyInv, DrawTypeOK, Lines
<1>2. \A x : Tape(x)' = Tape(x)
  BY <1>1 DEF Tape, Show, Lines
<1>3. ASSUME NEW k \in Lines, k # line PROVE screen'[k] = screen[k]
  BY <1>3 DEF Fly, DrawTypeOK
<1>4. frame' \in 0 .. Extent \div Move /\ line' \in Lines
  BY <1>1 DEF Fly, LastLine, NextLine, FirstLine, Lines
<1>5. frame' = Extent \div Move => line' = FirstLine(args.mode)
  BY <1>1 DEF Fly
<1>6. ASSUME NEW k \in Lines PROVE screen'[k] = Tape(Onto(k, Frames(k)'))
  <2>1. k = line => Frames(k)' = frame + 1
    BY <1>1, <1>6 DEF Fly, Frames, Passed, Flying, Ascending, Descending, FirstLine, LastLine,
                      NextLine, Lines
  <2>2. k # line => Frames(k)' = Frames(k)
    BY <1>1, <1>6 DEF Fly, Frames, Passed, Flying, Ascending, Descending, FirstLine, LastLine,
                      NextLine, Lines
  <2>3. screen[k] = Tape(Onto(k, Frames(k)))
    BY <1>1, <1>6 DEF FlyInv
  <2>. QED BY <1>3, <2>1, <2>2, <2>3, FlyCopies, <1>6
<1>7. \A k \in Lines : screen'[k] = Tape(Onto(k, Frames(k)))'
  BY <1>1, <1>2, <1>6 DEF Onto, Tape, Show, Lines
<1>. QED BY <1>1, <1>4, <1>5, <1>7 DEF FlyInv

------------------------------------------------------------------------------
(* The strips of the shades, and the plain copy. *)

LEMMA PaintLine ==
  ASSUME DrawTypeOK, NEW l \in 0 .. Height - 1, Paint(l),
         NEW k \in Lines
  PROVE  screen'[k] = IF k - args.y = l /\ Painted(l) THEN Show(l) ELSE screen[k]
<1>. DEFINE h == Height
            y == args.y
<1>1. h \in Nat /\ y \in Nat /\ y + h <= Extent /\ l \in 0 .. h - 1 /\ Extent \in Nat
  BY HeightType, ExtentAssumption DEF DrawTypeOK
<1>. HIDE DEF h, y
<1>2. l + y \in Lines /\ y \in Int /\ l \in Int /\ k \in Int
  BY <1>1 DEF Lines
<1>3. l + args.y \in Lines /\ args.y \in Int /\ l \in Int /\ k \in Int
  BY <1>2 DEF y
<1>4. k - args.y = l <=> k = l + args.y
  BY <1>3
<1>. QED BY <1>3, <1>4 DEF Paint, DrawTypeOK

LEMMA ShadeCopies ==
  ASSUME DrawTypeOK, ShadeInv, Shade, Height % Pages = 0,
         NEW k \in Lines
  PROVE  screen'[k] = IF Covered(k) /\ (Shaded(k - args.y) \/ k - args.y = strip * Spacing + line)
                        THEN Show(k - args.y) ELSE before[k]
<1>. DEFINE l == strip * Spacing + line
            o == k - args.y
<1>1. ShadeLine(strip, line) = l
  BY StripStart DEF ShadeLine, DrawTypeOK
<1>2. l \in 0 .. Height - 1
  BY <1>1, ShadeLineBound, SpacingType DEF Shade, ShadeInv, Spacing, DrawTypeOK
<1>3. Paint(l)
  BY <1>1 DEF Shade
<1>4. screen'[k] = IF o = l /\ Painted(l) THEN Show(l) ELSE screen[k]
  BY <1>2, <1>3, PaintLine
<1>5. screen[k] = IF Covered(k) /\ Shaded(o) THEN Show(o) ELSE before[k]
  BY DEF Shade, ShadeInv
<1>6. Covered(k) <=> o \in 0 .. Height - 1 /\ Painted(o)
  BY DEF Covered
<1>. HIDE DEF l, o
<1>7. screen'[k] = IF Covered(k) /\ (Shaded(o) \/ o = l) THEN Show(o) ELSE before[k]
  BY <1>2, <1>4, <1>5, <1>6
<1>. QED BY <1>7 DEF l, o

LEMMA ShadedNext ==
  ASSUME DrawTypeOK, ShadeInv, Shade, NEW l \in Int
  PROVE  Shaded(l)' <=> Shaded(l) \/ l = strip * Spacing + line
<1>1. /\ Spacing' = Spacing /\ Spacing \in Nat /\ line \in 0 .. Spacing - 1
      /\ strip \in 0 .. Pages - 1 /\ Pages \in Nat \ {0}
  BY SpacingType, PagesAssumption DEF Shade, ShadeInv, DrawTypeOK, Spacing, Height
<1>2. ASSUME NEW q \in 0 .. Pages - 1, NEW j \in 0 .. Spacing - 1
      PROVE  (j < line' \/ (j = line' /\ q < strip'))
               <=> j < line \/ (j = line /\ q < strip) \/ (j = line /\ q = strip)
  <2>1. CASE strip = Pages - 1
    BY <1>1, <1>2, <2>1 DEF Shade
  <2>2. CASE strip # Pages - 1
    BY <1>1, <1>2, <2>2 DEF Shade
  <2>. QED BY <2>1, <2>2
<1>. QED BY <1>1, <1>2 DEF Shaded

LEMMA ShadeStep ==
  ASSUME DrawTypeOK, ShadeInv, Shade
  PROVE  ShadeInv'
<1>1. /\ args' = args /\ dpc' = dpc /\ before' = before /\ args.mode = "shades" /\ dpc = "draw"
      /\ Spacing' = Spacing /\ Spacing \in Nat /\ line \in 0 .. Spacing - 1
      /\ strip \in 0 .. Pages - 1 /\ Pages \in Nat \ {0} /\ Height' = Height
  BY SpacingType, PagesAssumption DEF Shade, ShadeInv, DrawTypeOK, Spacing, Height
<1>2. line' \in 0 .. Spacing /\ (line' = Spacing => strip' = 0)
  BY <1>1 DEF Shade
<1>3. ASSUME Height % Pages = 0, NEW k \in Lines
      PROVE  screen'[k] = IF Covered(k)' /\ Shaded(k - args.y)'
                            THEN Show(k - args.y)' ELSE before'[k]
  <2>1. k - args.y \in Int /\ args.y \in Int
    BY HeightType DEF Lines, DrawTypeOK
  <2>2. Covered(k)' = Covered(k) /\ Show(k - args.y)' = Show(k - args.y)
    BY <1>1 DEF Covered, Show, Painted
  <2>3. Shaded(k - args.y)' <=> Shaded(k - args.y) \/ k - args.y = strip * Spacing + line
    <3>. DEFINE l == k - args.y
    <3>1. l \in Int /\ l' = l
      BY <1>1, <2>1
    <3>2. \A m \in Int : Shaded(m)' <=> Shaded(m) \/ m = strip * Spacing + line
      BY ShadedNext
    <3>3. Shaded(k - args.y)' <=> \E q \in 0 .. Pages - 1, j \in 0 .. Spacing' - 1 :
                                    /\ l = q * Spacing' + j
                                    /\ j < line' \/ (j = line' /\ q < strip')
      BY <1>1 DEF Shaded
    <3>. QED BY <3>1, <3>2, <3>3 DEF Shaded
  <2>. QED BY <1>1, <1>3, <2>2, <2>3, ShadeCopies
<1>. QED BY <1>1, <1>2, <1>3 DEF ShadeInv, Lines

LEMMA StillStep ==
  ASSUME DrawTypeOK, StillInv, Still
  PROVE  StillInv'
<1>1. /\ args' = args /\ dpc' = dpc /\ before' = before /\ args.mode = "none" /\ dpc = "draw"
      /\ line \in 0 .. Height - 1 /\ Height' = Height /\ line' = line + 1 /\ Height \in Nat
  BY HeightType DEF Still, StillInv, DrawTypeOK, Height
<1>2. ASSUME NEW k \in Lines
      PROVE  screen'[k] = IF Covered(k) /\ k - args.y < line + 1
                            THEN Show(k - args.y) ELSE before[k]
  <2>. DEFINE o == k - args.y
  <2>1. screen'[k] = IF o = line /\ Painted(line) THEN Show(line) ELSE screen[k]
    BY <1>1, PaintLine DEF Still
  <2>2. screen[k] = IF Covered(k) /\ o < line THEN Show(o) ELSE before[k]
    BY <1>1 DEF StillInv
  <2>3. Covered(k) <=> o \in 0 .. Height - 1 /\ Painted(o)
    BY DEF Covered
  <2>4. o \in Int
    BY HeightType DEF Lines, DrawTypeOK
  <2>. HIDE DEF o
  <2>5. screen'[k] = IF Covered(k) /\ o < line + 1 THEN Show(o) ELSE before[k]
    BY <1>1, <2>1, <2>2, <2>3, <2>4
  <2>. QED BY <2>5 DEF o
<1>3. \A k \in Lines : Covered(k)' = Covered(k) /\ Show(k - args.y)' = Show(k - args.y)
  BY <1>1 DEF Covered, Show, Painted
<1>. QED BY <1>1, <1>2, <1>3 DEF StillInv, Lines

------------------------------------------------------------------------------
(* The invariant. *)

LEMMA BeginEstablishes ==
  ASSUME DrawTypeOK, Begin
  PROVE  FlyInv' /\ ShadeInv' /\ StillInv'
<1>1. /\ dpc' = "draw" /\ args' = args /\ args' \in Calls /\ frame' = 0 /\ strip' = 0
      /\ line' = FirstLine(args.mode) /\ before' = screen /\ screen' = screen
      /\ Extent \in Nat \ {0} /\ Pages \in Nat \ {0}
  BY ExtentAssumption, PagesAssumption DEF Begin, DrawTypeOK
<1>2. FlyInv'
  <2>. SUFFICES ASSUME args'.mode \in Flying PROVE
         /\ frame' \in 0 .. Extent \div Move /\ line' \in Lines
         /\ frame' = Extent \div Move => line' = FirstLine(args'.mode)
         /\ \A k \in Lines : screen'[k] = Tape(Onto(k, Frames(k)))'
    BY DEF FlyInv, Lines
  <2>1. frame' \in 0 .. Extent \div Move /\ line' \in Lines
    BY <1>1, LastFrame DEF FirstLine, Lines
  <2>2. ASSUME NEW k \in Lines PROVE screen'[k] = Tape(Onto(k, Frames(k)))'
    <3>1. ~Passed(k)'
      BY <1>1, <2>2 DEF Passed, FirstLine, Lines, Flying, Ascending, Descending
    <3>2. Onto(k, Frames(k))' = k
      BY <1>1, <3>1, ExtentAssumption, <2>2 DEF Frames, Onto, Lines
    <3>3. Tape(Onto(k, Frames(k)))' = screen[k]
      BY <1>1, <2>2, <3>2 DEF Tape, Lines
    <3>. QED BY <1>1, <3>3
  <2>. QED BY <1>1, <2>1, <2>2
<1>3. ShadeInv'
  <2>. SUFFICES ASSUME args'.mode = "shades" PROVE
         /\ line' \in 0 .. Spacing'
         /\ \A k \in Lines : ~Shaded(k - args.y)'
    BY <1>1 DEF ShadeInv, Lines
  <2>1. line' = 0
    BY <1>1 DEF FirstLine, Descending
  <2>2. Spacing' \in Nat
    <3>. DEFINE h == Rows[args.pic]
    <3>1. h \in Nat
      BY CallsAssumption, PictureAssumption DEF DrawTypeOK
    <3>2. Spacing' = h \div Pages
      BY <1>1 DEF Spacing, Height
    <3>. HIDE DEF h
    <3>. QED BY <1>1, <3>1, <3>2
  <2>3. ASSUME NEW k \in Lines PROVE ~Shaded(k - args.y)'
    BY <1>1, <2>1 DEF Shaded
  <2>. QED BY <2>1, <2>2, <2>3
<1>4. StillInv'
  <2>. SUFFICES ASSUME args'.mode = "none" PROVE
         /\ line' \in 0 .. Height'
         /\ \A k \in Lines : ~(Covered(k) /\ k - args.y < line)'
    BY <1>1 DEF StillInv, Lines
  <2>1. line' = 0
    BY <1>1 DEF FirstLine, Descending
  <2>2. Height' \in Nat
    BY <1>1, CallsAssumption, PictureAssumption DEF Height, DrawTypeOK
  <2>3. ASSUME NEW k \in Lines PROVE ~(Covered(k) /\ k - args.y < line)'
    BY <2>1, <2>2 DEF Covered
  <2>. QED BY <2>1, <2>2, <2>3
<1>. QED BY <1>2, <1>3, <1>4

LEMMA InvInit == DrawInit => FlyInv /\ ShadeInv /\ StillInv
BY DEF DrawInit, FlyInv, ShadeInv, StillInv

(* A step that leaves the drawing alone, and one that ends it. *)
LEMMA Untouched ==
  ASSUME FlyInv, ShadeInv, StillInv,
         dpc' = "idle" \/ UNCHANGED <<dpc, args, frame, line, strip, screen, before>>
  PROVE  FlyInv' /\ ShadeInv' /\ StillInv'
<1>1. CASE dpc' = "idle"
  BY <1>1 DEF FlyInv, ShadeInv, StillInv
<1>2. CASE UNCHANGED <<dpc, args, frame, line, strip, screen, before>>
  BY <1>2 DEF FlyInv, ShadeInv, StillInv, Passed, Frames, Onto, Tape, Show, Lines, Height,
              Spacing, Shaded, Covered, Painted
<1>. QED BY <1>1, <1>2

LEMMA InvStep ==
  ASSUME DrawTypeOK, FlyInv, ShadeInv, StillInv, [DrawNext]_drawVars
  PROVE  FlyInv' /\ ShadeInv' /\ StillInv'
<1>1. CASE (\E c \in Calls : OpenFile(c)) \/ OpenScreen \/ OpenScreenFails \/ ReadFails
  <2>1. dpc # "draw" /\ dpc' # "draw"
    BY <1>1 DEF OpenFile, OpenScreen, OpenScreenFails, ReadFails, Failed
  <2>. QED BY <2>1 DEF FlyInv, ShadeInv, StillInv
<1>2. CASE Begin
  BY <1>2, BeginEstablishes
<1>3. CASE Fly
  BY <1>3, FlyStep DEF Fly, ShadeInv, StillInv, Flying, Ascending, Descending
<1>4. CASE Still
  BY <1>4, StillStep DEF Still, ShadeInv, FlyInv, Flying, Ascending, Descending
<1>5. CASE Shade
  BY <1>5, ShadeStep DEF Shade, FlyInv, StillInv, Flying, Ascending, Descending
<1>6. CASE FlyEnd \/ StillEnd \/ ShadeEnd
  BY <1>6, Untouched DEF FlyEnd, StillEnd, ShadeEnd, End
<1>7. CASE UNCHANGED drawVars
  BY <1>7, Untouched DEF drawVars
<1>. QED BY <1>1, <1>2, <1>3, <1>4, <1>5, <1>6, <1>7 DEF DrawNext, Draw

LEMMA DrawInvariant == DrawSpec => [](DrawInv /\ CountInv)
<1>1. DrawInit => DrawInv /\ CountInv
  BY TypeInit, CountInit, InvInit DEF DrawInv
<1>2. DrawInv /\ CountInv /\ [DrawNext]_drawVars => (DrawInv /\ CountInv)'
  BY TypeStep, CountStep, InvStep DEF DrawInv
<1>. QED BY <1>1, <1>2, PTL DEF DrawSpec

------------------------------------------------------------------------------
(* What follows from it. *)

(* The variables of showThePic stay in their types, whatever is drawn. *)
THEOREM DrawingTypes == DrawSpec => []DrawTypeOK
BY DrawInvariant, PTL DEF DrawInv

(* Copying in place loses no line: after each frame the screen has moved by   *)
(* Move lines, and the picture follows it (pichandler.c:128-216).             *)
THEOREM FramesMove == DrawSpec => []FrameMoves
<1>1. DrawInv => FrameMoves
  <2>. SUFFICES ASSUME DrawInv, dpc = "draw", args.mode \in Flying,
                       line = FirstLine(args.mode), NEW k \in Lines
                PROVE  screen[k] = Tape(Onto(k, frame))
    BY DEF FrameMoves, Onto
  <2>1. ~Passed(k)
    BY DEF Passed, FirstLine, Lines, Flying, Ascending, Descending
  <2>. QED BY <2>1 DEF DrawInv, FlyInv, Frames
<1>. QED BY <1>1, DrawInvariant, PTL

(* The loops read inside the picture's buffer or the frame buffer, also when  *)
(* the strips do not divide the height (pichandler.c:128-242).                *)
THEOREM BuffersHold == DrawSpec => []InsideBuffers
<1>1. DrawInv => InsideBuffers
  <2>. SUFFICES ASSUME DrawInv, dpc = "draw" PROVE InsideBuffers
    BY DEF InsideBuffers
  <2>1. ASSUME args.mode \in Flying, frame < Extent \div Move
        PROVE  line \in Lines /\ (FromScreen \in Lines \/ FromFile \in 0 .. Height - 1)
    <3>. DEFINE moved == frame * Move
                e == Extent
                v == Move
    <3>1. line \in Lines /\ frame \in Nat /\ args \in Calls
      BY <2>1 DEF DrawInv, FlyInv, DrawTypeOK
    <3>2. /\ moved \in Int /\ moved >= 0 /\ moved + v <= e /\ (frame + 1) * Move = moved + v
          /\ e \in Nat /\ v \in Nat \ {0} /\ line \in 0 .. e - 1 /\ Height = e
      BY <2>1, <3>1, FrameBound, NextFrame, ExtentAssumption, HeightType DEF Lines
    <3>3. args.mode \in Ascending =>
            FromScreen = line + v /\ FromFile = line + (moved + v) - e
      BY <2>1, <3>2, FromFileLine DEF FromScreen, DrawInv
    <3>4. args.mode \notin Ascending =>
            FromScreen = line - v /\ FromFile = line - (moved + v) + e
      BY <2>1, <3>2, FromFileLine DEF FromScreen, DrawInv, Flying
    <3>5. Lines = 0 .. e - 1
      BY DEF Lines
    <3>. HIDE DEF moved, e, v
    <3>6. CASE args.mode \in Ascending
      BY <3>2, <3>3, <3>5, <3>6, <3>1
    <3>7. CASE args.mode \notin Ascending
      BY <3>2, <3>4, <3>5, <3>7, <3>1
    <3>. QED BY <3>6, <3>7
  <2>2. ASSUME args.mode = "shades", line < Height \div Pages
        PROVE  ShadeLine(strip, line) \in 0 .. Height - 1
    BY <2>2, ShadeLineBound, SpacingType DEF DrawInv, ShadeInv, DrawTypeOK, Spacing
  <2>. QED BY <2>1, <2>2 DEF InsideBuffers
<1>. QED BY <1>1, DrawInvariant, PTL

(* The whole picture is on the screen when a call is through with it, and     *)
(* around it nothing has changed (pichandler.c:105-247).                      *)
THEOREM PicturesShown == DrawSpec => []PictureShown
<1>1. ASSUME DrawInv, dpc = "draw", args.mode = "none", line = Height, NEW k \in Lines
      PROVE  screen[k] = IF Covered(k) THEN Show(k - args.y) ELSE before[k]
  <2>1. Covered(k) => k - args.y < line
    BY <1>1, HeightType DEF Covered, DrawInv, DrawTypeOK, Lines
  <2>. QED BY <1>1, <2>1 DEF DrawInv, StillInv
<1>2. ASSUME DrawInv, dpc = "draw", args.mode = "shades", line = Height \div Pages,
             Height % Pages = 0, NEW k \in Lines
      PROVE  screen[k] = IF Covered(k) THEN Show(k - args.y) ELSE before[k]
  <2>1. Covered(k) => Shaded(k - args.y)
    BY <1>2, StripOfLine, SpacingType DEF Covered, Shaded, Spacing, DrawInv, DrawTypeOK
  <2>. QED BY <1>2, <2>1 DEF DrawInv, ShadeInv
<1>3. ASSUME DrawInv, dpc = "draw", args.mode \in Flying, frame = Extent \div Move,
             args.show = "shading", NEW k \in Lines
      PROVE  screen[k] = IF Covered(k) THEN Show(k - args.y) ELSE before[k]
  <2>0. args.y = 0 /\ Height = Extent /\ Extent \in Nat \ {0} /\ frame * Move = Extent
    BY <1>3, HeightType, LastFrame, ExtentAssumption DEF DrawInv, DrawTypeOK
  <2>1. k \in 0 .. Extent - 1 /\ k - args.y = k
    BY <2>0 DEF Lines
  <2>2. line = FirstLine(args.mode)
    BY <1>3 DEF DrawInv, FlyInv
  <2>3. ~Passed(k)
    BY <1>3, <2>0, <2>1, <2>2 DEF Passed, FirstLine, Flying, Ascending, Descending
  <2>4. screen[k] = Tape(Onto(k, frame))
    BY <1>3, <2>3 DEF DrawInv, FlyInv, Frames
  <2>5. Onto(k, frame) = IF args.mode \in Ascending THEN k + Extent ELSE k - Extent
    BY <2>0 DEF Onto
  <2>6. Tape(k + Extent) = Show(k) /\ Tape(k - Extent) = Show(k)
    <3>1. Tape(k + Extent) = Show(k + Extent - Extent)
      BY <2>0, <2>1 DEF Tape, Lines
    <3>2. Tape(k - Extent) = Show(k - Extent + Extent)
      BY <2>0, <2>1 DEF Tape, Lines
    <3>3. k + Extent - Extent = k /\ k - Extent + Extent = k
      BY <2>0, <2>1
    <3>. QED BY <3>1, <3>2, <3>3
  <2>7. Covered(k)
    BY <1>3, <2>0, <2>1 DEF Covered, Painted
  <2>. QED BY <2>1, <2>4, <2>5, <2>6, <2>7
<1>4. DrawInv => PictureShown
  BY <1>1, <1>2, <1>3 DEF PictureShown
<1>. QED BY <1>4, DrawInvariant, PTL

(* A call that fails keeps the descriptor it does not close, and its buffer    *)
(* with lcdFd; any other call gives everything back (pichandler.c:51-56,      *)
(* 83-89, 258-264).                                                           *)
THEOREM Descriptors == DrawSpec => []OneLeakPerFailure
<1>1. DrawInv /\ CountInv => OneLeakPerFailure
  BY DEF DrawInv, DrawTypeOK, CountInv, OneLeakPerFailure, Files, Screens, Resources
<1>. QED BY <1>1, DrawInvariant, PTL
=============================================================================
