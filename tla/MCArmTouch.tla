----------------------------- MODULE MCArmTouch -----------------------------
(* Touches that stand for the regions and gestures main.c distinguishes. *)
EXTENDS ArmTouchClaims, TLC

At(x, y) == [a |-> x, b |-> y, dx |-> 0, dy |-> 0]
Swiped(x, y, mx, my) == [a |-> x, b |-> y, dx |-> mx, dy |-> my]

PicTile   == At(480, 300)
MusicTile == At(320, 300)   \* on the album page also a menu choice
VideoTile == At(160, 300)
VoiceTile == At(650, 300)
Corner    == At(780, 30)    \* shutdown on the main menu, back on the other pages
PlayTap == At(400, 450)
PrevTap == At(280, 450)
NextTap == At(520, 450)

MusicTaps == {MusicTile, Corner, PlayTap, PrevTap, NextTap}
AlbumTaps == {PicTile, MusicTile, Corner, At(400, 300),
              Swiped(400, 200, 90, 20), Swiped(400, 200, -90, 0),
              Swiped(400, 200, 0, 70), Swiped(400, 200, 20, -70)}
AlbumFiles == [music |-> 1, video |-> 1, pic |-> 3]

PageTaps == {MusicTile, VideoTile, Corner, PlayTap}
OneFile == [l \in Lists |-> 1]

VoiceTaps == {VoiceTile, At(30, 30), Corner, NextTap}
ClaimTaps == {MusicTile, Corner, PlayTap, NextTap}
PidSymmetry == Permutations(Pids)
MusicFiles == [music |-> 2, video |-> 1, pic |-> 1]
=============================================================================
