----------------------------- MODULE AlbumPage -----------------------------
(* The picture album: proc_pic on the main thread, proc_ts_pic on the touch   *)
(* thread.  pic_status carries the commands; PLAY asks for the menu, MENUE    *)
(* says it is on the screen, a slide show keeps its command until the next    *)
(* touch, and every single step ends in NULL.                                 *)
EXTENDS UiState, TouchTargets

LOCAL Album == mpage = "PIC"

(* List the directory and draw its first file, whatever indexPic is. *)
EnterAlbum ==
  /\ MGo("enter", "loop")
  /\ Album
  /\ count' = [count EXCEPT !["pic"] = files["pic"]]
  /\ shown' = 0
  /\ UNCHANGED <<globals, mpage, mcmd, mode, tVars, files, playerVars>>

(* As in PlayerPages, the switch reads pic_status once and the work of its    *)
(* case belongs to the same step: T looks at neither index nor screen.        *)
AlbumIdle ==
  /\ MGo("switch", "loop")
  /\ Album
  /\ pic_status \in {"NULL", "MENUE"}
  /\ UNCHANGED <<globals, mpage, mcmd, count, shown, mode, tVars, files, playerVars>>

ShowMenu ==
  /\ MGo("switch", "store")
  /\ Album
  /\ pic_status = "PLAY"
  /\ mcmd' = pic_status
  /\ shown' = index["pic"]
  /\ UNCHANGED <<globals, mpage, count, mode, tVars, files, playerVars>>

(* Faulty: a slide show's case ends in the store of the other cases. *)
SlideStoring(i) ==
  /\ MGo("switch", "store")
  /\ Album
  /\ mcmd' = pic_status
  /\ index' = [index EXCEPT !["pic"] = i]
  /\ shown' = i
  /\ UNCHANGED <<ui_status, pic_status, status, mpage, count, mode, tVars, files, playerVars>>

(* A slide show moves to another picture and leaves pic_status alone. *)
Slide(i) ==
  /\ MGo("switch", "loop")
  /\ Album
  /\ index' = [index EXCEPT !["pic"] = i]
  /\ shown' = i
  /\ UNCHANGED <<ui_status, pic_status, status, mpage, mcmd, count, mode, tVars,
                 files, playerVars>>

SlideSequential == /\ pic_status = "PLAY_SEQUENTIAL"
                   /\ Slide(After(index["pic"], count["pic"]))
SlideShuffle == /\ pic_status = "PLAY_SHUFFLE"
                /\ \E i \in 0 .. count["pic"] - 1 : Slide(i)

Turn(i) ==
  /\ MGo("switch", "store")
  /\ Album
  /\ mcmd' = pic_status
  /\ index' = [index EXCEPT !["pic"] = i]
  /\ shown' = i
  /\ UNCHANGED <<ui_status, pic_status, status, mpage, count, mode, tVars, files, playerVars>>

TurnNext == pic_status \in PicNext /\ Turn(After(index["pic"], count["pic"]))
TurnPrev == pic_status \in PicPrev /\ Turn(Before(index["pic"], count["pic"]))

SettleAlbum ==
  /\ MGo("store", "loop")
  /\ Album
  /\ pic_status' = IF mcmd = "PLAY" THEN "MENUE" ELSE "NULL"
  /\ mcmd' = "NULL"
  /\ UNCHANGED <<ui_status, status, index, mpage, count, shown, mode, tVars, files, playerVars>>

ServeAlbum == \/ AlbumIdle \/ ShowMenu \/ SlideSequential \/ SlideShuffle
              \/ TurnNext \/ TurnPrev \/ SettleAlbum

------------------------------------------------------------------------------
(* T has read ui_status = UI_PIC. *)

(* No menu: the gesture alone decides what is stored. *)
BrowseAlbum ==
  /\ mpc # "exited" /\ tpc = "read"
  /\ tpage = "PIC"
  /\ pic_status # "MENUE"
  /\ \/ Browse(tap) = {} /\ TDone
     \/ \E c \in Browse(tap) :
          tcmd' = c /\ tpc' = "write" /\ UNCHANGED <<tpage, tap>>
  /\ UNCHANGED <<globals, mVars, files, playerVars>>

(* The menu: the second read is the one the conditions repeat. *)
SeeMenu ==
  /\ TGo("read", "read2")
  /\ tpage = "PIC"
  /\ pic_status = "MENUE"
  /\ UNCHANGED <<globals, mVars, tpage, tap, tcmd, files, playerVars>>

ChooseAlbum ==
  /\ TGo("read2", "write")
  /\ tpage = "PIC"
  /\ tcmd' = IF InMenuBand(tap) /\ pic_status = "MENUE" THEN MenuChoice(tap)
                                                        ELSE "NULL"
  /\ tap' = NoTap
  /\ UNCHANGED <<globals, mVars, tpage, files, playerVars>>

(* Storing NULL for the back button is followed by the store of ui_status; a  *)
(* touch that dismisses the menu there only dismisses it (tap is cleared).   *)
StoreAlbum ==
  /\ mpc # "exited" /\ tpc = "write"
  /\ tpage = "PIC"
  /\ pic_status' = tcmd
  /\ IF AlbumBack(tap) THEN tpc' = "leave" /\ UNCHANGED <<tpage, tap, tcmd>>
                       ELSE TDone
  /\ UNCHANGED <<ui_status, status, index, mVars, files, playerVars>>

TouchAlbum == BrowseAlbum \/ SeeMenu \/ ChooseAlbum \/ StoreAlbum
=============================================================================
