--------------------------- MODULE ArmTouchProps ---------------------------
(* What armTouch gets right although its threads share their globals without  *)
(* a lock, and where it does not.                                             *)
EXTENDS ArmTouch

TypeOK == UiTypeOK /\ PlayersTypeOK

(* M stores the resting state at the end of a case without looking at what T  *)
(* stored meanwhile (main.c:588, 597, 606, 612, 618, 624).  That overwrites a *)
(* skip or a stop, but never a start, a hold or a continue: T stores those    *)
(* only over a resting state, when M has nothing left to store.               *)
TogglesNotLost ==
  \A m \in Media :
    mpc = "store" /\ mpage = PageOf[m]
      => status[m] \in {mcmd, "NEXT", "PREV", "STOP"}

(* Whatever the two threads do, the program never has two players of one      *)
(* medium alive, except one that a killall came too early for: it starts a    *)
(* player only after stopping the last one, or when none can be alive.        *)
OnePlayer == \A m \in Media : \A p, q \in Fresh(m) : p = q

(* While the page says that nothing has been started (main.c:515 would start  *)
(* a new player on the next press), no player is alive that a stop did not    *)
(* miss.                                                                      *)
NullIsSilent == \A m \in Media : status[m] = "NULL" => Fresh(m) = {}

(* The file that plays is the one the index stands at, so that NEXT and PREV  *)
(* move relative to what the user hears (main.c:594-595, 603-604).            *)
NowPlaying == \A m \in Media : \A p \in Fresh(m) : procs[p].track = index[m]

(* The indices survive their page while the length is listed again on every   *)
(* entry, and "index == count - 1" only wraps if the index is still below the *)
(* new count (main.c:315, 333, 594).                                          *)
IndexInRange == \A l \in Lists : index[l] < count[l] /\ count[l] <= files[l]

(* Each page is a remote control in the sense of module Remote: M carries out *)
(* a start only on a stopped player, a hold only on a playing one and a       *)
(* continue only on a paused one, although T decided on it earlier and from   *)
(* the status alone (main.c:515-532, 396-413).                                *)
Page == INSTANCE Remote
          WITH Players <- Media, pos <- [m \in Media |-> index[m]]
RemoteControl == Page!Spec

(* A slide show chosen in the album's menu is not overwritten by the end of   *)
(* the step M is in (main.c:305, 336-386).                                    *)
SlideShowNotLost == mpc = "store" /\ mpage = "PIC" => pic_status \notin SlideShow

(* proc_pic draws the first file on entry, not the one indexPic stands at     *)
(* (main.c:286, 289).  The difference is never left on the screen: opening    *)
(* the album from the menu sets PIC_PLAY, which shows the picture of indexPic *)
(* before it waits for a command, even if the user is leaving or returning    *)
(* at the time.  (A voice command opens the album without PIC_PLAY.)          *)
AlbumAtRest == /\ mpage = "PIC" /\ mpc \in {"loop", "switch"}
               /\ ui_status = "PIC" /\ tpc \notin {"open_album", "leave"}
               /\ pic_status \in {"NULL", "MENUE"}

PictureIsIndexed == AlbumAtRest => shown = index["pic"]

------------------------------------------------------------------------------
(* The inductive invariant behind the safety properties. *)

AtStore(m) == mpc = "store" /\ mpage = PageOf[m]

Skips == {"NEXT", "PREV", "STOP"}

(* The resting state T must have seen to decide on each of the other triggers. *)
DecidedOn == [START |-> "NULL", HOLD |-> "PLAY", CONTI |-> "PAUSE"]
Toggles == {"START", "HOLD", "CONTI"}

(* While M is between a case's calls and its store, T can only have stored a  *)
(* skip.  At all other times the status tells what the player was left in:    *)
(* directly when it rests, by what T decided on when a toggle waits.          *)
StatusInv(m) ==
  /\ AtStore(m) => /\ mcmd \in Trigger
                   /\ status[m] \in {mcmd} \cup Skips
                   /\ mode[m] = Settled[mcmd]
  /\ ~AtStore(m) => /\ status[m] \in Resting => mode[m] = status[m]
                    /\ status[m] \in Toggles => mode[m] = DecidedOn[status[m]]

(* What T decided on is still there when T stores. *)
DecisionInv(m) ==
  tpc = "write" /\ tpage = PageOf[m]
    => /\ tcmd \in Skips \cup Toggles
       /\ tcmd \in Toggles => status[m] = DecidedOn[tcmd]

ProcessInv(m) ==
  /\ mode[m] = "NULL" => Fresh(m) = {}
  /\ \A p, q \in Fresh(m) : p = q
  /\ \A p \in Fresh(m) : procs[p].track = index[m]

(* The same for the album: M is never at its store while the menu is up, so   *)
(* the menu T saw is still up when T stores the choice.                       *)
AlbumInv ==
  /\ mpc = "store" /\ mpage = "PIC" => pic_status \notin SlideShow \cup {"MENUE"}
  /\ tpage = "PIC" /\ tpc = "read2" => pic_status = "MENUE"
  /\ tpage = "PIC" /\ tpc = "write"
       => /\ tcmd \in PicStatus \ {"MENUE"}
          /\ tcmd \in SlideShow => pic_status = "MENUE"

(* Behind PictureIsIndexed, when no voice reply opens the album: until M has  *)
(* drawn the picture of indexPic there is a command that makes it do so, and  *)
(* T stores over that command only what it has decided on after M drew, or    *)
(* what it leaves the page with.                                              *)
AlbumDrawn == mpage = "PIC" /\ mpc \in {"loop", "switch", "store"} /\ shown = index["pic"]

DrawnInv ==
  /\ mpage = "PIC" /\ mpc = "store" => AlbumDrawn
  /\ ui_status = "PIC" /\ tpc \notin {"open_album", "leave"} /\ ~AlbumDrawn
       => pic_status \notin {"NULL", "MENUE"}
  /\ ui_status = "PIC" /\ tpage = "PIC" /\ tpc = "read2" => AlbumDrawn
  /\ ui_status = "PIC" /\ tpage = "PIC" /\ tpc = "write" /\ tcmd = "NULL"
       => AlbumBack(tap) \/ AlbumDrawn

ReplyInv == mpc = "apply" => mcmd \in Replies

IInv == /\ TypeOK
        /\ \A m \in Media : StatusInv(m) /\ DecisionInv(m) /\ ProcessInv(m)
        /\ AlbumInv
        /\ ReplyInv
        /\ IndexInRange

------------------------------------------------------------------------------
(* Liveness, without the voice page. *)

(* M catches up with ui_status: the page it runs does not stay different      *)
(* from the one asked for (main.c:769-803).                                   *)
PageFollows == ui_status # mpage ~> ui_status = mpage

(* A trigger that T stores while M is not between the calls of a case and its *)
(* store is carried out, or the one that T replaced it by, unless the page is *)
(* left.  (One stored in between may be lost to M's store: TogglesNotLost,    *)
(* and BackStops of module ArmTouchClaims.)                                   *)
TriggerServed ==
  \A m \in Media :
    status[m] \in Trigger /\ ~AtStore(m) /\ ui_status = PageOf[m]
      ~> AtStore(m) \/ ui_status # PageOf[m]

(* Switching off ends the program (main.c:796-800). *)
ShutdownEnds == ui_status = "END" ~> mpc = "exited"
=============================================================================
