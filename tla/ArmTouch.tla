------------------------------ MODULE ArmTouch ------------------------------
(* The program armTouch: main() with proc_main, proc_voice and proc_end,      *)
(* ts_pthread with proc_ts_main and proc_ts_voice, and the two threads'       *)
(* composition with the pages of PlayerPages and AlbumPage, the players of    *)
(* Players and the user.                                                      *)
EXTENDS PlayerPages, AlbumPage

(* main()'s switch. *)
Dispatch ==
  /\ MGo("dispatch", "enter")
  /\ ui_status # "END"
  /\ mpage' = ui_status
  /\ UNCHANGED <<globals, mcmd, count, shown, mode, tVars, files, playerVars>>

(* Faulty: no return after proc_end. *)
ExitLoops ==
  /\ MGo("dispatch", "dispatch")
  /\ ui_status = "END"
  /\ mpage' = ui_status
  /\ UNCHANGED <<globals, mcmd, count, shown, mode, tVars, files, playerVars>>

(* proc_end, return 0: the process ends, and T with it. *)
Exit ==
  /\ MGo("dispatch", "exited")
  /\ ui_status = "END"
  /\ mpage' = ui_status
  /\ UNCHANGED <<globals, mcmd, count, shown, mode, tVars, files, playerVars>>

(* proc_main and proc_voice draw and begin to loop. *)
EnterOther ==
  /\ MGo("enter", "loop")
  /\ mpage \in {"MAIN", "VOICE"}
  /\ UNCHANGED <<globals, mpage, mcmd, count, shown, mode, tVars, files, playerVars>>

(* Faulty: the shutdown is not noticed. *)
LeaveButEnd ==
  /\ MGo("loop", "dispatch")
  /\ ui_status \notin {mpage, "END"}
  /\ UNCHANGED <<globals, mpage, mcmd, count, shown, mode, tVars, files, playerVars>>

(* The test of every page's while.  proc_main has an empty body. *)
Leave ==
  /\ MGo("loop", "dispatch")
  /\ ui_status # mpage
  /\ UNCHANGED <<globals, mpage, mcmd, count, shown, mode, tVars, files, playerVars>>

Again ==
  /\ MGo("loop", IF mpage = "VOICE" THEN "request" ELSE "switch")
  /\ ui_status = mpage /\ mpage # "MAIN"
  /\ UNCHANGED <<globals, mpage, mcmd, count, shown, mode, tVars, files, playerVars>>

(* proc_voice: sendFileAndGetString returns with some answer.  It blocks      *)
(* until the server has been reached and has answered, which may be never.    *)
VoiceReply ==
  /\ MGo("request", "apply")
  /\ mcmd' \in Replies
  /\ UNCHANGED <<globals, mpage, count, shown, mode, tVars, files, playerVars>>

(* The chain of strcmp: a known answer is stored into ui_status, whatever     *)
(* ui_status is by now; any other shows a failure for six seconds.            *)
VoiceApply ==
  /\ MGo("apply", "loop")
  /\ ui_status' = IF mcmd = "other" THEN ui_status ELSE mcmd
  /\ mcmd' = "NULL"
  /\ UNCHANGED <<pic_status, status, index, mpage, count, shown, mode, tVars, files, playerVars>>

MStep == \/ Dispatch \/ Exit \/ EnterOther \/ Leave \/ Again \/ VoiceApply
         \/ EnterAlbum \/ ServeAlbum
         \/ \E m \in Media : EnterMedia(m) \/ ServeMedia(m)

------------------------------------------------------------------------------
(* ts_pthread: the finger is lifted, T reads ui_status and calls the page's   *)
(* handler.  On UI_END no handler is called.                                  *)
Touched ==
  /\ mpc # "exited" /\ tpc = "idle"
  /\ \E t \in Taps :
       \/ /\ ui_status = "MAIN"
          /\ MainTarget(t) # {}
          /\ tpc' = "goto"
          /\ tap' = t
       \/ /\ ui_status = "VOICE"
          /\ VoiceBack(t)
          /\ tpc' = "leave"
          /\ tap' = t
       \/ /\ ui_status \in MediaPages \cup {"PIC"}
          /\ tpc' = "read"
          /\ tap' = t
  /\ tpage' = ui_status
  /\ UNCHANGED <<globals, mVars, tcmd, files, playerVars>>

(* proc_ts_main *)
GoTo ==
  /\ mpc # "exited" /\ tpc = "goto"
  /\ ui_status' \in MainTarget(tap)
  /\ IF ui_status' = "PIC" THEN tpc' = "open_album" /\ UNCHANGED <<tpage, tap, tcmd>>
                           ELSE TDone
  /\ UNCHANGED <<pic_status, status, index, mVars, files, playerVars>>
(* Faulty: the album is opened without a command, as a voice reply opens it. *)
OpenAlbumSilently ==
  /\ mpc # "exited" /\ tpc = "open_album"
  /\ TDone
  /\ UNCHANGED <<globals, mVars, files, playerVars>>

OpenAlbum ==
  /\ mpc # "exited" /\ tpc = "open_album"
  /\ pic_status' = "PLAY"
  /\ TDone
  /\ UNCHANGED <<ui_status, status, index, mVars, files, playerVars>>

(* The last store of every back button. *)
BackToMain ==
  /\ mpc # "exited" /\ tpc = "leave"
  /\ ui_status' = "MAIN"
  /\ TDone
  /\ UNCHANGED <<pic_status, status, index, mVars, files, playerVars>>

TStep == \/ GoTo \/ OpenAlbum \/ BackToMain \/ TouchAlbum
         \/ \E m \in Media : TouchMedia(m)

------------------------------------------------------------------------------
(* The players and the kernel, and the user copying a file onto the card. *)
PlayerExec(p)     == Exec(p) /\ UNCHANGED <<globals, mVars, tVars, files>>
PlayerFinish(p)   == Finish(p) /\ UNCHANGED <<globals, mVars, tVars, files>>
RunKillall(m, s)  == Deliver(m, s) /\ UNCHANGED <<globals, mVars, tVars, files>>

AddFile(l) ==
  /\ files[l] < MaxFiles[l]
  /\ files' = [files EXCEPT ![l] = @ + 1]
  /\ UNCHANGED <<globals, mVars, tVars, playerVars>>

Environment == \/ \E p \in Pids : PlayerExec(p) \/ PlayerFinish(p)
               \/ \E m \in Media, s \in Sig : RunKillall(m, s)
               \/ \E l \in Lists : AddFile(l)

Next == MStep \/ VoiceReply \/ TStep \/ Touched \/ Environment

Init == UiInit /\ PlayersInit

Spec == Init /\ [][Next]_vars

(* M never blocks outside the voice request, T finishes the touch it is       *)
(* handling, and both run under the kernel's fair scheduler.  Nothing obliges *)
(* the user to touch, the server to answer, or a player to move.              *)
Fairness == WF_vars(MStep) /\ WF_vars(TStep)

FairSpec == Spec /\ Fairness
=============================================================================
