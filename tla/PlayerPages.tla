---------------------------- MODULE PlayerPages ----------------------------
(* The music and the video page: proc_music and proc_video on the main        *)
(* thread, proc_ts_music and proc_ts_video on the touch thread.  The two      *)
(* pages run the same protocol on a status variable: T stores a trigger, M    *)
(* carries it out and then stores the resting state that follows from it.     *)
(* Parameter m is the medium.                                                 *)
EXTENDS UiState, TouchTargets

(* The resting state each trigger ends in. *)
Settled == [START |-> "PLAY", NEXT |-> "PLAY", PREV |-> "PLAY", STOP |-> "NULL",
            HOLD |-> "PAUSE", CONTI |-> "PLAY"]

(* M's switch finds trigger c: from here to the end of the case it is busy    *)
(* with c, whatever T stores meanwhile.                                       *)
Take(m, c) ==
  /\ MGo("switch", "store")
  /\ mpage = PageOf[m]
  /\ status[m] = c
  /\ mcmd' = c
  /\ mode' = [mode EXCEPT ![m] = Settled[c]]

(* Draw the page and list the directory. *)
EnterMedia(m) ==
  /\ MGo("enter", "loop")
  /\ mpage = PageOf[m]
  /\ count' = [count EXCEPT ![m] = files[m]]
  /\ UNCHANGED <<globals, mpage, mcmd, shown, mode, tVars, files, playerVars>>

(* The switch reads the status once.  The calls a case makes are part of the  *)
(* same step: T never looks at the index or at the players, and the system    *)
(* only moves the players by Exec, Finish and Deliver, which may as well come *)
(* before or after the calls.                                                 *)
ServeStart(m) ==
  /\ Take(m, "START")
  /\ Play(m, index[m])
  /\ UNCHANGED <<globals, mpage, count, shown, tVars, files>>
(* Faulty: the file name is combined before the index moves. *)
ServeSkipOld(m, c, i) ==
  /\ Take(m, c)
  /\ index' = [index EXCEPT ![m] = i]
  /\ Restart(m, index[m])
  /\ UNCHANGED <<ui_status, pic_status, status, mpage, count, shown, tVars, files>>

ServeSkip(m, c, i) ==
  /\ Take(m, c)
  /\ index' = [index EXCEPT ![m] = i]
  /\ Restart(m, i)
  /\ UNCHANGED <<ui_status, pic_status, status, mpage, count, shown, tVars, files>>

ServeNext(m) == ServeSkip(m, "NEXT", After(index[m], count[m]))
ServePrev(m) == ServeSkip(m, "PREV", Before(index[m], count[m]))

ServeStop(m) ==
  /\ Take(m, "STOP")
  /\ Stop(m)
  /\ UNCHANGED <<globals, mpage, count, shown, tVars, files>>

ServeSignal(m, c, s) ==
  /\ Take(m, c)
  /\ Post(m, s)
  /\ UNCHANGED <<globals, mpage, count, shown, tVars, files>>

ServeHold(m)  == ServeSignal(m, "HOLD", "STOP")

(* Faulty: the label of the case above, copied. *)
ServeContiCopied(m) == ServeSignal(m, "HOLD", "CONT")

ServeConti(m) == ServeSignal(m, "CONTI", "CONT")

(* A resting state: nothing to do. *)
Rest(m) ==
  /\ MGo("switch", "loop")
  /\ mpage = PageOf[m]
  /\ status[m] \in {"NULL", "PAUSE", "PLAY"}
  /\ UNCHANGED <<globals, mpage, mcmd, count, shown, mode, tVars, files, playerVars>>

(* The store that ends every case. *)
Settle(m) ==
  /\ MGo("store", "loop")
  /\ mpage = PageOf[m]
  /\ status' = [status EXCEPT ![m] = Settled[mcmd]]
  /\ mcmd' = "NULL"
  /\ UNCHANGED <<ui_status, pic_status, index, mpage, count, shown, mode, tVars,
                 files, playerVars>>

ServeMedia(m) ==
  \/ ServeStart(m) \/ ServeNext(m) \/ ServePrev(m) \/ ServeStop(m)
  \/ ServeHold(m) \/ ServeConti(m) \/ Rest(m) \/ Settle(m)

------------------------------------------------------------------------------
(* T has read ui_status = the page of m and compares its touch. *)

(* Faulty: the first test that sees the button decides. *)
ToggleHitBlind(m, from, rest, c) ==
  /\ TGo(from, "write")
  /\ tpage = PageOf[m]
  /\ PlayButton(tap)
  /\ tcmd' = c
  /\ UNCHANGED <<globals, mVars, tpage, tap, files, playerVars>>

(* The play button: three else-ifs in a row, each with a read of its own. *)
ToggleHit(m, from, rest, c) ==
  /\ TGo(from, "write")
  /\ tpage = PageOf[m]
  /\ PlayButton(tap)
  /\ status[m] = rest
  /\ tcmd' = c
  /\ UNCHANGED <<globals, mVars, tpage, tap, files, playerVars>>

ToggleMiss(m, from, rest, next) ==
  /\ TGo(from, next)
  /\ tpage = PageOf[m]
  /\ PlayButton(tap)
  /\ status[m] # rest
  /\ UNCHANGED <<globals, mVars, tpage, tap, tcmd, files, playerVars>>

TestNull(m)  == \/ ToggleHit(m, "read", "NULL", "START")
                \/ ToggleMiss(m, "read", "NULL", "read2")

(* Faulty: an else without the second test. *)
TestPlayElse(m) ==
  /\ TGo("read2", "write")
  /\ tpage = PageOf[m]
  /\ tcmd' = "HOLD"
  /\ UNCHANGED <<globals, mVars, tpage, tap, files, playerVars>>

TestPlay(m)  == \/ ToggleHit(m, "read2", "PLAY", "HOLD")
                \/ ToggleMiss(m, "read2", "PLAY", "read3")
TestPause(m) == \/ ToggleHit(m, "read3", "PAUSE", "CONTI")
                \/ ToggleMiss(m, "read3", "PAUSE", "none")

(* The other buttons store without looking. *)
PressOther(m) ==
  /\ TGo("read", "write")
  /\ tpage = PageOf[m]
  /\ \/ BackButton(tap, tpage) /\ tcmd' = "STOP"
     \/ PrevButton(tap) /\ tcmd' = "PREV"
     \/ NextButton(tap) /\ tcmd' = "NEXT"
  /\ UNCHANGED <<globals, mVars, tpage, tap, files, playerVars>>

(* No condition held. *)
PressNothing(m) ==
  /\ mpc # "exited"
  /\ tpage = PageOf[m]
  /\ \/ tpc = "none"
     \/ /\ tpc = "read"
        /\ ~(PlayButton(tap) \/ BackButton(tap, tpage) \/ PrevButton(tap) \/ NextButton(tap))
  /\ TDone
  /\ UNCHANGED <<globals, mVars, files, playerVars>>

(* The store; after STOP, usleep(100) and then the store of ui_status. *)
StoreMedia(m) ==
  /\ mpc # "exited" /\ tpc = "write"
  /\ tpage = PageOf[m]
  /\ status' = [status EXCEPT ![m] = tcmd]
  /\ IF BackButton(tap, tpage) THEN tpc' = "leave" /\ UNCHANGED <<tpage, tap, tcmd>>
                               ELSE TDone
  /\ UNCHANGED <<ui_status, pic_status, index, mVars, files, playerVars>>

TouchMedia(m) == \/ TestNull(m) \/ TestPlay(m) \/ TestPause(m)
                 \/ PressOther(m) \/ PressNothing(m) \/ StoreMedia(m)
=============================================================================
