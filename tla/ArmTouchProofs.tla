--------------------------- MODULE ArmTouchProofs ---------------------------
(* Proofs that the safety properties of ArmTouchProps hold of armTouch for    *)
(* any touches, any number of processes, pending signals and files.           *)
EXTENDS ArmTouchProps, TLAPS

------------------------------------------------------------------------------
(* Typing of the operators. *)

LEMMA LaunchedType ==
  ASSUME NEW ps \in [Pids -> Proc], NEW m \in Media, NEW track \in Nat,
         NEW qs \in Launched(ps, m, track)
  PROVE  qs \in [Pids -> Proc]
<1> DEFINE new == [st |-> "forked", app |-> m, track |-> track, missed |-> FALSE]
<1>1. new \in Proc
  BY DEF Proc
<1>2. qs = ps \/ \E p \in Pids : qs = [ps EXCEPT ![p] = new]
  BY DEF Launched
<1> QED
  BY <1>1, <1>2

LEMMA KilledType ==
  ASSUME procs \in [Pids -> Proc], NEW m \in Media
  PROVE  Killed(m) \in [Pids -> Proc]
<1>1. NoProc \in Proc
  BY DEF NoProc, Proc, Media
<1>2. \A p \in Pids : [procs[p] EXCEPT !.missed = @ \/ Alive(p, m)] \in Proc
  BY DEF Proc, Alive
<1> QED
  BY <1>1, <1>2 DEF Killed

LEMMA BrowseType == ASSUME NEW t PROVE Browse(t) \subseteq PicStatus \ {"MENUE"}
BY DEF Browse, Swipe, PicStatus, PicNext, PicPrev, SlideShow

LEMMA MainTargetType == ASSUME NEW t PROVE MainTarget(t) \subseteq Pages
BY DEF MainTarget, TileLeft, Pages

------------------------------------------------------------------------------
(* Which variables each party can change. *)

LEMMA TouchFrame ==
  ASSUME TStep \/ Touched
  PROVE  UNCHANGED <<index, mVars, files, playerVars>>
BY DEF TStep, Touched, GoTo, OpenAlbum, BackToMain, TouchAlbum, BrowseAlbum,
       SeeMenu, ChooseAlbum, StoreAlbum, TouchMedia, TestNull, TestPlay, TestPause,
       ToggleHit, ToggleMiss, PressOther, PressNothing, StoreMedia, globals

LEMMA MainFrame ==
  ASSUME MStep \/ VoiceReply
  PROVE  UNCHANGED <<tVars, files>>
BY DEF MStep, VoiceReply, Dispatch, Exit, EnterOther, Leave, Again, VoiceApply,
       EnterAlbum, ServeAlbum, AlbumIdle, ShowMenu, SlideSequential, SlideShuffle,
       Slide, TurnNext, TurnPrev, Turn, SettleAlbum, EnterMedia, ServeMedia,
       ServeStart, ServeNext, ServePrev, ServeSkip, ServeStop, ServeHold,
       ServeConti, ServeSignal, Rest, Settle, globals, mVars

LEMMA EnvironmentFrame ==
  ASSUME Environment
  PROVE  UNCHANGED <<globals, mVars, tVars>>
BY DEF Environment, PlayerExec, PlayerFinish, RunKillall, AddFile

------------------------------------------------------------------------------
(* Type correctness, one step per party. *)

LEMMA EnvironmentType ==
  ASSUME IInv, Environment
  PROVE  TypeOK'
<1>1. UNCHANGED <<globals, mVars, tVars>>
  BY EnvironmentFrame
<1>2. ASSUME NEW p \in Pids, PlayerExec(p) \/ PlayerFinish(p)
      PROVE  PlayersTypeOK' /\ files' = files
  <2>1. procs[p] \in Proc /\ NoProc \in Proc /\ procs \in [Pids -> Proc]
    BY DEF IInv, TypeOK, PlayersTypeOK, NoProc, Proc, Media
  <2>2. [procs[p] EXCEPT !.st = "run"] \in Proc
    BY <2>1 DEF Proc
  <2>3. procs' \in [Pids -> Proc]
    BY <1>2, <2>1, <2>2 DEF PlayerExec, PlayerFinish, Exec, Finish
  <2> QED
    BY <1>2, <2>3 DEF IInv, TypeOK, PlayersTypeOK, PlayerExec, PlayerFinish, Exec, Finish
<1>3. ASSUME NEW m \in Media, NEW s \in Sig, RunKillall(m, s)
      PROVE  PlayersTypeOK' /\ files' = files
  <2>1. \A p \in Pids : [procs[p] EXCEPT !.st = Signalled(s)] \in Proc
    BY DEF IInv, TypeOK, PlayersTypeOK, Proc, Signalled
  <2>2. procs' \in [Pids -> Proc]
    BY <1>3, <2>1 DEF IInv, TypeOK, PlayersTypeOK, RunKillall, Deliver
  <2>3. signals' \in [Media -> [Sig -> 0..MaxSignals]]
    BY <1>3, MaxSignalsAssumption DEF IInv, TypeOK, PlayersTypeOK, RunKillall, Deliver
  <2> QED
    BY <1>3, <2>2, <2>3 DEF PlayersTypeOK, RunKillall
<1>4. ASSUME NEW l \in Lists, AddFile(l)
      PROVE  PlayersTypeOK' /\ files' \in [Lists -> 1..99]
  <2>1. files \in [Lists -> 1..99] /\ files[l] \in 1..99 /\ MaxFiles[l] \in 1..99
    BY MaxFilesAssumption DEF IInv, TypeOK, UiTypeOK
  <2>2. files[l] + 1 \in 1..99
    BY <1>4, <2>1 DEF AddFile
  <2>3. files' \in [Lists -> 1..99]
    BY <1>4, <2>1, <2>2 DEF AddFile
  <2> QED
    BY <1>4, <2>3 DEF IInv, TypeOK, PlayersTypeOK, AddFile, playerVars
<1>5. PlayersTypeOK' /\ files' \in [Lists -> 1..99]
  BY <1>2, <1>3, <1>4 DEF Environment, IInv, TypeOK, UiTypeOK
<1> QED
  BY <1>1, <1>5 DEF IInv, TypeOK, UiTypeOK, globals, mVars, tVars

LEMMA TouchType ==
  ASSUME IInv, TStep \/ Touched
  PROVE  TypeOK'
<1> USE DEF IInv, TypeOK, UiTypeOK, Pages
<1>0. UNCHANGED <<index, mVars, files, playerVars>>
  BY TouchFrame
<1>1. PlayersTypeOK' /\ UNCHANGED <<index, mVars, files>>
  BY <1>0 DEF PlayersTypeOK, playerVars
<1>2. ASSUME TDone
      PROVE  tpc' = "idle" /\ tpage' \in Pages /\ tap' \in Taps \cup {NoTap}
               /\ tcmd' \in PicStatus \cup MediaStatus
  BY <1>2 DEF TDone, PicStatus
<1>3. CASE Touched
  BY <1>1, <1>3 DEF Touched, globals, mVars
<1>4. CASE GoTo
  BY <1>1, <1>2, <1>4, MainTargetType DEF GoTo, mVars
<1>5. CASE OpenAlbum
  BY <1>1, <1>2, <1>5 DEF OpenAlbum, mVars, PicStatus
<1>6. CASE BackToMain
  BY <1>1, <1>2, <1>6 DEF BackToMain, mVars
<1>7. CASE BrowseAlbum
  BY <1>1, <1>2, <1>7, BrowseType DEF BrowseAlbum, mVars, globals
<1>8. CASE SeeMenu
  BY <1>1, <1>8 DEF SeeMenu, TGo, mVars, globals
<1>9. CASE ChooseAlbum
  BY <1>1, <1>9 DEF ChooseAlbum, TGo, mVars, globals, MenuChoice, PicStatus, SlideShow
<1>10. CASE StoreAlbum
  BY <1>1, <1>2, <1>10 DEF StoreAlbum, AlbumInv, mVars
<1>11. ASSUME NEW m \in Media,
              \/ \E from \in {"read", "read2", "read3"}, rest \in Resting,
                    c \in Toggles : ToggleHit(m, from, rest, c)
              \/ \E from \in {"read", "read2", "read3"}, rest \in Resting,
                    next \in {"read2", "read3", "none"} : ToggleMiss(m, from, rest, next)
       PROVE  TypeOK'
  BY <1>1, <1>11 DEF ToggleHit, ToggleMiss, TGo, mVars, globals, Toggles,
                     MediaStatus, Trigger
<1>12. ASSUME NEW m \in Media, TestNull(m) \/ TestPlay(m) \/ TestPause(m)
       PROVE  TypeOK'
  BY <1>11, <1>12 DEF TestNull, TestPlay, TestPause, Resting, Toggles
<1>13. ASSUME NEW m \in Media, PressOther(m) PROVE TypeOK'
  BY <1>1, <1>13 DEF PressOther, TGo, mVars, globals, MediaStatus, Trigger
<1>14. ASSUME NEW m \in Media, PressNothing(m) PROVE TypeOK'
  BY <1>1, <1>2, <1>14 DEF PressNothing, mVars, globals
<1>15. ASSUME NEW m \in Media, StoreMedia(m) PROVE TypeOK'
  <2>1. tcmd \in MediaStatus
    BY <1>15 DEF StoreMedia, DecisionInv, MediaStatus, Trigger, Skips, Toggles
  <2> QED
    BY <1>1, <1>2, <1>15, <2>1 DEF StoreMedia, mVars
<1> QED
  BY <1>3, <1>4, <1>5, <1>6, <1>7, <1>8, <1>9, <1>10, <1>12, <1>13, <1>14, <1>15
     DEF TStep, TouchAlbum, TouchMedia

(* The circular steps stay within a list of n files. *)
LEMMA StepInRange ==
  ASSUME NEW n \in 1..99, NEW i \in Nat, i < n
  PROVE  After(i, n) \in 0 .. n - 1 /\ Before(i, n) \in 0 .. n - 1
BY DEF After, Before

LEMMA ListsInRange ==
  ASSUME TypeOK, IndexInRange, NEW l \in Lists
  PROVE  /\ count[l] \in 1..99 /\ index[l] \in Nat /\ index[l] < count[l]
         /\ After(index[l], count[l]) \in 0 .. count[l] - 1
         /\ Before(index[l], count[l]) \in 0 .. count[l] - 1
<1>1. count[l] \in 1..99 /\ index[l] \in Nat /\ index[l] < count[l]
  BY DEF TypeOK, UiTypeOK, IndexInRange
<1> QED
  BY <1>1, StepInRange

LEMMA SettledType == \A c \in Trigger : Settled[c] \in Resting
BY DEF Settled, Trigger, Resting

(* The calls a case makes keep the players typed. *)
LEMMA ServeType ==
  ASSUME IInv, NEW m \in Media,
         \/ \E track \in Nat : Play(m, track) \/ Restart(m, track)
         \/ Stop(m)
         \/ \E s \in Sig : Post(m, s)
  PROVE  PlayersTypeOK'
<1>1. PlayersTypeOK
  BY DEF IInv, TypeOK
<1>2. Killed(m) \in [Pids -> Proc]
  BY <1>1, KilledType DEF PlayersTypeOK
<1>3. CASE \E track \in Nat : Play(m, track) \/ Restart(m, track)
  BY <1>1, <1>2, <1>3, LaunchedType DEF Play, Restart, PlayersTypeOK
<1>4. CASE Stop(m)
  BY <1>1, <1>2, <1>4 DEF Stop, PlayersTypeOK
<1>5. CASE \E s \in Sig : Post(m, s)
  BY <1>1, <1>5, MaxSignalsAssumption DEF Post, PlayersTypeOK
<1> QED
  BY <1>3, <1>4, <1>5

LEMMA MainType ==
  ASSUME IInv, MStep \/ VoiceReply
  PROVE  TypeOK'
<1> USE DEF IInv, TypeOK, UiTypeOK, MGo
<1>0. UNCHANGED <<tpc, tpage, tap, tcmd, files>>
  BY MainFrame DEF tVars
<1>1. playerVars' = playerVars => PlayersTypeOK'
  BY DEF PlayersTypeOK, playerVars
<1>2. CASE Dispatch \/ Exit \/ EnterOther \/ Leave \/ Again
  BY <1>0, <1>1, <1>2 DEF Dispatch, Exit, EnterOther, Leave, Again, globals
<1>3. CASE VoiceReply
  BY <1>0, <1>1, <1>3 DEF VoiceReply, globals
<1>4. CASE VoiceApply
  BY <1>0, <1>1, <1>4, RepliesAssumption
     DEF VoiceApply, ReplyInv, Pages, PicStatus
<1>5. CASE EnterAlbum
  BY <1>0, <1>1, <1>5 DEF EnterAlbum, globals, Lists
<1>6. CASE AlbumIdle \/ ShowMenu
  BY <1>0, <1>1, <1>6 DEF AlbumIdle, ShowMenu, globals, Lists
<1>7. /\ "pic" \in Lists /\ Media \subseteq Lists
      /\ \A l \in Lists : /\ count[l] \in 1..99 /\ index[l] \in Nat
                          /\ After(index[l], count[l]) \in Nat
                          /\ Before(index[l], count[l]) \in Nat
  <2>1. ASSUME NEW l \in Lists
        PROVE  /\ count[l] \in 1..99 /\ index[l] \in Nat
               /\ After(index[l], count[l]) \in Nat
               /\ Before(index[l], count[l]) \in Nat
    <3>1. \A i \in 0 .. count[l] - 1 : i \in Nat
      OBVIOUS
    <3> QED
      BY <3>1, ListsInRange
  <2> QED
    BY <2>1 DEF Lists
<1>8. ASSUME NEW i \in Nat, Slide(i) \/ Turn(i) PROVE TypeOK'
  BY <1>0, <1>1, <1>7, <1>8 DEF Slide, Turn
<1>9. CASE SlideSequential \/ TurnNext \/ TurnPrev
  BY <1>7, <1>8, <1>9 DEF SlideSequential, TurnNext, TurnPrev
<1>10. CASE SlideShuffle
  BY <1>7, <1>8, <1>10 DEF SlideShuffle
<1>11. CASE SettleAlbum
  BY <1>0, <1>1, <1>11 DEF SettleAlbum, PicStatus
<1>12. ASSUME NEW m \in Media, EnterMedia(m) PROVE TypeOK'
  BY <1>0, <1>1, <1>7, <1>12 DEF EnterMedia, globals
<1>13. ASSUME NEW m \in Media, NEW c \in Trigger, Take(m, c)
       PROVE  mpc' = "store" /\ mcmd' \in MediaStatus /\ mode' \in [Media -> Resting]
  BY <1>13, SettledType DEF Take, MediaStatus
<1>14. ASSUME NEW m \in Media, ServeStart(m) PROVE TypeOK'
  BY <1>0, <1>7, <1>13, <1>14, ServeType DEF ServeStart, globals, Trigger
<1>15. ASSUME NEW m \in Media, NEW c \in Trigger, NEW i \in Nat, ServeSkip(m, c, i)
       PROVE  TypeOK'
  BY <1>0, <1>7, <1>13, <1>15, ServeType DEF ServeSkip
<1>16. ASSUME NEW m \in Media, ServeNext(m) \/ ServePrev(m) PROVE TypeOK'
  BY <1>7, <1>15, <1>16 DEF ServeNext, ServePrev, Trigger
<1>17. ASSUME NEW m \in Media, ServeStop(m) PROVE TypeOK'
  BY <1>0, <1>13, <1>17, ServeType DEF ServeStop, globals, Trigger
<1>18. ASSUME NEW m \in Media, ServeHold(m) \/ ServeConti(m) PROVE TypeOK'
  BY <1>0, <1>13, <1>18, ServeType
     DEF ServeHold, ServeConti, ServeSignal, globals, Trigger, Sig
<1>19. ASSUME NEW m \in Media, Rest(m) PROVE TypeOK'
  BY <1>0, <1>1, <1>19 DEF Rest, globals
<1>20. ASSUME NEW m \in Media, Settle(m) PROVE TypeOK'
  BY <1>0, <1>1, <1>20, SettledType DEF Settle, StatusInv, AtStore, MediaStatus, PicStatus
<1> QED
  BY <1>2, <1>3, <1>4, <1>5, <1>6, <1>9, <1>10, <1>11, <1>12, <1>14, <1>16, <1>17,
     <1>18, <1>19, <1>20
     DEF MStep, ServeAlbum, ServeMedia

------------------------------------------------------------------------------
(* The range of the indices: only M moves an index, and only on a page whose  *)
(* directory it has listed; the card only grows.                              *)

LEMMA FilesGrow ==
  ASSUME TypeOK, IndexInRange, Environment
  PROVE  \A l \in Lists : count[l] <= files'[l]
<1>1. files \in [Lists -> 1..99] /\ count \in [Lists -> 1..99]
  BY DEF TypeOK, UiTypeOK
<1>2. \A l \in Lists : count[l] <= files[l]
  BY DEF IndexInRange
<1>3. ASSUME NEW k \in Lists, AddFile(k)
      PROVE  \A l \in Lists : count[l] <= files'[l]
  <2>1. files' = [files EXCEPT ![k] = files[k] + 1]
    BY <1>3 DEF AddFile
  <2>2. ASSUME NEW l \in Lists PROVE count[l] <= files'[l]
    <3>1. files'[l] \in {files[l], files[l] + 1}
      BY <1>1, <2>1
    <3>2. files[l] \in Int /\ count[l] \in Int /\ count[l] <= files[l]
      BY <1>1, <1>2
    <3>3. \A c, f, g \in Int : c <= f /\ g \in {f, f + 1} => c <= g
      OBVIOUS
    <3>4. files'[l] \in Int
      BY <3>1, <3>2
    <3> QED
      BY <3>1, <3>2, <3>3, <3>4
  <2> QED
    BY <2>2
<1>4. CASE files' = files
  BY <1>2, <1>4
<1> QED
  BY <1>3, <1>4 DEF Environment, PlayerExec, PlayerFinish, RunKillall

LEMMA IndexStep ==
  ASSUME IInv, Next
  PROVE  IndexInRange'
<1> USE DEF IInv, IndexInRange
<1>1. CASE TStep \/ Touched
  BY <1>1, TouchFrame DEF mVars
<1>2. CASE Environment
  BY <1>2, FilesGrow, EnvironmentFrame DEF globals, mVars
<1>3. ASSUME MStep \/ VoiceReply PROVE IndexInRange'
  <2>1. files' = files
    BY <1>3, MainFrame
  <2>2. /\ "pic" \in Lists /\ Media \subseteq Lists
        /\ index \in [Lists -> Nat] /\ count \in [Lists -> 1..99]
        /\ files \in [Lists -> 1..99]
    BY DEF Lists, TypeOK, UiTypeOK
  <2>3. ASSUME UNCHANGED <<index, count>> PROVE IndexInRange'
    BY <2>1, <2>3
  <2>4. ASSUME NEW l \in Lists, count' = [count EXCEPT ![l] = files[l]], index' = index
        PROVE  IndexInRange'
    BY <2>1, <2>2, <2>4
  <2>5. ASSUME NEW l \in Lists, NEW i \in 0 .. count[l] - 1,
               index' = [index EXCEPT ![l] = i], count' = count
        PROVE  IndexInRange'
    BY <2>1, <2>2, <2>5
  <2>6. CASE EnterAlbum \/ \E m \in Media : EnterMedia(m)
    BY <2>2, <2>4, <2>6 DEF EnterAlbum, EnterMedia, globals
  <2>7. CASE SlideSequential \/ TurnNext \/ TurnPrev
    BY <2>2, <2>5, <2>7, ListsInRange
       DEF SlideSequential, TurnNext, TurnPrev, Slide, Turn
  <2>8. CASE SlideShuffle
    BY <2>2, <2>5, <2>8 DEF SlideShuffle, Slide
  <2>9. CASE \E m \in Media : ServeNext(m) \/ ServePrev(m)
    BY <2>2, <2>5, <2>9, ListsInRange DEF ServeNext, ServePrev, ServeSkip
  <2>10. CASE VoiceReply \/ Dispatch \/ Exit \/ EnterOther \/ Leave \/ Again \/ VoiceApply
    BY <2>3, <2>10
       DEF VoiceReply, Dispatch, Exit, EnterOther, Leave, Again, VoiceApply, globals
  <2>11. CASE AlbumIdle \/ ShowMenu \/ SettleAlbum
    BY <2>3, <2>11 DEF AlbumIdle, ShowMenu, SettleAlbum, globals
  <2>12. CASE \E m \in Media : \/ ServeStart(m) \/ ServeStop(m) \/ ServeHold(m)
                               \/ ServeConti(m) \/ Rest(m) \/ Settle(m)
    BY <2>3, <2>12
       DEF ServeStart, ServeStop, ServeHold, ServeConti, ServeSignal, Rest, Settle, globals
  <2> QED
    BY <1>3, <2>6, <2>7, <2>8, <2>9, <2>10, <2>11, <2>12
       DEF MStep, ServeAlbum, ServeMedia
<1> QED
  BY <1>1, <1>2, <1>3 DEF Next

(* A voice reply is one the server may send until it has been applied. *)
LEMMA ReplyStep ==
  ASSUME IInv, Next
  PROVE  ReplyInv'
<1> USE DEF IInv, ReplyInv
<1>1. CASE TStep \/ Touched \/ Environment
  BY <1>1, TouchFrame, EnvironmentFrame DEF mVars
<1>2. CASE VoiceReply
  BY <1>2 DEF VoiceReply
<1>3. CASE MStep
  BY <1>3 DEF MStep, MGo, Take, Dispatch, Exit, EnterOther, Leave, Again, VoiceApply,
     EnterAlbum, ServeAlbum, AlbumIdle, ShowMenu, SlideSequential, SlideShuffle,
     Slide, TurnNext, TurnPrev, Turn, SettleAlbum, EnterMedia, ServeMedia,
     ServeStart, ServeNext, ServePrev, ServeSkip, ServeStop, ServeHold,
     ServeConti, ServeSignal, Rest, Settle
<1> QED
  BY <1>1, <1>2, <1>3 DEF Next

------------------------------------------------------------------------------
(* The protocol between the threads: what T decided on is still there when T  *)
(* stores, and M's store overwrites only skips.                               *)

LEMMA PagesDiffer == \A m, n \in Media : PageOf[m] = PageOf[n] => m = n
BY DEF Media, PageOf

LEMMA StatusStep ==
  ASSUME IInv, Next, NEW m \in Media
  PROVE  StatusInv(m)'
<1>0. /\ StatusInv(m) /\ status \in [Media -> MediaStatus] /\ mode \in [Media -> Resting]
      /\ \A n \in Media : DecisionInv(n)
  BY DEF IInv, TypeOK, UiTypeOK
<1>1. ASSUME UNCHANGED <<status, mode>>, ~AtStore(m), ~AtStore(m)' PROVE StatusInv(m)'
  BY <1>0, <1>1 DEF StatusInv
<1>2. ASSUME UNCHANGED <<mpc, mpage, mcmd, status, mode>> PROVE StatusInv(m)'
  BY <1>0, <1>2 DEF StatusInv, AtStore
<1>3. CASE Environment
  BY <1>2, <1>3, EnvironmentFrame DEF globals, mVars
<1>4. CASE Touched \/ GoTo \/ OpenAlbum \/ BackToMain \/ TouchAlbum
  BY <1>2, <1>4
     DEF Touched, GoTo, OpenAlbum, BackToMain, TouchAlbum, BrowseAlbum, SeeMenu,
         ChooseAlbum, StoreAlbum, globals, mVars
<1>5. ASSUME NEW n \in Media,
             TestNull(n) \/ TestPlay(n) \/ TestPause(n) \/ PressOther(n) \/ PressNothing(n)
      PROVE  StatusInv(m)'
  BY <1>2, <1>5 DEF TestNull, TestPlay, TestPause, ToggleHit, ToggleMiss, PressOther,
                    PressNothing, globals, mVars
<1>6. ASSUME NEW n \in Media, StoreMedia(n) PROVE StatusInv(m)'
  <2>1. status' = [status EXCEPT ![n] = tcmd] /\ UNCHANGED <<mpc, mpage, mcmd, mode>>
    BY <1>6 DEF StoreMedia, mVars
  <2>2. tcmd \in Skips \cup Toggles /\ (tcmd \in Toggles => status[n] = DecidedOn[tcmd])
    BY <1>0, <1>6 DEF StoreMedia, DecisionInv
  <2>3. CASE n # m
    BY <1>0, <2>1, <2>3 DEF StatusInv, AtStore
  <2>4. CASE n = m /\ tcmd \in Skips
    BY <1>0, <2>1, <2>4 DEF StatusInv, AtStore, Skips, Resting, Toggles
  <2>5. CASE n = m /\ tcmd \in Toggles
    <3>1. status[m] \in Resting
      BY <2>2, <2>5 DEF Toggles, DecidedOn, Resting
    <3>2. ~AtStore(m)
      BY <1>0, <3>1 DEF StatusInv, Resting, Trigger, Skips
    <3>3. mode[m] = DecidedOn[tcmd]
      BY <1>0, <2>2, <2>5, <3>1, <3>2 DEF StatusInv
    <3> QED
      BY <1>0, <2>1, <2>5, <3>2, <3>3 DEF StatusInv, AtStore, Resting, Toggles
  <2> QED
    BY <2>2, <2>3, <2>4, <2>5
<1>7. CASE Dispatch \/ Exit \/ EnterOther \/ Leave \/ Again \/ VoiceReply \/ VoiceApply
  BY <1>1, <1>7 DEF Dispatch, Exit, EnterOther, Leave, Again, VoiceReply, VoiceApply,
                    MGo, AtStore, globals
<1>8. CASE EnterAlbum \/ ServeAlbum
  BY <1>1, <1>8 DEF EnterAlbum, ServeAlbum, AlbumIdle, ShowMenu, SlideSequential,
                    SlideShuffle, Slide, TurnNext, TurnPrev, Turn, SettleAlbum,
                    MGo, AtStore, globals, PageOf, Media
<1>9. ASSUME NEW n \in Media, EnterMedia(n) \/ Rest(n) PROVE StatusInv(m)'
  BY <1>1, <1>9 DEF EnterMedia, Rest, MGo, AtStore, globals
<1>10. ASSUME NEW n \in Media, NEW c \in Trigger, Take(n, c), UNCHANGED <<status, mpage>>
       PROVE  StatusInv(m)'
  <2>1. CASE n = m
    BY <1>0, <1>10, <2>1 DEF Take, MGo, StatusInv, AtStore
  <2>2. CASE n # m
    BY <1>0, <1>10, <2>2, PagesDiffer DEF Take, MGo, StatusInv, AtStore
  <2> QED
    BY <2>1, <2>2
<1>11. ASSUME NEW n \in Media,
              \/ ServeStart(n) \/ ServeNext(n) \/ ServePrev(n) \/ ServeStop(n)
              \/ ServeHold(n) \/ ServeConti(n)
       PROVE  StatusInv(m)'
  BY <1>10, <1>11 DEF ServeStart, ServeNext, ServePrev, ServeSkip, ServeStop, ServeHold,
                      ServeConti, ServeSignal, globals, Trigger
<1>12. ASSUME NEW n \in Media, Settle(n) PROVE StatusInv(m)'
  <2>1. CASE n = m
    <3>1. mcmd \in Trigger /\ mode[m] = Settled[mcmd]
      BY <1>0, <1>12, <2>1 DEF Settle, MGo, StatusInv, AtStore
    <3>2. status'[m] = Settled[mcmd] /\ mode' = mode /\ ~AtStore(m)'
      BY <1>0, <1>12, <2>1 DEF Settle, MGo, AtStore
    <3> QED
      BY <3>1, <3>2, SettledType DEF StatusInv, Resting, Toggles
  <2>2. CASE n # m
    BY <1>0, <1>12, <2>2, PagesDiffer DEF Settle, MGo, StatusInv, AtStore
  <2> QED
    BY <2>1, <2>2
<1> QED
  BY <1>3, <1>4, <1>5, <1>6, <1>7, <1>8, <1>9, <1>11, <1>12
     DEF Next, MStep, TStep, TouchMedia, ServeMedia

LEMMA DecisionStep ==
  ASSUME IInv, Next, NEW m \in Media
  PROVE  DecisionInv(m)'
<1>0. /\ StatusInv(m) /\ DecisionInv(m) /\ status \in [Media -> MediaStatus]
      /\ PageOf[m] # "PIC"
  BY DEF IInv, TypeOK, UiTypeOK, PageOf, Media
<1>1. ASSUME tpc' # "write" PROVE DecisionInv(m)'
  BY <1>1 DEF DecisionInv
<1>2. ASSUME UNCHANGED <<tVars, status>> PROVE DecisionInv(m)'
  BY <1>0, <1>2 DEF DecisionInv, tVars
<1>3. CASE Environment
  BY <1>2, <1>3, EnvironmentFrame DEF globals
<1>4. CASE Touched \/ GoTo \/ OpenAlbum \/ BackToMain
  BY <1>1, <1>4 DEF Touched, GoTo, OpenAlbum, BackToMain, TDone
<1>5. CASE TouchAlbum
  BY <1>0, <1>1, <1>5 DEF TouchAlbum, BrowseAlbum, SeeMenu, ChooseAlbum, StoreAlbum,
                          TGo, TDone, DecisionInv
<1>6. ASSUME NEW n \in Media, TouchMedia(n) PROVE DecisionInv(m)'
  <2>1. ASSUME NEW from, NEW c \in Toggles, ToggleHit(n, from, DecidedOn[c], c)
        PROVE  DecisionInv(m)'
    BY <2>1, PagesDiffer DEF ToggleHit, TGo, DecisionInv, globals
  <2>2. CASE PressOther(n)
    BY <2>2 DEF PressOther, TGo, DecisionInv, Skips, Toggles
  <2>3. ASSUME NEW from, NEW rest, NEW next \in {"read2", "read3", "none"},
               ToggleMiss(n, from, rest, next)
        PROVE  DecisionInv(m)'
    BY <1>1, <2>3 DEF ToggleMiss, TGo
  <2>4. CASE PressNothing(n) \/ StoreMedia(n)
    BY <1>1, <2>4 DEF PressNothing, StoreMedia, TDone
  <2>5. CASE TestNull(n)
    BY <2>1, <2>3, <2>5 DEF TestNull, Toggles, DecidedOn
  <2>6. CASE TestPlay(n)
    BY <2>1, <2>3, <2>6 DEF TestPlay, Toggles, DecidedOn
  <2>7. CASE TestPause(n)
    BY <2>1, <2>3, <2>7 DEF TestPause, Toggles, DecidedOn
  <2> QED
    BY <1>6, <2>2, <2>4, <2>5, <2>6, <2>7 DEF TouchMedia
<1>7. ASSUME MStep \/ VoiceReply PROVE DecisionInv(m)'
  <2>1. tVars' = tVars
    BY <1>7, MainFrame
  <2>2. CASE status'[m] = status[m]
    BY <1>0, <2>1, <2>2 DEF DecisionInv, tVars
  <2>3. CASE Settle(m)
    \* M is at its store, so the status is no resting state: T's decision, if
    \* it has one, is a skip.
    <3>1. status[m] \notin Resting
      BY <1>0, <2>3 DEF Settle, MGo, StatusInv, AtStore, Trigger, Skips, Resting
    <3>2. \A c \in Toggles : DecidedOn[c] \in Resting
      BY DEF Toggles, DecidedOn, Resting
    <3> QED
      BY <1>0, <2>1, <3>1, <3>2 DEF DecisionInv, tVars
  <2>4. ASSUME NEW n \in Media, n # m, Settle(n) PROVE status'[m] = status[m]
    BY <1>0, <2>4 DEF Settle
  <2>5. status' = status \/ \E n \in Media : Settle(n)
    BY <1>7 DEF MStep, VoiceReply, Dispatch, Exit, EnterOther, Leave, Again, VoiceApply,
       EnterAlbum, ServeAlbum, AlbumIdle, ShowMenu, SlideSequential, SlideShuffle,
       Slide, TurnNext, TurnPrev, Turn, SettleAlbum, EnterMedia, ServeMedia,
       ServeStart, ServeNext, ServePrev, ServeSkip, ServeStop, ServeHold,
       ServeConti, ServeSignal, Rest, globals
  <2> QED
    BY <2>2, <2>3, <2>4, <2>5
<1> QED
  BY <1>3, <1>4, <1>5, <1>6, <1>7 DEF Next, TStep

LEMMA AlbumStep ==
  ASSUME IInv, Next
  PROVE  AlbumInv'
<1>0. /\ AlbumInv /\ pic_status \in PicStatus
      /\ "MENUE" \notin SlideShow /\ "NULL" \notin SlideShow /\ "PLAY" \notin SlideShow
      /\ \A m \in Media : PageOf[m] # "PIC"
  BY DEF IInv, TypeOK, UiTypeOK, SlideShow, PageOf, Media
<1>1. ASSUME Environment PROVE AlbumInv'
  BY <1>0, <1>1, EnvironmentFrame DEF AlbumInv, globals, mVars, tVars
<1>2. CASE TStep \/ Touched
  <2>0. UNCHANGED <<mpc, mpage>>
    BY <1>2, TouchFrame DEF mVars
  <2>1. CASE Touched
    BY <1>0, <2>0, <2>1 DEF Touched, AlbumInv, globals
  <2>2. CASE GoTo \/ BackToMain
    BY <1>0, <2>0, <2>2 DEF GoTo, BackToMain, TDone, AlbumInv
  <2>3. CASE OpenAlbum
    BY <1>0, <2>0, <2>3 DEF OpenAlbum, TDone, AlbumInv
  <2>4. CASE BrowseAlbum
    <3>1. \A c \in Browse(tap) : c \in PicStatus \ {"MENUE"} /\ c \notin SlideShow
      BY DEF Browse, Swipe, PicStatus, PicNext, PicPrev, SlideShow
    <3> QED
      BY <1>0, <2>0, <2>4, <3>1 DEF BrowseAlbum, TDone, AlbumInv, globals
  <2>5. CASE SeeMenu
    BY <1>0, <2>0, <2>5 DEF SeeMenu, TGo, AlbumInv, globals
  <2>6. CASE ChooseAlbum
    BY <1>0, <2>0, <2>6 DEF ChooseAlbum, TGo, AlbumInv, globals, MenuChoice, PicStatus, SlideShow
  <2>7. CASE StoreAlbum
    BY <1>0, <2>0, <2>7 DEF StoreAlbum, TDone, AlbumInv
  <2>8. ASSUME NEW m \in Media, TouchMedia(m)
        PROVE  pic_status' = pic_status /\ (tpage' = "PIC" => tpc' = "idle")
    BY <1>0, <2>8 DEF TouchMedia, TestNull, TestPlay, TestPause, ToggleHit, ToggleMiss,
       PressOther, PressNothing, StoreMedia, TDone, globals
  <2>9. CASE \E m \in Media : TouchMedia(m)
    BY <1>0, <2>0, <2>8, <2>9 DEF AlbumInv
  <2> QED
    BY <1>2, <2>1, <2>2, <2>3, <2>4, <2>5, <2>6, <2>7, <2>9 DEF TStep, TouchAlbum
<1>3. CASE MStep \/ VoiceReply
  <2>0. UNCHANGED <<tpc, tpage, tap, tcmd>>
    BY <1>3, MainFrame DEF tVars
  <2>1. ASSUME pic_status' = pic_status, ~(mpc' = "store" /\ mpage' = "PIC")
        PROVE  AlbumInv'
    BY <1>0, <2>0, <2>1 DEF AlbumInv
  <2>2. CASE Dispatch \/ Exit \/ EnterOther \/ Leave \/ Again \/ VoiceReply \/ VoiceApply
    BY <2>1, <2>2 DEF Dispatch, Exit, EnterOther, Leave, Again, VoiceReply, VoiceApply,
                      MGo, globals
  <2>3. CASE EnterAlbum \/ AlbumIdle \/ SlideSequential \/ SlideShuffle
    BY <2>1, <2>3 DEF EnterAlbum, AlbumIdle, SlideSequential, SlideShuffle, Slide, MGo, globals
  <2>4. CASE ShowMenu \/ TurnNext \/ TurnPrev
    BY <1>0, <2>0, <2>4 DEF ShowMenu, TurnNext, TurnPrev, Turn, AlbumInv, globals,
                            PicNext, PicPrev, SlideShow
  <2>5. CASE SettleAlbum
    BY <1>0, <2>0, <2>5 DEF SettleAlbum, MGo, AlbumInv
  <2>6. ASSUME NEW m \in Media, EnterMedia(m) \/ ServeMedia(m)
        PROVE  pic_status' = pic_status /\ mpage' # "PIC"
    BY <1>0, <2>6 DEF EnterMedia, ServeMedia, ServeStart, ServeNext, ServePrev, ServeSkip,
       ServeStop, ServeHold, ServeConti, ServeSignal, Rest, Settle, Take, globals
  <2>7. CASE \E m \in Media : EnterMedia(m) \/ ServeMedia(m)
    BY <2>1, <2>6, <2>7
  <2> QED
    BY <1>3, <2>2, <2>3, <2>4, <2>5, <2>7 DEF MStep, ServeAlbum
<1> QED
  BY <1>1, <1>2, <1>3 DEF Next

------------------------------------------------------------------------------
(* The processes: at most one player of a medium that no stop has missed, on  *)
(* the file of the index, and none when the last command was a stop.          *)

FreshIn(ps, m) == {p \in Pids : ps[p].st # "none" /\ ps[p].app = m /\ ~ps[p].missed}

(* The fresh players of m in qs were already there in ps, on the same file.   *)
Inherits(ps, qs, m) ==
  \A p \in FreshIn(qs, m) : p \in FreshIn(ps, m) /\ qs[p].track = ps[p].track

LEMMA KilledFresh ==
  ASSUME procs \in [Pids -> Proc], NEW m \in Media
  PROVE  /\ FreshIn(Killed(m), m) = {}
         /\ \A n \in Media : n # m => Inherits(procs, Killed(m), n)
<1>1. ASSUME NEW p \in Pids
      PROVE  /\ Killed(m)[p].st = "none" \/ Killed(m)[p].app # m \/ Killed(m)[p].missed
             /\ \A n \in Media :
                  n # m /\ Killed(m)[p].st # "none" /\ Killed(m)[p].app = n
                    => Killed(m)[p] = procs[p]
  <2>1. procs[p] \in Proc /\ procs[p].missed \in BOOLEAN
    BY DEF Proc
  <2>2. CASE Named(p, m)
    BY <2>2 DEF Killed, NoProc
  <2>3. CASE ~Named(p, m)
    <3>1. Killed(m)[p] = [procs[p] EXCEPT !.missed = procs[p].missed \/ Alive(p, m)]
      BY <2>3 DEF Killed
    <3>2. CASE Alive(p, m)
      BY <2>1, <3>1, <3>2 DEF Proc, Alive
    <3>3. CASE ~Alive(p, m)
      <4>1. (procs[p].missed \/ Alive(p, m)) = procs[p].missed
        BY <2>1, <3>3
      <4>2. Killed(m)[p] = procs[p]
        BY <2>1, <3>1, <4>1 DEF Proc
      <4> QED
        BY <3>3, <4>2 DEF Alive
    <3> QED
      BY <3>2, <3>3
  <2> QED
    BY <2>2, <2>3
<1> QED
  BY <1>1 DEF FreshIn, Inherits

LEMMA LaunchedFresh ==
  ASSUME NEW ps \in [Pids -> Proc], NEW m \in Media, NEW track \in Nat,
         NEW qs \in Launched(ps, m, track)
  PROVE  /\ FreshIn(ps, m) = {}
              => /\ \A p, q \in FreshIn(qs, m) : p = q
                 /\ \A p \in FreshIn(qs, m) : qs[p].track = track
         /\ \A n \in Media : n # m => Inherits(ps, qs, n)
<1> DEFINE new == [st |-> "forked", app |-> m, track |-> track, missed |-> FALSE]
<1>1. CASE qs = ps
  BY <1>1 DEF Inherits, FreshIn
<1>2. ASSUME NEW k \in Pids, qs = [ps EXCEPT ![k] = new]
      PROVE  /\ FreshIn(qs, m) \subseteq FreshIn(ps, m) \cup {k}
             /\ qs[k].track = track
             /\ \A n \in Media : n # m => Inherits(ps, qs, n)
  BY <1>2 DEF Inherits, FreshIn
<1>3. qs = ps \/ \E k \in Pids : qs = [ps EXCEPT ![k] = new]
  BY DEF Launched
<1> QED
  BY <1>1, <1>2, <1>3 DEF FreshIn

LEMMA ProcessStep ==
  ASSUME IInv, Next, NEW m \in Media
  PROVE  ProcessInv(m)'
<1>0. /\ ProcessInv(m) /\ StatusInv(m)
      /\ procs \in [Pids -> Proc] /\ mode \in [Media -> Resting] /\ m \in Lists
      /\ index \in [Lists -> Nat]
  BY DEF IInv, TypeOK, UiTypeOK, PlayersTypeOK, Lists
<1>1. Fresh(m) = FreshIn(procs, m) /\ Fresh(m)' = FreshIn(procs', m)
  BY DEF Fresh, FreshIn, Alive
<1>2. ASSUME Inherits(procs, procs', m), mode'[m] = mode[m], index'[m] = index[m]
      PROVE  ProcessInv(m)'
  BY <1>0, <1>1, <1>2 DEF ProcessInv, Inherits
<1>3. ASSUME procs' = procs, mode'[m] = mode[m], index'[m] = index[m]
      PROVE  ProcessInv(m)'
  BY <1>2, <1>3 DEF Inherits
<1>4. CASE TStep \/ Touched
  BY <1>3, <1>4, TouchFrame DEF mVars, playerVars
<1>5. CASE Environment
  <2>1. UNCHANGED <<index, mode>>
    BY <1>5, EnvironmentFrame DEF globals, mVars
  <2>2. ASSUME NEW k \in Pids, PlayerExec(k) \/ PlayerFinish(k)
        PROVE  Inherits(procs, procs', m)
    <3>1. procs' \in {[procs EXCEPT ![k] = [procs[k] EXCEPT !.st = "run"]],
                      [procs EXCEPT ![k] = NoProc]}
            /\ procs[k].st # "none"
      BY <2>2 DEF PlayerExec, PlayerFinish, Exec, Finish
    <3>2. \A p \in Pids : procs'[p] = procs[p] \/ procs'[p].st = "none"
            \/ /\ procs[p].st # "none"
               /\ procs'[p] = [procs[p] EXCEPT !.st = "run"]
      BY <1>0, <3>1 DEF NoProc
    <3>3. \A p \in Pids : /\ [procs[p] EXCEPT !.st = "run"].app = procs[p].app
                          /\ [procs[p] EXCEPT !.st = "run"].missed = procs[p].missed
                          /\ [procs[p] EXCEPT !.st = "run"].track = procs[p].track
      BY <1>0 DEF Proc
    <3> QED
      BY <3>2, <3>3 DEF Inherits, FreshIn
  <2>3. ASSUME NEW n \in Media, NEW s \in Sig, RunKillall(n, s)
        PROVE  Inherits(procs, procs', m)
    <3>1. \A p \in Pids : /\ procs'[p].app = procs[p].app
                          /\ procs'[p].missed = procs[p].missed
                          /\ procs'[p].track = procs[p].track
                          /\ procs'[p].st # "none" => procs[p].st # "none"
      BY <1>0, <2>3 DEF RunKillall, Deliver, Named, Signalled, Proc
    <3> QED
      BY <3>1 DEF Inherits, FreshIn
  <2>4. ASSUME NEW l \in Lists, AddFile(l) PROVE Inherits(procs, procs', m)
    BY <2>4 DEF AddFile, playerVars, Inherits
  <2> QED
    BY <1>2, <1>5, <2>1, <2>2, <2>3, <2>4 DEF Environment
<1>6. CASE \/ VoiceReply \/ Dispatch \/ Exit \/ EnterOther \/ Leave \/ Again \/ VoiceApply
           \/ EnterAlbum \/ ServeAlbum
  BY <1>0, <1>3, <1>6
     DEF VoiceReply, Dispatch, Exit, EnterOther, Leave, Again, VoiceApply, EnterAlbum,
         ServeAlbum, AlbumIdle, ShowMenu, SlideSequential, SlideShuffle, Slide,
         TurnNext, TurnPrev, Turn, SettleAlbum, globals, playerVars, Media
<1>7. ASSUME NEW n \in Media, EnterMedia(n) \/ Rest(n) \/ Settle(n) PROVE ProcessInv(m)'
  BY <1>3, <1>7 DEF EnterMedia, Rest, Settle, globals, playerVars
<1>8. ASSUME NEW n \in Media, n # m,
             \/ ServeStart(n) \/ ServeNext(n) \/ ServePrev(n) \/ ServeStop(n)
             \/ ServeHold(n) \/ ServeConti(n)
      PROVE  ProcessInv(m)'
  <2>1. mode'[m] = mode[m] /\ index'[m] = index[m]
    BY <1>0, <1>8 DEF ServeStart, ServeNext, ServePrev, ServeSkip, ServeStop, ServeHold,
                      ServeConti, ServeSignal, Take, globals
  <2>2. Inherits(procs, Killed(n), m) /\ Killed(n) \in [Pids -> Proc]
    BY <1>0, <1>8, KilledFresh, KilledType
  <2>3. ASSUME NEW track \in Nat, Play(n, track) \/ Restart(n, track) \/ Stop(n)
        PROVE  Inherits(procs, procs', m)
    <3>1. CASE Play(n, track)
      BY <1>0, <1>8, <3>1, LaunchedFresh DEF Play
    <3>2. CASE Restart(n, track)
      <4>1. Inherits(Killed(n), procs', m)
        BY <1>8, <2>2, <3>2, LaunchedFresh DEF Restart
      <4> QED
        BY <2>2, <4>1 DEF Inherits
    <3>3. CASE Stop(n)
      BY <2>2, <3>3 DEF Stop
    <3> QED
      BY <2>3, <3>1, <3>2, <3>3
  <2>4. ASSUME procs' = procs PROVE Inherits(procs, procs', m)
    BY <2>4 DEF Inherits
  <2>5. index[n] \in Nat /\ After(index[n], count[n]) \in Nat /\ Before(index[n], count[n]) \in Nat
    <3>1. \A i \in 0 .. count[n] - 1 : i \in Nat
      BY DEF IInv, TypeOK, UiTypeOK, Lists
    <3> QED
      BY <3>1, ListsInRange DEF IInv, Lists
  <2> QED
    BY <1>2, <1>8, <2>1, <2>3, <2>4, <2>5
       DEF ServeStart, ServeNext, ServePrev, ServeSkip, ServeStop, ServeHold,
           ServeConti, ServeSignal, Post
<1>9. CASE ServeStart(m)
  <2>1. FreshIn(procs, m) = {}
    \* T decided to start on status NULL, and M has stopped the player for that.
    <3>1. status[m] = "START" /\ ~AtStore(m)
      BY <1>9 DEF ServeStart, Take, MGo, AtStore
    <3>2. mode[m] = "NULL"
      BY <1>0, <3>1 DEF StatusInv, Toggles, DecidedOn
    <3> QED
      BY <1>0, <1>1, <3>2 DEF ProcessInv
  <2>2. procs' \in Launched(procs, m, index[m]) /\ index' = index /\ mode'[m] = "PLAY"
    BY <1>0, <1>9 DEF ServeStart, Play, Take, Settled, globals
  <2> QED
    BY <1>0, <1>1, <2>1, <2>2, LaunchedFresh DEF ProcessInv
<1>10. ASSUME NEW c \in {"NEXT", "PREV"}, NEW i \in Nat, ServeSkip(m, c, i)
       PROVE  ProcessInv(m)'
  <2>1. procs' \in Launched(Killed(m), m, i) /\ index'[m] = i /\ mode'[m] = "PLAY"
    BY <1>0, <1>10 DEF ServeSkip, Restart, Take, Settled
  <2>2. FreshIn(Killed(m), m) = {} /\ Killed(m) \in [Pids -> Proc]
    BY <1>0, KilledFresh, KilledType
  <2> QED
    BY <1>1, <2>1, <2>2, LaunchedFresh DEF ProcessInv
<1>11. CASE ServeNext(m) \/ ServePrev(m)
  <2>1. After(index[m], count[m]) \in Nat /\ Before(index[m], count[m]) \in Nat
    <3>1. \A i \in 0 .. count[m] - 1 : i \in Nat
      BY <1>0 DEF IInv, TypeOK, UiTypeOK
    <3> QED
      BY <1>0, <3>1, ListsInRange DEF IInv
  <2> QED
    BY <1>10, <1>11, <2>1 DEF ServeNext, ServePrev
<1>12. CASE ServeStop(m)
  BY <1>0, <1>1, <1>12, KilledFresh DEF ServeStop, Stop, ProcessInv
<1>13. CASE ServeHold(m) \/ ServeConti(m)
  <2>1. procs' = procs /\ index' = index /\ mode'[m] \in {"PLAY", "PAUSE"}
    BY <1>0, <1>13 DEF ServeHold, ServeConti, ServeSignal, Post, Take, Settled, globals
  <2> QED
    BY <1>0, <1>1, <2>1 DEF ProcessInv
<1> QED
  BY <1>4, <1>5, <1>6, <1>7, <1>8, <1>9, <1>11, <1>12, <1>13
     DEF Next, MStep, ServeMedia

------------------------------------------------------------------------------
(* The theorems. *)

LEMMA Initially == Init => IInv
<1> SUFFICES ASSUME Init PROVE IInv
  OBVIOUS
<1> USE DEF Init, UiInit, PlayersInit
<1>1. UiTypeOK
  BY DEF UiTypeOK, Pages, PicStatus, MediaStatus, Resting
<1>2. PlayersTypeOK
  BY MaxSignalsAssumption DEF PlayersTypeOK, NoProc, Proc, Media
<1>3. ASSUME NEW m \in Media PROVE StatusInv(m) /\ DecisionInv(m)
  BY <1>3 DEF StatusInv, DecisionInv, AtStore, Resting, Toggles
<1>4. ASSUME NEW m \in Media PROVE ProcessInv(m)
  <2>1. Fresh(m) = {}
    BY DEF Fresh, Alive, NoProc
  <2> QED
    BY <2>1 DEF ProcessInv
<1>5. AlbumInv /\ ReplyInv
  BY DEF AlbumInv, ReplyInv
<1>6. IndexInRange
  BY DEF IndexInRange
<1> QED
  BY <1>1, <1>2, <1>3, <1>4, <1>5, <1>6 DEF IInv, TypeOK

LEMMA TypeStep == ASSUME IInv, Next PROVE TypeOK'
BY MainType, TouchType, EnvironmentType DEF Next

LEMMA Stutter == ASSUME IInv, UNCHANGED vars PROVE IInv'
BY DEF vars, globals, mVars, tVars, playerVars, IInv, TypeOK, UiTypeOK, PlayersTypeOK,
       StatusInv, DecisionInv, ProcessInv, AtStore, Fresh, Alive, AlbumInv, ReplyInv,
       IndexInRange

LEMMA Inductive == IInv /\ [Next]_vars => IInv'
<1> SUFFICES ASSUME IInv, [Next]_vars PROVE IInv'
  OBVIOUS
<1>1. CASE Next
  <2>1. \A m \in Media : StatusInv(m)' /\ DecisionInv(m)' /\ ProcessInv(m)'
    BY <1>1, StatusStep, DecisionStep, ProcessStep
  <2>2. TypeOK' /\ AlbumInv' /\ ReplyInv' /\ IndexInRange'
    BY <1>1, TypeStep, AlbumStep, ReplyStep, IndexStep
  <2> QED
    BY <2>1, <2>2 DEF IInv
<1>2. CASE UNCHANGED vars
  BY <1>2, Stutter
<1> QED
  BY <1>1, <1>2

(* The invariant holds in every reachable state, for every set of touches and *)
(* replies, any number of processes and pending signals and any growth of the *)
(* directories up to the 99 names the callers of getDir make room for.        *)
THEOREM Invariance == Spec => []IInv
BY Initially, Inductive, PTL DEF Spec

(* Every variable keeps its type; in particular no index becomes negative. *)
THEOREM TypeCorrect == Spec => []TypeOK
<1>1. IInv => TypeOK
  BY DEF IInv
<1> QED
  BY <1>1, Invariance, PTL

(* Skips and stops can be overwritten by M's store, toggles cannot. *)
THEOREM TogglesSafe == Spec => []TogglesNotLost
<1>1. IInv => TogglesNotLost
  BY DEF IInv, StatusInv, AtStore, TogglesNotLost, Skips
<1> QED
  BY <1>1, Invariance, PTL

(* At most one player of each medium that no stop has missed. *)
THEOREM PlayersSafe == Spec => []OnePlayer
<1>1. IInv => OnePlayer
  BY DEF IInv, ProcessInv, OnePlayer
<1> QED
  BY <1>1, Invariance, PTL

LEMMA NullIsStopped ==
  ASSUME IInv, NEW m \in Media, status[m] = "NULL"
  PROVE  mode[m] = "NULL"
<1>1. StatusInv(m)
  BY DEF IInv
<1>2. ~AtStore(m)
  BY <1>1 DEF StatusInv, Trigger, Skips
<1> QED
  BY <1>1, <1>2 DEF StatusInv, Resting

(* None while the status is NULL: the next press of the play button may start *)
(* one (main.c:515).                                                          *)
THEOREM SilenceSafe == Spec => []NullIsSilent
<1>1. IInv => NullIsSilent
  BY NullIsStopped DEF IInv, ProcessInv, NullIsSilent
<1> QED
  BY <1>1, Invariance, PTL

(* The one there is plays the file the index stands at. *)
THEOREM TrackSafe == Spec => []NowPlaying
<1>1. IInv => NowPlaying
  BY DEF IInv, ProcessInv, NowPlaying
<1> QED
  BY <1>1, Invariance, PTL

(* No index is ever out of its list, even if files were added since. *)
THEOREM IndicesSafe == Spec => []IndexInRange
<1>1. IInv => IndexInRange
  BY DEF IInv
<1> QED
  BY <1>1, Invariance, PTL

(* A chosen slide show is not overwritten by the end of the step before it. *)
THEOREM SlideShowSafe == Spec => []SlideShowNotLost
<1>1. IInv => SlideShowNotLost
  BY DEF IInv, AlbumInv, SlideShowNotLost
<1> QED
  BY <1>1, Invariance, PTL

------------------------------------------------------------------------------
(* The album, when the voice server's answers leave it alone.                 *)

(* The only gesture that asks for nothing is a touch of the back button. *)
LEMMA BrowseNothing == ASSUME NEW t PROVE "NULL" \in Browse(t) => AlbumBack(t)
BY DEF Browse, Swipe, AlbumBack, Still

LEMMA DrawnTouch ==
  ASSUME IInv, DrawnInv, TStep \/ Touched
  PROVE  DrawnInv'
<1>0. UNCHANGED <<index, mpc, mpage, shown>>
  BY TouchFrame DEF mVars
<1>1. AlbumDrawn' <=> AlbumDrawn
  BY <1>0 DEF AlbumDrawn
<1>2. ASSUME ui_status' = ui_status, pic_status' = pic_status,
             tpc \notin {"open_album", "leave"}, tpc' \notin {"read2", "write"}
      PROVE  DrawnInv'
  BY <1>0, <1>1, <1>2 DEF DrawnInv
<1>3. CASE Touched
  BY <1>2, <1>3 DEF Touched, globals
<1>4. CASE GoTo
  BY <1>0, <1>1, <1>4 DEF GoTo, TDone, DrawnInv
<1>5. CASE OpenAlbum
  BY <1>0, <1>1, <1>5 DEF OpenAlbum, TDone, DrawnInv
<1>6. CASE BackToMain
  BY <1>0, <1>1, <1>6 DEF BackToMain, TDone, DrawnInv
<1>7. CASE BrowseAlbum
  <2>1. /\ tpc = "read" /\ ui_status' = ui_status /\ pic_status' = pic_status
        /\ \/ tpc' = "idle"
           \/ tcmd' \in Browse(tap) /\ tpc' = "write" /\ tap' = tap
    BY <1>7 DEF BrowseAlbum, TDone, globals
  <2>2. ASSUME tcmd' \in Browse(tap), tpc' = "write", tap' = tap
        PROVE  tcmd' = "NULL" => AlbumBack(tap')
    BY <2>2, BrowseNothing
  <2> QED
    BY <1>0, <1>1, <1>2, <2>1, <2>2 DEF DrawnInv, AlbumBack, Still
<1>8. CASE SeeMenu
  BY <1>0, <1>1, <1>8 DEF SeeMenu, TGo, DrawnInv, globals
<1>9. CASE ChooseAlbum
  BY <1>0, <1>1, <1>9 DEF ChooseAlbum, TGo, DrawnInv, globals
<1>10. CASE StoreAlbum
  <2>1. /\ tpc = "write" /\ tpage = "PIC" /\ tcmd # "MENUE"
        /\ ui_status' = ui_status /\ pic_status' = tcmd
    BY <1>10 DEF StoreAlbum, IInv, AlbumInv
  <2>2. AlbumBack(tap) => tpc' = "leave"
    BY <1>10 DEF StoreAlbum
  <2>3. tpc' \in {"idle", "leave"}
    BY <1>10 DEF StoreAlbum, TDone
  <2>4. ui_status = "PIC" /\ ~AlbumBack(tap) /\ tcmd = "NULL" => AlbumDrawn
    BY <2>1 DEF DrawnInv
  <2> QED
    BY <1>0, <1>1, <2>1, <2>2, <2>3, <2>4 DEF DrawnInv
<1>11. ASSUME NEW m \in Media, TouchMedia(m) PROVE DrawnInv'
  <2>1. PageOf[m] # "PIC"
    BY DEF PageOf, Media
  <2>2. /\ ui_status' = ui_status /\ pic_status' = pic_status
        /\ tpc \notin {"open_album", "leave"}
        /\ tpage' = "PIC" => tpc' = "idle"
    BY <1>11, <2>1 DEF TouchMedia, TestNull, TestPlay, TestPause, ToggleHit, ToggleMiss,
       PressOther, PressNothing, StoreMedia, TGo, TDone, globals
  <2> QED
    BY <1>0, <1>1, <2>2 DEF DrawnInv
<1> QED
  BY <1>3, <1>4, <1>5, <1>6, <1>7, <1>8, <1>9, <1>10, <1>11 DEF TStep, TouchAlbum

LEMMA DrawnMain ==
  ASSUME "PIC" \notin Replies, IInv, DrawnInv, MStep \/ VoiceReply
  PROVE  DrawnInv'
<1>0. UNCHANGED <<tpc, tpage, tap, tcmd>>
  BY MainFrame DEF tVars
<1>1. AlbumBack(tap') <=> AlbumBack(tap)
  BY <1>0
<1>2. ASSUME ui_status' = "PIC" => ui_status = "PIC", pic_status' = pic_status,
             ui_status = "PIC" /\ AlbumDrawn => AlbumDrawn',
             mpage' = "PIC" /\ mpc' = "store" => AlbumDrawn'
      PROVE  DrawnInv'
  BY <1>0, <1>1, <1>2 DEF DrawnInv
<1>3. ASSUME ui_status' = "PIC" => ui_status = "PIC", pic_status' = pic_status,
             ~AlbumDrawn \/ ui_status # "PIC", mpc' # "store"
      PROVE  DrawnInv'
  BY <1>2, <1>3
<1>4. CASE Dispatch \/ Exit \/ EnterOther \/ VoiceReply \/ EnterAlbum
  BY <1>3, <1>4 DEF Dispatch, Exit, EnterOther, VoiceReply, EnterAlbum, MGo, globals,
                    AlbumDrawn
<1>5. CASE Leave
  BY <1>3, <1>5 DEF Leave, MGo, globals, AlbumDrawn
<1>6. CASE Again \/ AlbumIdle
  BY <1>2, <1>6 DEF Again, AlbumIdle, MGo, globals, AlbumDrawn
<1>7. CASE VoiceApply
  <2>1. mcmd # "PIC" /\ mpc = "apply"
    BY <1>7 DEF VoiceApply, MGo, IInv, ReplyInv
  <2> QED
    BY <1>3, <1>7, <2>1 DEF VoiceApply, MGo, AlbumDrawn
<1>8. CASE ShowMenu \/ SlideSequential \/ SlideShuffle \/ TurnNext \/ TurnPrev
  <2>1. index \in [Lists -> Nat] /\ "pic" \in Lists
    BY DEF IInv, TypeOK, UiTypeOK, Lists
  <2>2. AlbumDrawn' /\ ui_status' = ui_status /\ pic_status' = pic_status
    BY <1>8, <2>1 DEF ShowMenu, SlideSequential, SlideShuffle, Slide, TurnNext, TurnPrev,
                      Turn, MGo, globals, AlbumDrawn
  <2> QED
    BY <1>2, <2>2
<1>9. CASE SettleAlbum
  <2>1. AlbumDrawn' /\ mpc' = "loop"
    BY <1>9 DEF SettleAlbum, MGo, DrawnInv, AlbumDrawn
  <2> QED
    BY <2>1 DEF DrawnInv
<1>10. ASSUME NEW m \in Media, EnterMedia(m) \/ ServeMedia(m) PROVE DrawnInv'
  <2>1. PageOf[m] # "PIC"
    BY DEF PageOf, Media
  <2>2. /\ ui_status' = ui_status /\ pic_status' = pic_status
        /\ mpage # "PIC" /\ mpage' # "PIC"
    BY <1>10, <2>1 DEF EnterMedia, ServeMedia, ServeStart, ServeNext, ServePrev, ServeSkip,
       ServeStop, ServeHold, ServeConti, ServeSignal, Rest, Settle, Take, globals
  <2> QED
    BY <1>2, <2>2 DEF AlbumDrawn
<1> QED
  BY <1>4, <1>5, <1>6, <1>7, <1>8, <1>9, <1>10 DEF MStep, ServeAlbum

LEMMA DrawnStep ==
  "PIC" \notin Replies => (IInv /\ DrawnInv /\ [Next]_vars => DrawnInv')
<1> SUFFICES ASSUME "PIC" \notin Replies, IInv, DrawnInv, [Next]_vars PROVE DrawnInv'
  OBVIOUS
<1>1. ASSUME UNCHANGED <<globals, mVars, tVars>> PROVE DrawnInv'
  BY <1>1 DEF globals, mVars, tVars, DrawnInv, AlbumDrawn
<1> QED
  BY <1>1, EnvironmentFrame, DrawnTouch, DrawnMain DEF Next, vars

(* Once the album waits for a command, what it shows is the picture of        *)
(* indexPic, although it draws the first one on every entry (main.c:286):     *)
(* for every server that never answers with the album, whose page the voice   *)
(* command opens without asking for a drawing.                                *)
THEOREM AlbumShowsIndex ==
  ASSUME "PIC" \notin Replies
  PROVE  Spec => []PictureIsIndexed
<1>1. Init => DrawnInv
  BY DEF Init, UiInit, DrawnInv
<1>2. DrawnInv => PictureIsIndexed
  BY DEF DrawnInv, PictureIsIndexed, AlbumAtRest, AlbumDrawn
<1>3. IInv /\ DrawnInv /\ [Next]_vars => DrawnInv'
  BY DrawnStep
<1> QED
  BY <1>1, <1>2, <1>3, Invariance, PTL DEF Spec

------------------------------------------------------------------------------
(* The pages implement the remote control. *)

LEMMA CommandsMakeSense ==
  ASSUME IInv, NEW m \in Media, NEW c \in Trigger, Take(m, c)
  PROVE  c \in Toggles => mode[m] = DecidedOn[c]
BY DEF Take, MGo, IInv, StatusInv, AtStore

LEMMA RemoteStep == IInv /\ [Next]_vars => [Page!Next]_<<mode, [m \in Media |-> index[m]]>>
<1> SUFFICES ASSUME IInv, [Next]_vars
             PROVE  [Page!Next]_<<mode, [m \in Media |-> index[m]]>>
  OBVIOUS
<1> DEFINE pos == [m \in Media |-> index[m]]
<1> USE DEF Page!Next, Page!Start, Page!Pause, Page!Continue, Page!Stop, Page!Skip,
            Page!Command
<1>0. mode \in [Media -> Resting] /\ index \in [Lists -> Nat] /\ Media \subseteq Lists
  BY DEF IInv, TypeOK, UiTypeOK, Lists
<1>1. ASSUME UNCHANGED <<mode, index>>
      PROVE  [Page!Next]_<<mode, [m \in Media |-> index[m]]>>
  BY <1>1
<1>2. CASE UNCHANGED vars
  BY <1>1, <1>2 DEF vars, globals, mVars
<1>3. CASE TStep \/ Touched \/ Environment
  BY <1>1, <1>3, TouchFrame, EnvironmentFrame DEF globals, mVars
<1>4. ASSUME mode' = mode, NEW i, index' = [index EXCEPT !["pic"] = i]
      PROVE  [Page!Next]_<<mode, [m \in Media |-> index[m]]>>
  BY <1>0, <1>4 DEF Media
<1>5. CASE \/ VoiceReply \/ Dispatch \/ Exit \/ EnterOther \/ Leave \/ Again \/ VoiceApply
           \/ EnterAlbum \/ ServeAlbum
  BY <1>1, <1>4, <1>5
     DEF VoiceReply, Dispatch, Exit, EnterOther, Leave, Again, VoiceApply, EnterAlbum,
         ServeAlbum, AlbumIdle, ShowMenu, SlideSequential, SlideShuffle, Slide,
         TurnNext, TurnPrev, Turn, SettleAlbum, globals
<1>6. ASSUME NEW m \in Media, EnterMedia(m) \/ Rest(m) \/ Settle(m)
      PROVE  [Page!Next]_<<mode, [n \in Media |-> index[n]]>>
  BY <1>1, <1>6 DEF EnterMedia, Rest, Settle, globals
<1>7. ASSUME NEW m \in Media, ServeStart(m) \/ ServeHold(m) \/ ServeConti(m)
      PROVE  Page!Next
  BY <1>7, CommandsMakeSense
     DEF ServeStart, ServeHold, ServeConti, ServeSignal, Take, Settled, Toggles,
         DecidedOn, Trigger, globals
<1>8. ASSUME NEW m \in Media, ServeStop(m) PROVE Page!Next
  BY <1>0, <1>8 DEF ServeStop, Take, Settled, Resting, globals
<1>9. ASSUME NEW m \in Media, ServeNext(m) \/ ServePrev(m) PROVE Page!Next
  <2>1. \E i \in {After(index[m], count[m]), Before(index[m], count[m])} :
          index' = [index EXCEPT ![m] = i] /\ mode' = [mode EXCEPT ![m] = "PLAY"]
    BY <1>9 DEF ServeNext, ServePrev, ServeSkip, Take, Settled
  <2>2. PICK i \in {After(index[m], count[m]), Before(index[m], count[m])} :
          index' = [index EXCEPT ![m] = i] /\ mode' = [mode EXCEPT ![m] = "PLAY"]
    BY <2>1
  <2>3. i \in 0 .. count[m] - 1 /\ count[m] \in 1..99 /\ index[m] \in Nat
    BY <1>0, ListsInRange DEF IInv
  <2>4. i \in Nat /\ Page!Neighbour(index[m], i)
    <3>1. i \in Nat
      BY <2>3
    <3>2. i \in {0, index[m] + 1} \/ index[m] = i + 1 \/ index[m] = 0
      BY <2>2, <2>3 DEF After, Before
    <3> QED
      BY <3>1, <3>2 DEF Page!Neighbour
  <2>5. pos' = [pos EXCEPT ![m] = i] /\ pos[m] = index[m] /\ pos'[m] = i
    BY <1>0, <2>2
  <2> QED
    BY <2>2, <2>4, <2>5
<1> QED
  BY <1>2, <1>3, <1>5, <1>6, <1>7, <1>8, <1>9 DEF Next, MStep, ServeMedia

(* The two threads together behave, towards each player, like one remote      *)
(* control whose commands make sense.                                         *)
THEOREM PagesAreRemotes == Spec => RemoteControl
<1>1. Init => Page!Init
  BY DEF Init, UiInit, Page!Init, Lists, Media
<1> QED
  BY <1>1, RemoteStep, Invariance, PTL DEF Spec, RemoteControl, Page!Spec
=============================================================================
