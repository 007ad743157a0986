------------------------------ MODULE UiState ------------------------------
(* The globals of main.c and the private state of its two threads.            *)
(*                                                                            *)
(* M, the main thread, runs the page that ui_status names: it draws the page, *)
(* then serves the page's status variable for as long as ui_status stays.     *)
(* T, the touch thread, turns each touch into writes to the same variables.   *)
(* There is no lock.  The program is built without optimisation for a         *)
(* single-core ARM, so every access to a global is one indivisible load or    *)
(* store, and the threads interleave between any two of them.  Each action    *)
(* below makes at most one access that the other thread can see or disturb.   *)
EXTENDS Integers, Players

CONSTANTS
  Taps,      \* touches the user makes (records of TouchTargets!Touch)
  Replies,   \* what the voice server's answer may be: page names, or "other"
  MaxFiles   \* bound: how many files a list may grow to

Pages == {"MAIN", "PIC", "MUSIC", "VOICE", "VIDEO", "END"}
Lists == Media \cup {"pic"}

ASSUME RepliesAssumption == Replies \subseteq {"MUSIC", "PIC", "END", "VIDEO", "other"}
\* The callers pass getDir an array of 99 names.
ASSUME MaxFilesAssumption == MaxFiles \in [Lists -> 1..99]

VARIABLES
  \* shared: the globals of main.c
  ui_status,
  pic_status,
  status,     \* status["music"] is music_status, status["video"] video_status
  index,      \* indexPic, indexMusic, indexVideo
  \* M: its place in the code and the locals that outlive one step
  mpc,        \* where M is; a page's loop is the same five places for each page
  mpage,      \* the page whose proc_ function M runs
  mcmd,       \* the status value M's switch is serving, or the voice reply
  count,      \* the length getDir returned when the page was entered
  shown,      \* index of the picture the album drew last
  mode,       \* history: what the last command M carried out left each player in
  \* T
  tpc, tpage, \* where T is, and the page it read from ui_status
  tap, tcmd,  \* the touch it is handling and the value it is about to store
  \* the card
  files       \* how many media files each directory holds

mVars == <<mpc, mpage, mcmd, count, shown, mode>>
tVars == <<tpc, tpage, tap, tcmd>>
globals == <<ui_status, pic_status, status, index>>
vars == <<globals, mVars, tVars, files, playerVars>>

(* enum _PIC, and the one enum that _MUSIC and _VIDEO both are. *)
PicNext == {"NEXT_WINDOWSHADE", "NEXT_FLYLEFT", "NEXT_FTYDOWN"}
PicPrev == {"PREV_WINDOWSHADE", "PREV_FLYRIGHT", "PREV_FLYUP"}
SlideShow == {"PLAY_SEQUENTIAL", "PLAY_SHUFFLE"}
PicStatus == {"MENUE", "PLAY", "NULL"} \cup PicNext \cup PicPrev \cup SlideShow

Trigger == {"HOLD", "STOP", "NEXT", "PREV", "CONTI", "START"}
Resting == {"PLAY", "PAUSE", "NULL"}
MediaStatus == Resting \cup Trigger

PageOf == [music |-> "MUSIC", video |-> "VIDEO"]
MediaPages == {"MUSIC", "VIDEO"}
MediumOf == [MUSIC |-> "music", VIDEO |-> "video"]

NoTap == [a |-> 0, b |-> 0, dx |-> 0, dy |-> 0]

UiTypeOK ==
  /\ ui_status \in Pages
  /\ pic_status \in PicStatus
  /\ status \in [Media -> MediaStatus]
  /\ index \in [Lists -> Nat]
  /\ mpc \in {"dispatch", "enter", "loop", "switch", "store", "request",
              "apply", "exited"}
  /\ mpage \in Pages
  /\ mcmd \in PicStatus \cup MediaStatus \cup Replies
  /\ count \in [Lists -> 1..99]
  /\ shown \in Nat
  /\ mode \in [Media -> Resting]
  /\ tpc \in {"idle", "goto", "open_album", "read", "read2", "read3", "none",
              "write", "leave"}
  /\ tpage \in Pages
  /\ tap \in Taps \cup {NoTap}
  /\ tcmd \in PicStatus \cup MediaStatus
  /\ files \in [Lists -> 1..99]

(* main(): the stores before pthread_create.  Every directory holds at least  *)
(* one file: with none, the code indexes with -1 or reads an uninitialised    *)
(* name, and nothing after that means anything.                               *)
UiInit ==
  /\ ui_status = "MAIN"
  /\ pic_status = "PLAY"
  /\ status = [m \in Media |-> "NULL"]
  /\ index = [l \in Lists |-> 0]
  /\ mpc = "dispatch" /\ mpage = "MAIN" /\ mcmd = "NULL"
  /\ files \in [Lists -> 1..99] /\ \A l \in Lists : files[l] <= MaxFiles[l]
  /\ count = files
  /\ shown = 0
  /\ mode = [m \in Media |-> "NULL"]
  /\ tpc = "idle" /\ tpage = "MAIN" /\ tap = NoTap /\ tcmd = "NULL"

(* Faulty variants of the step, for the mutation runs. *)
AfterLate(i, n)    == IF i = n THEN 0 ELSE i + 1
BeforeNoWrap(i, n) == i - 1

(* The circular step both directions of every list take. *)
After(i, n)  == IF i = n - 1 THEN 0 ELSE i + 1
Before(i, n) == IF i = 0 THEN n - 1 ELSE i - 1

(* M's control: go on to place pc, and whether the other locals move is said  *)
(* by the action.                                                             *)
MGo(from, to) == mpc = from /\ mpc' = to

(* T's control.  T runs until main() returns, which ends the process.         *)
TGo(from, to) == mpc # "exited" /\ tpc = from /\ tpc' = to

(* T is done with its touch and waits for the next one. *)
TDone == tpc' = "idle" /\ tpage' = "MAIN" /\ tap' = NoTap /\ tcmd' = "NULL"
=============================================================================
