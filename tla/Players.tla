------------------------------ MODULE Players ------------------------------
(* The media players, musichandler.c and videohandler.c: the program drives   *)
(* madplay and mplayer only through system(), so what it controls is a set of *)
(* processes and the signals on their way to them.                            *)
(*   - "madplay f &" forks a shell that has not yet become the player: until  *)
(*     its exec it is not called madplay and killall does not see it;         *)
(*   - "killall -STOP madplay &" and "killall -CONT madplay &" run in the     *)
(*     background: the call returns before the signal is sent, and two such   *)
(*     killalls may be scheduled in either order;                             *)
(*   - "killall -9 madplay" is waited for.                                    *)
(* system() failing to fork is ignored by every caller.                       *)
EXTENDS Integers

CONSTANTS
  Pids,        \* entries of the process table that players may use
  MaxSignals   \* background killalls of one kind that may be waiting at once

ASSUME MaxSignalsAssumption == MaxSignals \in Nat \ {0}

VARIABLES
  procs,    \* the process in each entry of the table
  signals   \* signals[m][s]: background "killall -s" not yet run

playerVars == <<procs, signals>>

Media == {"music", "video"}
Sig == {"STOP", "CONT"}

NoProc == [st |-> "none", app |-> "music", track |-> 0, missed |-> FALSE]

(* missed: a "killall -9" of this player came before the exec and missed it   *)
(* (a history flag; nothing in the system reads it).                          *)
Proc == [st : {"none", "forked", "run", "stopped"}, app : Media,
         track : Nat, missed : BOOLEAN]

PlayersTypeOK == /\ procs \in [Pids -> Proc]
                 /\ signals \in [Media -> [Sig -> 0..MaxSignals]]

PlayersInit == /\ procs = [p \in Pids |-> NoProc]
               /\ signals = [m \in Media |-> [s \in Sig |-> 0]]

Alive(p, m) == procs[p].st # "none" /\ procs[p].app = m
Named(p, m) == procs[p].st \in {"run", "stopped"} /\ procs[p].app = m

(* The players of m that no stop command has missed. *)
Fresh(m) == {p \in Pids : Alive(p, m) /\ ~procs[p].missed}

------------------------------------------------------------------------------
(* The effect of each call on the process table and the pending signals. *)

(* play_mp3 / play_video: the table after a fork, or unchanged when it is full. *)
Launched(ps, m, track) ==
  LET free == {p \in Pids : ps[p].st = "none"}
      new  == [st |-> "forked", app |-> m, track |-> track, missed |-> FALSE]
  IN IF free = {} THEN {ps} ELSE {[ps EXCEPT ![p] = new] : p \in free}

(* Faulty: the plain killall of videohandler.c:7, which a stopped player does *)
(* not notice; and stop_video ending madplay.                                 *)
KilledPolitely(m) == [p \in Pids |-> IF Named(p, m) /\ procs[p].st = "run" THEN NoProc
                       ELSE [procs[p] EXCEPT !.missed = @ \/ (Alive(p, m) /\ ~Named(p, m))]]
KilledWrong(m) == [p \in Pids |-> IF \E other \in Media \ {m} : Named(p, other)
                                    THEN NoProc ELSE procs[p]]

(* stop_mp3 / stop_video: SIGKILL ends the processes with the player's name. *)
Killed(m) == [p \in Pids |-> IF Named(p, m) THEN NoProc
                             ELSE [procs[p] EXCEPT !.missed = @ \/ Alive(p, m)]]

Play(m, track)    == procs' \in Launched(procs, m, track) /\ UNCHANGED signals
Stop(m)           == procs' = Killed(m) /\ UNCHANGED signals
RestartOver(m, track) == procs' \in Launched(procs, m, track) /\ UNCHANGED signals  \* faulty

Restart(m, track) == procs' \in Launched(Killed(m), m, track) /\ UNCHANGED signals

(* pause_mp3 and conti_mp3 (and the video pair): one more background killall. *)
Post(m, s) ==
  /\ signals' = [signals EXCEPT ![m][s] = IF @ < MaxSignals THEN @ + 1 ELSE @]
  /\ UNCHANGED procs

------------------------------------------------------------------------------
(* What the operating system and the players do on their own. *)

(* The forked shell becomes the player. *)
Exec(p) == /\ procs[p].st = "forked"
           /\ procs' = [procs EXCEPT ![p].st = "run"]
           /\ UNCHANGED signals

(* The player reaches the end of its file, or its exec fails. *)
Finish(p) == /\ procs[p].st \in {"forked", "run"}
             /\ procs' = [procs EXCEPT ![p] = NoProc]
             /\ UNCHANGED signals

(* A background killall runs: it signals every process with the name. *)
Signalled(s) == IF s = "STOP" THEN "stopped" ELSE "run"

Deliver(m, s) ==
  /\ signals[m][s] > 0
  /\ signals' = [signals EXCEPT ![m][s] = @ - 1]
  /\ procs' = [p \in Pids |-> IF Named(p, m)
                                THEN [procs[p] EXCEPT !.st = Signalled(s)]
                                ELSE procs[p]]
=============================================================================
