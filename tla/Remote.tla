------------------------------- MODULE Remote -------------------------------
(* What a media page promises, seen from the player: a remote control whose   *)
(* commands come one at a time and always make sense.  It starts a stopped    *)
(* player, pauses a playing one, continues a paused one, and skips and stops  *)
(* at any time; a skip moves to a neighbour in a circular list (whose length  *)
(* may have changed since the last skip) and leaves the player playing.       *)
(* Two threads without a lock have to agree for this to hold.                 *)
EXTENDS Naturals

CONSTANT Players

VARIABLES mode,   \* mode[m] \in {"NULL", "PLAY", "PAUSE"}
          pos     \* pos[m]: place in the list of m

Init == /\ mode = [m \in Players |-> "NULL"]
        /\ pos = [m \in Players |-> 0]

Command(m, from, to) ==
  /\ mode[m] = from
  /\ mode' = [mode EXCEPT ![m] = to]
  /\ UNCHANGED pos

Start(m)    == Command(m, "NULL", "PLAY")
Pause(m)    == Command(m, "PLAY", "PAUSE")
Continue(m) == Command(m, "PAUSE", "PLAY")
Stop(m)     == \E from \in {"NULL", "PLAY", "PAUSE"} : Command(m, from, "NULL")

(* One step forwards or to the front, or one step backwards or from the front *)
(* to the back.                                                               *)
Neighbour(i, j) == \/ j \in {0, i + 1}
                   \/ i = j + 1
                   \/ i = 0

Skip(m) == /\ mode' = [mode EXCEPT ![m] = "PLAY"]
           /\ pos' = [pos EXCEPT ![m] = pos'[m]]
           /\ pos'[m] \in Nat /\ Neighbour(pos[m], pos'[m])

Next == \E m \in Players : Start(m) \/ Pause(m) \/ Continue(m) \/ Stop(m) \/ Skip(m)

Spec == Init /\ [][Next]_<<mode, pos>>
=============================================================================
