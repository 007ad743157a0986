----------------------------- MODULE Catalogue -----------------------------
(* What a page may expect of getDir: it takes a list of the files when the    *)
(* page is entered, and whatever is chosen until the page is left is an entry *)
(* of that list, the next or the previous one in a circle, or any where the   *)
(* page shuffles its list.  Only a page whose list is empty has nothing to    *)
(* choose from, and what it does then is not defined.                         *)
EXTENDS Integers, Sequences

CONSTANTS
  Kinds, Files,
  Shuffling  \* the kinds whose pages shuffle

VARIABLES
  page,   \* the page that has its list, or "none"
  list,   \* its list
  pos,    \* for each kind, the place of its current entry, from 0
  chosen  \* the entry chosen last, "none" or "wild"

catVars == <<page, list, pos, chosen>>

CatInit == /\ page = "none" /\ list = <<>>
           /\ pos = [k \in Kinds |-> 0]
           /\ chosen = "none"

Enter(k) ==
  /\ page = "none"
  /\ page' = k
  /\ list' \in Seq(Files)
  /\ list' # <<>> => pos[k] < Len(list')
  /\ UNCHANGED <<pos, chosen>>

ChooseAt(i) == /\ chosen' = list[i + 1]
               /\ UNCHANGED <<page, list>>

ChooseFirst == list # <<>> /\ ChooseAt(0) /\ UNCHANGED pos

Step(n) == /\ list # <<>>
           /\ LET i == (pos[page] + n) % Len(list)
              IN ChooseAt(i) /\ pos' = [pos EXCEPT ![page] = i]

Jump == /\ list # <<>> /\ page \in Shuffling
        /\ \E i \in 0 .. Len(list) - 1 : ChooseAt(i) /\ pos' = [pos EXCEPT ![page] = i]

Undefined == /\ list = <<>>
             /\ chosen' = "wild"
             /\ pos' \in [Kinds -> Int]
             /\ \A k \in Kinds \ {page} : pos'[k] = pos[k]
             /\ UNCHANGED <<page, list>>

Leave == page' = "none" /\ list' = <<>> /\ UNCHANGED <<pos, chosen>>

CatNext ==
  \/ \E k \in Kinds : Enter(k)
  \/ /\ page # "none" /\ chosen # "wild"
     /\ ChooseFirst \/ (\E n \in {-1, 0, 1} : Step(n)) \/ Jump \/ Undefined \/ Leave

CatSpec == CatInit /\ [][CatNext]_catVars
=============================================================================
