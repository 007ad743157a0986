------------------------------ MODULE Listing ------------------------------
(* getDir (main.c) and the pages that use its result.  getDir fills the       *)
(* page's array with pointers to the d_name fields readdir returned.  These   *)
(* lie in the buffer of the directory stream; readdir overwrites it when it   *)
(* fetches the next batch of entries.  getDir never closes the stream, so     *)
(* that every visit of a page keeps a descriptor, and keeps the names alive.  *)
EXTENDS Integers, Sequences, FiniteSets

CONSTANTS
  Kinds,      \* the pages: "pic" is the album, the others play media
  Files,      \* file names with the ending of the page
  Other,      \* any other entry: ".", "..", a file of another type
  StartDirs,  \* for each kind, what its directory may hold when the program starts
  Absent,     \* sets of kinds whose directory may be missing
  Array,      \* entries of the page's array (99)
  Batch,      \* entries of a stream's buffer (32 KiB)
  MaxEntries, \* bound: entries of a directory
  MaxFds,     \* descriptors left when the program has started
  MaxVisits   \* bound: visits of pages

(* Directories fit the array and the buffer. *)
ASSUME FitsAssumption == MaxEntries \in Nat /\ MaxEntries <= Array /\ MaxEntries <= Batch
ASSUME FdsAssumption == MaxFds \in Nat /\ MaxVisits \in Nat /\ Array \in Nat /\ Batch \in Nat \ {0}
ASSUME NamesAssumption ==
  Other \notin Files /\ {"none", "wild"} \cap Files = {} /\ "none" \notin Kinds
ASSUME DirsAssumption ==
  /\ \A k \in Kinds : \A d \in StartDirs[k] : d \in Seq(Files \cup {Other}) /\ Len(d) <= MaxEntries
  /\ Absent \subseteq SUBSET Kinds

VARIABLES
  dir,     \* for each kind, the entries in the order readdir finds them
  missing, \* kinds without a directory
  lpc,     \* M: "main", "open", "read", "first", "page" or "undefined"
  here,    \* the page M is on
  streams, \* streams opened: [entries, at], the entries it read and how many it handed out
  open,    \* the streams that are still open
  names,   \* fileNames: what was stored, in order; [stream, at] points into a buffer
  total,   \* getDir's result
  index,   \* indexPic, indexMusic, indexVideo
  used,    \* the name last given to combineFilepatn
  visits   \* history: visits so far

listVars == <<dir, missing, lpc, here, streams, open, names, total, index, used, visits>>

ListInit ==
  /\ dir \in [Kinds -> UNION {StartDirs[k] : k \in Kinds}]
  /\ \A k \in Kinds : dir[k] \in StartDirs[k]
  /\ missing \in Absent
  /\ lpc = "main" /\ here \in Kinds
  /\ streams = <<>> /\ open = {} /\ names = <<>> /\ total = 0
  /\ index = [k \in Kinds |-> 0]
  /\ used = "none" /\ visits = 0

(* Faulty: the ending is not looked at. *)
MatchesAny(e) == TRUE

Matches(e) == e \in Files

------------------------------------------------------------------------------
(* The user copies a file into a directory; the order of the entries is the   *)
(* file system's.  Files are not removed (report 2.3).                        *)
AddFile(k, f) ==
  /\ lpc # "undefined"
  /\ k \notin missing /\ Len(dir[k]) < MaxEntries
  /\ f \notin {dir[k][i] : i \in DOMAIN dir[k]}
  /\ \E n \in 0 .. Len(dir[k]) :
       dir' = [dir EXCEPT ![k] = SubSeq(@, 1, n) \o <<f>> \o SubSeq(@, n + 1, Len(@))]
  /\ UNCHANGED <<missing, lpc, here, streams, open, names, total, index, used, visits>>

(* A page is entered; its array is on the stack and holds nothing of use. *)
Visit(k) ==
  /\ lpc = "main" /\ visits < MaxVisits
  /\ lpc' = "open" /\ here' = k
  /\ names' = <<>> /\ visits' = visits + 1
  /\ UNCHANGED <<dir, missing, streams, open, total, index, used>>

(* The album shows its first picture before it enters its loop. *)
Start == IF here = "pic" THEN "first" ELSE "page"

(* Faulty: one pass to count the files, a second one to store them. *)
OpenDirTwice ==
  /\ lpc = "open"
  /\ here \notin missing /\ Cardinality(open) + 1 < MaxFds
  /\ streams' = streams \o <<[entries |-> <<>>, at |-> 0], [entries |-> <<>>, at |-> 0]>>
  /\ open' = open \cup {Len(streams) + 1, Len(streams) + 2}
  /\ lpc' = "read"
  /\ UNCHANGED <<dir, missing, here, names, total, index, used, visits>>

(* opendir. *)
OpenDir ==
  /\ lpc = "open"
  /\ here \notin missing /\ Cardinality(open) < MaxFds
  /\ streams' = Append(streams, [entries |-> <<>>, at |-> 0])
  /\ open' = open \cup {Len(streams) + 1}
  /\ lpc' = "read"
  /\ UNCHANGED <<dir, missing, here, names, total, index, used, visits>>

OpenFails ==
  /\ lpc = "open"
  /\ here \in missing \/ Cardinality(open) >= MaxFds
  /\ total' = -1
  /\ lpc' = Start
  /\ UNCHANGED <<dir, missing, here, streams, open, names, index, used, visits>>

(* One turn of the loop around readdir.  The first call fetches the entries.  *)
Last == Len(streams)
Entries == IF streams[Last].at = 0 THEN dir[here] ELSE streams[Last].entries

ReadEntry ==
  /\ lpc = "read" /\ streams[Last].at < Len(Entries)
  /\ LET n == streams[Last].at + 1
     IN /\ streams' = [streams EXCEPT ![Last] = [entries |-> Entries, at |-> n]]
        /\ names' = IF Matches(Entries[n]) THEN Append(names, [stream |-> Last, at |-> n])
                                           ELSE names
  /\ UNCHANGED <<dir, missing, lpc, here, open, total, index, used, visits>>

(* Faulty: the stream is closed, and its buffer with it. *)
ReadEndClosing ==
  /\ lpc = "read" /\ streams[Last].at = Len(Entries)
  /\ total' = Len(names)
  /\ open' = open \ {Last}
  /\ lpc' = Start
  /\ UNCHANGED <<dir, missing, here, streams, names, index, used, visits>>

ReadEnd ==
  /\ lpc = "read" /\ streams[Last].at = Len(Entries)
  /\ total' = Len(names)
  /\ lpc' = Start
  /\ UNCHANGED <<dir, missing, here, streams, open, names, index, used, visits>>

------------------------------------------------------------------------------
(* The pages. *)

Live(p) == /\ p.stream \in open
           /\ (p.at - 1) \div Batch = (streams[p.stream].at - 1) \div Batch
Name(p) == IF Live(p) THEN streams[p.stream].entries[p.at] ELSE "wild"

(* fileNames[i]; what is before the first and behind the last stored entry is *)
(* not a name, and combining it is undefined.                                 *)
Entry(i) == IF i + 1 \in DOMAIN names THEN Name(names[i + 1]) ELSE "wild"

Combine(i) ==
  /\ used' = Entry(i)
  /\ lpc' = IF used' = "wild" THEN "undefined" ELSE "page"
  /\ UNCHANGED <<dir, missing, here, streams, open, names, total, visits>>

OnPage == lpc = "page"

UseAt(i) == /\ OnPage
            /\ Combine(i)
            /\ index' = [index EXCEPT ![here] = i]

UseFirst == lpc = "first" /\ Combine(0) /\ UNCHANGED index

UseSame == UseAt(index[here])

UseNext == UseAt(IF index[here] = total - 1 THEN 0 ELSE index[here] + 1)
UsePrev == UseAt(IF index[here] = 0 THEN total - 1 ELSE index[here] - 1)

(* rand() % index_1: nothing is left of the program when that is 0. *)
UseRandom ==
  /\ OnPage /\ here = "pic"
  /\ IF total = 0
       THEN /\ lpc' = "undefined" /\ used' = "wild"
            /\ UNCHANGED <<dir, missing, here, streams, open, names, total, index, visits>>
       ELSE \E i \in 0 .. (IF total < 0 THEN -total ELSE total) - 1 : UseAt(i)

GoBack == /\ OnPage
          /\ lpc' = "main"
          /\ UNCHANGED <<dir, missing, here, streams, open, names, total, index, used, visits>>

Page == UseFirst \/ UseSame \/ UseNext \/ UsePrev \/ UseRandom \/ GoBack

ListNext ==
  \/ \E k \in Kinds : Visit(k) \/ (\E f \in Files : AddFile(k, f))
  \/ OpenDir \/ OpenFails \/ ReadEntry \/ ReadEnd
  \/ Page

ListSpec == ListInit /\ [][ListNext]_listVars
------------------------------------------------------------------------------
ListTypeOK ==
  /\ dir \in [Kinds -> Seq(Files \cup {Other})] /\ missing \subseteq Kinds
  /\ lpc \in {"main", "open", "read", "first", "page", "undefined"}
  /\ here \in Kinds
  /\ streams \in Seq([entries : Seq(Files \cup {Other}), at : Nat])
  /\ open \subseteq 1 .. Len(streams)
  /\ names \in Seq([stream : Nat, at : Nat])
  /\ total \in Int /\ index \in [Kinds -> Int]
  /\ used \in Files \cup {"none", "wild"}
  /\ visits \in Nat

Listed == lpc \in {"first", "page", "undefined"}

(* The pages see a fixed list of files, although what they keep are pointers  *)
(* into the buffers of the streams getDir leaves open: see module Catalogue.  *)
Cat == INSTANCE Catalogue WITH
         Shuffling <- {"pic"},
         page <- IF Listed THEN here ELSE "none",
         list <- IF Listed THEN [i \in DOMAIN names |-> Name(names[i])] ELSE <<>>,
         pos <- index,
         chosen <- used

ListedFiles == Cat!CatSpec

(* getDir fails for a directory that is there only after as many visits as    *)
(* there were descriptors, however few of them saw a file.                    *)
DescriptorsLast ==
  Listed /\ total = -1 /\ here \notin missing => visits > MaxFds
=============================================================================
