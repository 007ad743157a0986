--------------------------- MODULE ListingProofs ---------------------------
(* For every set of directories, size of the array and number of              *)
(* descriptors: the names getDir stored stay names of the files it found, and *)
(* the pages see a fixed list (module Catalogue).                             *)
EXTENDS Listing, FiniteSetTheorems, SequenceTheorems, TLAPS

AnyEntry == Files \cup {Other}
Stream == [entries : Seq(AnyEntry), at : Nat]

(* The places of the first n entries that getDir stores, and how many a       *)
(* whole directory has.                                                       *)
Hits(s, n) == {i \in 1 .. n : s[i] \in Files}
Count(s) == Cardinality(Hits(s, Len(s)))

Fetched == streams[Len(streams)].entries
Given == streams[Len(streams)].at

(* Every visit opens at most one stream, and none is closed. *)
OpenInv ==
  /\ open = 1 .. Len(streams)
  /\ Len(streams) <= visits
  /\ lpc = "open" => Len(streams) < visits /\ names = <<>>
  /\ \A k \in Kinds : Len(dir[k]) <= MaxEntries
  /\ \A n \in 1 .. Len(streams) : /\ streams[n].at <= Len(streams[n].entries)
                                  /\ Len(streams[n].entries) <= MaxEntries

(* Every name stored is an entry that the last stream has handed out. *)
NamesInv ==
  \A i \in DOMAIN names : /\ streams # <<>>
                          /\ names[i].stream = Len(streams)
                          /\ names[i].at \in 1 .. Given
                          /\ Fetched[names[i].at] \in Files

(* While the entries are read, the names are those of the entries so far, and *)
(* the directory may have grown since they were fetched.                      *)
ReadInv ==
  lpc = "read" => /\ streams # <<>>
                  /\ Len(names) = Cardinality(Hits(Fetched, Given))
                  /\ Given > 0 => Count(Fetched) <= Count(dir[here])

Within(i, n) == i = 0 \/ i < n

(* An index is a place in the list its page last had, and lists do not get    *)
(* shorter.                                                                   *)
IndexInv ==
  lpc # "undefined" =>
    /\ used # "wild"
    /\ \A k \in Kinds : index[k] >= 0 /\ Within(index[k], Count(dir[k]))
    /\ lpc = "read" /\ Given > 0 => Within(index[here], Count(Fetched))
    /\ lpc \in {"first", "page"} /\ names # <<>> =>
         /\ total = Len(names) /\ Len(names) <= Count(dir[here])
         /\ index[here] < Len(names)
    /\ lpc \in {"first", "page"} /\ names = <<>> => total \in {-1, 0}

ListInv == ListTypeOK /\ OpenInv /\ NamesInv /\ ReadInv /\ IndexInv /\ DescriptorsLast

------------------------------------------------------------------------------
(* Counting. *)

LEMMA HitsFinite ==
  ASSUME NEW s, NEW n \in Nat
  PROVE  /\ IsFiniteSet(Hits(s, n)) /\ Cardinality(Hits(s, n)) \in Nat
         /\ Cardinality(Hits(s, n)) <= n
<1>1. IsFiniteSet(1 .. n) /\ Cardinality(1 .. n) = n
  BY FS_Interval
<1>2. Hits(s, n) \in SUBSET (1 .. n)
  BY DEF Hits
<1>3. IsFiniteSet(Hits(s, n)) /\ Cardinality(Hits(s, n)) <= Cardinality(1 .. n)
  BY <1>1, <1>2, FS_Subset
<1> QED
  BY <1>1, <1>3, FS_CardinalityType

LEMMA NoHits == \A s : Cardinality(Hits(s, 0)) = 0
<1>1. \A s : Hits(s, 0) = {}
  BY DEF Hits
<1> QED
  BY <1>1, FS_EmptySet

(* One entry more. *)
LEMMA NextHit ==
  ASSUME NEW s, NEW n \in Nat
  PROVE  Cardinality(Hits(s, n + 1)) = IF s[n + 1] \in Files THEN Cardinality(Hits(s, n)) + 1
                                       ELSE Cardinality(Hits(s, n))
<1>0. n + 1 \notin Hits(s, n)
  BY DEF Hits
<1>1. IsFiniteSet(Hits(s, n)) /\ n + 1 \notin Hits(s, n)
  BY <1>0, HitsFinite
<1>2. CASE s[n + 1] \in Files
  <2>1. Hits(s, n + 1) = Hits(s, n) \cup {n + 1}
    BY <1>2 DEF Hits
  <2>2. Cardinality(Hits(s, n) \cup {n + 1}) = Cardinality(Hits(s, n)) + 1
    BY <1>1, FS_AddElement
  <2> QED
    BY <1>2, <2>1, <2>2
<1>3. CASE s[n + 1] \notin Files
  <2>1. Hits(s, n + 1) = Hits(s, n)
    BY <1>3 DEF Hits
  <2> QED
    BY <1>3, <2>1
<1> QED
  BY <1>2, <1>3

(* A new file anywhere in a directory makes no name disappear. *)
LEMMA InsertCounts ==
  ASSUME NEW s, NEW t, NEW L \in Nat, NEW n \in 0 .. L,
         \A i \in 1 .. n : t[i] = s[i],
         \A i \in n + 1 .. L : t[i + 1] = s[i]
  PROVE  Cardinality(Hits(s, L)) <= Cardinality(Hits(t, L + 1))
<1> DEFINE g == [i \in Hits(s, L) |-> IF i <= n THEN i ELSE i + 1]
<1>1. \A i \in Hits(s, L) : i \in 1 .. L /\ g[i] \in Hits(t, L + 1)
  <2> SUFFICES ASSUME NEW i \in Hits(s, L)
               PROVE  i \in 1 .. L /\ g[i] \in Hits(t, L + 1)
    OBVIOUS
  <2>1. i \in 1 .. L /\ s[i] \in Files
    BY DEF Hits
  <2>2. CASE i <= n
    <3>1. g[i] = i /\ i \in 1 .. n /\ i \in 1 .. L + 1
      BY <2>1, <2>2
    <3> QED
      BY <2>1, <3>1 DEF Hits
  <2>3. CASE ~(i <= n)
    <3>1. g[i] = i + 1 /\ i \in n + 1 .. L /\ i + 1 \in 1 .. L + 1
      BY <2>1, <2>3
    <3> QED
      BY <2>1, <3>1 DEF Hits
  <2> QED
    BY <2>2, <2>3
<1>2. g \in Injection(Hits(s, L), Hits(t, L + 1))
  <2>1. g \in [Hits(s, L) -> Hits(t, L + 1)]
    BY <1>1
  <2>2. \A a, b \in Hits(s, L) : g[a] = g[b] => a = b
    <3>1. \A a \in Hits(s, L) : a \in Int /\ g[a] = IF a <= n THEN a ELSE a + 1
      BY <1>1
    <3> HIDE DEF g
    <3> QED
      BY <3>1
  <2>3. DOMAIN g = Hits(s, L)
    OBVIOUS
  <2> QED
    BY <2>1, <2>2, <2>3 DEF Injection, IsInjective
<1>3. IsFiniteSet(Hits(t, L + 1))
  BY HitsFinite
<1> QED
  BY <1>2, <1>3, FS_Injection

LEMMA JoinFacts ==
  ASSUME NEW u \in Seq(AnyEntry), NEW v \in Seq(AnyEntry), NEW f \in AnyEntry
  PROVE  /\ u \o <<f>> \o v \in Seq(AnyEntry)
         /\ Len(u \o <<f>> \o v) = Len(u) + 1 + Len(v)
         /\ \A i \in 1 .. Len(u) : (u \o <<f>> \o v)[i] = u[i]
         /\ \A i \in 1 .. Len(v) : (u \o <<f>> \o v)[Len(u) + 1 + i] = v[i]
<1>1. <<f>> \in Seq(AnyEntry) /\ Len(<<f>>) = 1 /\ Len(u) \in Nat /\ Len(v) \in Nat
  OBVIOUS
<1>2. PICK w : w = u \o <<f>>
  OBVIOUS
<1>3. /\ w \in Seq(AnyEntry) /\ Len(w) = Len(u) + 1
      /\ \A i \in 1 .. Len(u) : w[i] = u[i]
  BY <1>1, <1>2, ConcatProperties
<1>4. /\ w \o v \in Seq(AnyEntry) /\ Len(w \o v) = Len(w) + Len(v)
      /\ \A i \in 1 .. Len(w) + Len(v) : (w \o v)[i] = IF i <= Len(w) THEN w[i] ELSE v[i - Len(w)]
  BY <1>3, ConcatProperties
<1>5. \A i \in 1 .. Len(u) : (w \o v)[i] = u[i]
  BY <1>1, <1>3, <1>4
<1>6. \A i \in 1 .. Len(v) : (w \o v)[Len(u) + 1 + i] = v[i]
  BY <1>1, <1>3, <1>4
<1> QED
  BY <1>1, <1>2, <1>3, <1>4, <1>5, <1>6

LEMMA Grown ==
  ASSUME NEW s \in Seq(AnyEntry), NEW n \in 0 .. Len(s), NEW f \in Files
  PROVE  LET t == SubSeq(s, 1, n) \o <<f>> \o SubSeq(s, n + 1, Len(s))
         IN  /\ t \in Seq(AnyEntry) /\ Len(t) = Len(s) + 1
             /\ Count(s) <= Count(t)
<1> DEFINE u == SubSeq(s, 1, n)
           v == SubSeq(s, n + 1, Len(s))
           t == u \o <<f>> \o v
<1>0. f \in AnyEntry /\ Len(s) \in Nat /\ n \in Nat /\ n <= Len(s)
  BY DEF AnyEntry
<1>1. u \in Seq(AnyEntry) /\ Len(u) = n /\ \A i \in 1 .. n : u[i] = s[i]
  BY <1>0
<1>2. /\ v \in Seq(AnyEntry) /\ Len(v) = Len(s) - n
      /\ \A i \in 1 .. Len(s) - n : v[i] = s[n + i]
  BY <1>0
<1> HIDE DEF u, v
<1>3. /\ t \in Seq(AnyEntry) /\ Len(t) = Len(u) + 1 + Len(v)
      /\ \A i \in 1 .. Len(u) : t[i] = u[i]
      /\ \A i \in 1 .. Len(v) : t[Len(u) + 1 + i] = v[i]
  BY <1>0, <1>1, <1>2, JoinFacts
<1> HIDE DEF t
<1>4. Len(t) = Len(s) + 1 /\ \A i \in 1 .. n : t[i] = s[i]
  BY <1>0, <1>1, <1>2, <1>3
<1>5. \A i \in n + 1 .. Len(s) : t[i + 1] = s[i]
  <2> SUFFICES ASSUME NEW i \in n + 1 .. Len(s) PROVE t[i + 1] = s[i]
    OBVIOUS
  <2>1. i - n \in 1 .. Len(v) /\ Len(u) + 1 + (i - n) = i + 1 /\ n + (i - n) = i
    BY <1>0, <1>1, <1>2
  <2>2. t[i + 1] = v[i - n] /\ v[i - n] = s[i]
    BY <1>2, <1>3, <2>1
  <2> QED
    BY <2>2
<1>6. Count(s) <= Count(t)
  BY <1>0, <1>4, <1>5, InsertCounts DEF Count
<1> QED
  BY <1>3, <1>4, <1>6 DEF t, u, v

------------------------------------------------------------------------------
(* What the steps of the program preserve. *)

LEMMA Initially == ListInit => ListInv
<1> SUFFICES ASSUME ListInit PROVE ListInv
  OBVIOUS
<1>1. \A k \in Kinds : dir[k] \in Seq(AnyEntry) /\ Len(dir[k]) <= MaxEntries
  BY DirsAssumption DEF ListInit, AnyEntry
<1>2. ListTypeOK
  <2>1. dir \in [Kinds -> Seq(AnyEntry)]
    BY <1>1 DEF ListInit
  <2>2. missing \subseteq Kinds
    BY DirsAssumption DEF ListInit
  <2>3. 1 .. Len(streams) = {}
    BY DEF ListInit
  <2> QED
    BY <2>1, <2>2 DEF ListInit, ListTypeOK, AnyEntry
<1>3. OpenInv
  BY <1>1 DEF ListInit, OpenInv
<1>4. NamesInv /\ ReadInv
  BY DEF ListInit, NamesInv, ReadInv
<1>5. IndexInv
  BY DEF ListInit, IndexInv, Within
<1>6. DescriptorsLast
  BY DEF ListInit, DescriptorsLast, Listed
<1> QED
  BY <1>2, <1>3, <1>4, <1>5, <1>6 DEF ListInv

LEMMA Typed ==
  ASSUME ListInv
  PROVE  /\ dir \in [Kinds -> Seq(AnyEntry)] /\ here \in Kinds
         /\ streams \in Seq(Stream) /\ names \in Seq([stream : Nat, at : Nat])
         /\ total \in Int /\ index \in [Kinds -> Int] /\ visits \in Nat
         /\ Len(streams) \in Nat /\ Len(names) \in Nat
         /\ \A k \in Kinds : Len(dir[k]) \in Nat /\ Count(dir[k]) \in Nat
BY HitsFinite DEF ListInv, ListTypeOK, AnyEntry, Stream, Count

LEMMA LastStream ==
  ASSUME ListInv, streams # <<>>
  PROVE  /\ Len(streams) \in 1 .. Len(streams)
         /\ streams[Len(streams)] \in Stream
         /\ Fetched \in Seq(AnyEntry) /\ Given \in Nat /\ Len(Fetched) \in Nat
         /\ Given <= Len(Fetched) /\ Len(Fetched) <= MaxEntries
<1>1. streams \in Seq(Stream)
  BY Typed
<1>2. Len(streams) \in 1 .. Len(streams)
  BY <1>1
<1>3. streams[Len(streams)] \in Stream
  BY <1>1, <1>2
<1>4. Fetched \in Seq(AnyEntry) /\ Given \in Nat
  BY <1>3 DEF Stream, Fetched, Given
<1>5. Given <= Len(Fetched) /\ Len(Fetched) <= MaxEntries
  BY <1>2 DEF ListInv, OpenInv, Fetched, Given
<1> QED
  BY <1>2, <1>3, <1>4, <1>5

LEMMA AddFileStep ==
  ASSUME ListInv, NEW k \in Kinds, NEW f \in Files, AddFile(k, f)
  PROVE  ListInv' /\ \A j \in Kinds : Count(dir[j]) <= Count(dir'[j])
<1>0. PICK n \in 0 .. Len(dir[k]) :
        dir' = [dir EXCEPT ![k] = SubSeq(@, 1, n) \o <<f>> \o SubSeq(@, n + 1, Len(@))]
  BY DEF AddFile
<1> DEFINE s == dir[k]
           t == SubSeq(s, 1, n) \o <<f>> \o SubSeq(s, n + 1, Len(s))
<1>1. dir \in [Kinds -> Seq(AnyEntry)] /\ s \in Seq(AnyEntry)
  BY Typed
<1>2. t \in Seq(AnyEntry) /\ Len(t) = Len(s) + 1 /\ Count(s) <= Count(t)
  BY <1>1, Grown
<1>3. dir' = [dir EXCEPT ![k] = t]
  BY <1>0
<1>4. Len(s) < MaxEntries
  BY DEF AddFile
<1> HIDE DEF t
<1>5. /\ dir' \in [Kinds -> Seq(AnyEntry)]
      /\ \A j \in Kinds : Len(dir'[j]) <= MaxEntries
  <2>1. Len(t) <= MaxEntries
    BY <1>1, <1>2, <1>4, FitsAssumption
  <2> QED
    BY <1>1, <1>2, <1>3, <2>1 DEF ListInv, OpenInv
<1>6. \A j \in Kinds : Count(dir[j]) <= Count(dir'[j]) /\ Count(dir'[j]) \in Nat
  BY <1>1, <1>2, <1>3, <1>5, HitsFinite, Typed DEF Count
<1>7. UNCHANGED <<missing, lpc, here, streams, open, names, total, index, used, visits>>
  BY DEF AddFile
<1>8. ListTypeOK'
  BY <1>5, <1>7 DEF ListInv, ListTypeOK, AnyEntry
<1>9. OpenInv'
  BY <1>5, <1>7 DEF ListInv, OpenInv
<1>10. NamesInv'
  BY <1>7 DEF ListInv, NamesInv, Fetched, Given
<1>11. ReadInv'
  <2> SUFFICES ASSUME lpc = "read", Given > 0 PROVE Count(Fetched) <= Count(dir'[here])
    BY <1>7 DEF ListInv, ReadInv, Fetched, Given
  <2>1. Count(Fetched) <= Count(dir[here]) /\ streams # <<>>
    BY DEF ListInv, ReadInv
  <2>2. Count(Fetched) \in Nat
    BY <2>1, LastStream, HitsFinite DEF Count
  <2> QED
    BY <1>6, <2>1, <2>2, Typed
<1>12. IndexInv'
  <2>1. \A j \in Kinds : Within(index[j], Count(dir[j])) => Within(index[j], Count(dir'[j]))
    BY <1>6, Typed DEF Within
  <2>2. Len(names) <= Count(dir[here]) => Len(names) <= Count(dir'[here])
    BY <1>6, Typed
  <2> QED
    BY <1>7, <2>1, <2>2 DEF ListInv, IndexInv, Fetched, Given
<1>13. DescriptorsLast'
  BY <1>7 DEF ListInv, DescriptorsLast, Listed
<1> QED
  BY <1>6, <1>8, <1>9, <1>10, <1>11, <1>12, <1>13 DEF ListInv

LEMMA VisitStep ==
  ASSUME ListInv, NEW k \in Kinds, Visit(k)
  PROVE  ListInv'
<1>1. ListTypeOK'
  BY DEF ListInv, ListTypeOK, Visit
<1>2. OpenInv'
  BY Typed DEF ListInv, OpenInv, Visit
<1>3. NamesInv' /\ ReadInv'
  BY DEF NamesInv, ReadInv, Visit
<1>4. IndexInv'
  BY DEF ListInv, IndexInv, Visit
<1>5. DescriptorsLast'
  BY DEF DescriptorsLast, Listed, Visit
<1> QED
  BY <1>1, <1>2, <1>3, <1>4, <1>5 DEF ListInv

LEMMA OpenDirStep ==
  ASSUME ListInv, OpenDir
  PROVE  ListInv'
<1> DEFINE new == [entries |-> <<>>, at |-> 0]
           n == Len(streams)
<1>1. new \in Stream
  BY DEF Stream
<1>2. /\ streams' \in Seq(Stream) /\ Len(streams') = n + 1
      /\ \A i \in 1 .. n : streams'[i] = streams[i]
      /\ streams'[n + 1] = new
  BY <1>1, Typed, AppendProperties DEF OpenDir
<1>3. n \in Nat /\ 1 .. n + 1 = (1 .. n) \cup {n + 1} /\ streams' # <<>>
  BY <1>2, Typed
<1>4. open' = 1 .. Len(streams')
  BY <1>2, <1>3 DEF ListInv, OpenInv, OpenDir
<1>5. ListTypeOK'
  BY <1>2, <1>4 DEF ListInv, ListTypeOK, OpenDir, Stream, AnyEntry
<1>6. OpenInv'
  <2>1. n + 1 <= visits
    BY <1>3, Typed DEF ListInv, OpenInv, OpenDir
  <2>2. \A i \in 1 .. n + 1 : /\ streams'[i].at <= Len(streams'[i].entries)
                              /\ Len(streams'[i].entries) <= MaxEntries
    BY <1>2, <1>3, FitsAssumption DEF ListInv, OpenInv
  <2> QED
    BY <1>2, <1>4, <2>1, <2>2 DEF ListInv, OpenInv, OpenDir
<1>7. names' = <<>>
  BY DEF ListInv, OpenInv, OpenDir
<1>8. NamesInv'
  BY <1>7 DEF NamesInv
<1>9. Given' = 0
  BY <1>2 DEF Given
<1>10. ReadInv'
  BY <1>3, <1>7, <1>9, NoHits DEF ReadInv
<1>11. IndexInv'
  BY <1>9 DEF ListInv, IndexInv, OpenDir
<1>12. DescriptorsLast'
  BY DEF DescriptorsLast, Listed, OpenDir
<1> QED
  BY <1>5, <1>6, <1>8, <1>10, <1>11, <1>12 DEF ListInv

LEMMA OpenFailsStep ==
  ASSUME ListInv, OpenFails
  PROVE  ListInv'
<1>1. ListTypeOK'
  BY DEF ListInv, ListTypeOK, OpenFails, Start
<1>2. OpenInv'
  BY DEF ListInv, OpenInv, OpenFails, Start
<1>3. names' = <<>>
  BY DEF ListInv, OpenInv, OpenFails
<1>4. NamesInv' /\ ReadInv'
  BY <1>3 DEF NamesInv, ReadInv, OpenFails, Start
<1>5. IndexInv'
  BY <1>3 DEF ListInv, IndexInv, OpenFails, Start
<1>6. DescriptorsLast'
  <2>1. Cardinality(open) = Len(streams)
    <3>1. open = 1 .. Len(streams) /\ Len(streams) \in Nat
      BY Typed DEF ListInv, OpenInv
    <3>2. Cardinality(1 .. Len(streams)) = Len(streams)
      BY <3>1, FS_Interval
    <3> QED
      BY <3>1, <3>2
  <2>2. Len(streams) < visits
    BY DEF ListInv, OpenInv, OpenFails
  <2>3. here \notin missing => visits > MaxFds
    BY <2>1, <2>2, FdsAssumption, Typed DEF OpenFails
  <2> QED
    BY <2>3 DEF DescriptorsLast, OpenFails
<1> QED
  BY <1>1, <1>2, <1>4, <1>5, <1>6 DEF ListInv

(* Before the first call of readdir nothing is stored; afterwards the entries *)
(* are those of the stream.                                                   *)
LEMMA EntriesFacts ==
  ASSUME ListInv, lpc = "read"
  PROVE  /\ streams # <<>>
         /\ Entries \in Seq(AnyEntry) /\ Len(Entries) \in Nat /\ Len(Entries) <= MaxEntries
         /\ Given \in Nat /\ Count(Entries) \in Nat /\ Count(Entries) <= Count(dir[here])
         /\ Within(index[here], Count(Entries))
         /\ Len(names) = Cardinality(Hits(Entries, Given))
         /\ Given = 0 => names = <<>>
         /\ Given > 0 => Entries = Fetched
<1>1. streams # <<>> /\ Len(names) = Cardinality(Hits(Fetched, Given))
  BY DEF ListInv, ReadInv
<1>2. CASE Given = 0
  <2>1. Entries = dir[here]
    BY <1>2 DEF Entries, Given, Last
  <2>2. Len(names) = 0 /\ Cardinality(Hits(Entries, 0)) = 0
    BY <1>1, <1>2, NoHits
  <2>3. Within(index[here], Count(dir[here]))
    BY Typed DEF ListInv, IndexInv
  <2>4. names = <<>>
    BY <2>2, Typed
  <2>5. Len(dir[here]) <= MaxEntries /\ Count(dir[here]) \in Nat /\ dir[here] \in Seq(AnyEntry)
    BY Typed DEF ListInv, OpenInv
  <2> QED
    BY <1>1, <1>2, <2>1, <2>2, <2>3, <2>4, <2>5
<1>3. CASE Given # 0
  <2>1. Entries = Fetched
    BY <1>3 DEF Entries, Given, Fetched, Last
  <2>2. Given \in Nat /\ Given > 0
    BY <1>1, <1>3, LastStream
  <2>3. Count(Fetched) <= Count(dir[here]) /\ Within(index[here], Count(Fetched))
    BY <2>2 DEF ListInv, ReadInv, IndexInv
  <2>4. Count(Fetched) \in Nat
    BY <1>1, LastStream, HitsFinite DEF Count
  <2> QED
    BY <1>1, <1>3, <2>1, <2>2, <2>3, <2>4, LastStream
<1> QED
  BY <1>2, <1>3

LEMMA ReadEntryStep ==
  ASSUME ListInv, ReadEntry
  PROVE  ListInv'
<1> DEFINE L == Len(streams)
           n == Given + 1
           new == [entries |-> Entries, at |-> n]
           name == [stream |-> L, at |-> n]
<1>0. lpc = "read" /\ lpc' = "read"
  BY DEF ReadEntry
<1>1. /\ streams # <<>> /\ L \in Nat /\ L \in 1 .. L /\ Given \in Nat /\ n \in Nat /\ n > 0
      /\ streams \in Seq(Stream)
  BY <1>0, EntriesFacts, LastStream, Typed
<1>2. n <= Len(Entries) /\ Entries \in Seq(AnyEntry) /\ Len(Entries) \in Nat
  BY <1>0, <1>1, EntriesFacts DEF ReadEntry, Given, Last
<1>3. new \in Stream
  BY <1>1, <1>2 DEF Stream
<1>4. streams' = [streams EXCEPT ![L] = new]
  BY DEF ReadEntry, Last, Given
<1>5. /\ streams' \in Seq(Stream) /\ Len(streams') = L
      /\ \A j \in 1 .. L : streams'[j] = IF j = L THEN new ELSE streams[j]
  BY <1>1, <1>3, <1>4, ExceptSeq
<1>6. streams' # <<>> /\ Fetched' = Entries /\ Given' = n
  BY <1>1, <1>5 DEF Fetched, Given
<1>7. names' = IF Entries[n] \in Files THEN Append(names, name) ELSE names
  BY DEF ReadEntry, Last, Given, Matches
<1>8. /\ names' \in Seq([stream : Nat, at : Nat])
      /\ Len(names') = IF Entries[n] \in Files THEN Len(names) + 1 ELSE Len(names)
      /\ \A i \in 1 .. Len(names) : names'[i] = names[i]
      /\ Entries[n] \in Files => names'[Len(names) + 1] = name
  <2>1. name \in [stream : Nat, at : Nat] /\ names \in Seq([stream : Nat, at : Nat])
    BY <1>1, Typed
  <2> HIDE DEF name, n
  <2>2. /\ Append(names, name) \in Seq([stream : Nat, at : Nat])
        /\ Len(Append(names, name)) = Len(names) + 1
        /\ \A i \in 1 .. Len(names) : Append(names, name)[i] = names[i]
        /\ Append(names, name)[Len(names) + 1] = name
    BY <2>1, AppendProperties
  <2>3. CASE Entries[n] \in Files
    BY <1>7, <2>2, <2>3, Zenon
  <2>4. CASE Entries[n] \notin Files
    BY <1>7, <2>1, <2>4, Zenon
  <2> QED
    BY <2>3, <2>4
<1> HIDE DEF n, new, name
<1>9. UNCHANGED <<dir, missing, lpc, here, open, total, index, used, visits>>
  BY DEF ReadEntry
<1>10. ListTypeOK'
  BY <1>5, <1>8, <1>9 DEF ListInv, ListTypeOK, Stream, AnyEntry
<1>11. OpenInv'
  <2>1. \A j \in 1 .. L : /\ streams'[j].at <= Len(streams'[j].entries)
                          /\ Len(streams'[j].entries) <= MaxEntries
    BY <1>0, <1>2, <1>5, EntriesFacts DEF new, ListInv, OpenInv
  <2> QED
    BY <1>0, <1>5, <1>9, <2>1 DEF ListInv, OpenInv
<1>12. NamesInv'
  <2> SUFFICES ASSUME NEW i \in 1 .. Len(names')
               PROVE  /\ names'[i].stream = L
                      /\ names'[i].at \in 1 .. n
                      /\ Entries[names'[i].at] \in Files
    BY <1>5, <1>6, <1>8 DEF NamesInv
  <2>0. Len(names) \in Nat
    BY Typed
  <2>1. CASE i \in 1 .. Len(names)
    <3>0. names \in Seq([stream : Nat, at : Nat])
      BY Typed
    <3>01. i \in DOMAIN names
      BY <2>1, <3>0
    <3>02. names # <<>>
      BY <3>01
    <3>1. names'[i] = names[i] /\ i \in DOMAIN names /\ names # <<>>
      BY <1>8, <2>1, <3>01, <3>02
    <3>2. /\ names[i].stream = L /\ names[i].at \in 1 .. Given
          /\ Fetched[names[i].at] \in Files
      BY <3>1 DEF ListInv, NamesInv
    <3>3. Given > 0 /\ Entries = Fetched
      BY <1>0, <1>1, <3>1, EntriesFacts
    <3> QED
      BY <1>1, <3>1, <3>2, <3>3 DEF n
  <2>2. CASE i \notin 1 .. Len(names)
    <3>1. i = Len(names) + 1 /\ Entries[n] \in Files
      BY <1>8, <2>0, <2>2
    <3>2. names'[i] = name
      BY <1>8, <3>1
    <3> QED
      BY <1>1, <3>1, <3>2 DEF name
  <2> QED
    BY <2>1, <2>2
<1>13. ReadInv'
  <2>1. Cardinality(Hits(Entries, Given + 1)) =
          IF Entries[Given + 1] \in Files THEN Cardinality(Hits(Entries, Given)) + 1
          ELSE Cardinality(Hits(Entries, Given))
    BY <1>1, NextHit
  <2>2. Len(names') = Cardinality(Hits(Entries, n))
    BY <1>0, <1>8, <2>1, EntriesFacts DEF n
  <2>3. Count(Entries) <= Count(dir[here])
    BY <1>0, EntriesFacts
  <2> QED
    BY <1>6, <1>9, <2>2, <2>3 DEF ReadInv, Count
<1>14. IndexInv'
  <2>1. Within(index[here], Count(Entries))
    BY <1>0, EntriesFacts
  <2> QED
    BY <1>0, <1>6, <1>9, <2>1 DEF ListInv, IndexInv, Count
<1>15. DescriptorsLast'
  BY <1>0 DEF DescriptorsLast, Listed
<1> QED
  BY <1>10, <1>11, <1>12, <1>13, <1>14, <1>15 DEF ListInv

LEMMA ReadEndStep ==
  ASSUME ListInv, ReadEnd
  PROVE  /\ ListInv'
         /\ names # <<>> => index[here] < Len(names)
<1>1. lpc = "read" /\ Given = Len(Entries) /\ total' = Len(names)
  BY DEF ReadEnd, Given, Last
<1>2. UNCHANGED <<dir, missing, here, streams, open, names, index, used, visits>>
  BY DEF ReadEnd
<1>3. lpc' \in {"first", "page"}
  BY DEF ReadEnd, Start
<1>4. Len(names) \in Nat /\ Len(names) = Count(Entries)
  BY <1>1, EntriesFacts, Typed DEF Count
<1>5. names # <<>> => index[here] < Len(names)
  <2>1. names # <<>> => Len(names) > 0
    BY Typed
  <2> QED
    BY <1>1, <1>4, <2>1, EntriesFacts, Typed DEF Within
<1>6. names = <<>> => Len(names) = 0
  OBVIOUS
<1>7. ListTypeOK'
  BY <1>1, <1>2, <1>3, <1>4 DEF ListInv, ListTypeOK
<1>8. OpenInv'
  BY <1>2, <1>3 DEF ListInv, OpenInv
<1>9. NamesInv' /\ ReadInv'
  BY <1>2, <1>3 DEF ListInv, NamesInv, ReadInv, Fetched, Given
<1>10. IndexInv'
  BY <1>1, <1>2, <1>3, <1>4, <1>5, <1>6, EntriesFacts DEF ListInv, IndexInv, Count
<1>11. DescriptorsLast'
  BY <1>1, <1>4 DEF DescriptorsLast
<1> QED
  BY <1>5, <1>7, <1>8, <1>9, <1>10, <1>11 DEF ListInv

------------------------------------------------------------------------------
(* The pages.  What they read through a pointer is what getDir saw, since the *)
(* stream is open and its buffer was filled only once.                        *)

LEMMA LiveNames ==
  ASSUME ListInv, NEW i \in DOMAIN names
  PROVE  Name(names[i]) = Fetched[names[i].at] /\ Name(names[i]) \in Files
<1> DEFINE at == names[i].at
<1>1. /\ streams # <<>> /\ names[i].stream = Len(streams) /\ at \in 1 .. Given
      /\ Fetched[at] \in Files
  BY DEF ListInv, NamesInv
<1>2. Given \in Nat /\ Given <= MaxEntries /\ Len(streams) \in 1 .. Len(streams)
  BY <1>1, LastStream, FitsAssumption
<1>3. /\ Batch \in Nat /\ Batch > 0
      /\ at - 1 \in Nat /\ at - 1 < Batch /\ Given - 1 \in Nat /\ Given - 1 < Batch
  BY <1>1, <1>2, FitsAssumption, FdsAssumption
<1>4. \A x \in Nat : x < Batch => x \div Batch = 0
  BY <1>3, Z3
<1>5. (at - 1) \div Batch = (Given - 1) \div Batch
  BY <1>3, <1>4
<1>6. Live(names[i])
  BY <1>1, <1>2, <1>5 DEF Live, ListInv, OpenInv, Given
<1> QED
  BY <1>1, <1>6 DEF Name, Fetched

LEMMA CombineFacts ==
  ASSUME ListInv, NEW i \in Int, Combine(i)
  PROVE  /\ i + 1 \in DOMAIN names => /\ used' = Name(names[i + 1]) /\ used' \in Files
                                      /\ lpc' = "page"
         /\ i + 1 \notin DOMAIN names => used' = "wild" /\ lpc' = "undefined"
         /\ i + 1 \in DOMAIN names => i >= 0 /\ i < Len(names) /\ names # <<>>
<1>1. CASE i + 1 \in DOMAIN names
  <2>1. Name(names[i + 1]) \in Files
    BY <1>1, LiveNames
  <2>2. i + 1 \in 1 .. Len(names)
    BY <1>1, Typed
  <2>3. names # <<>>
    BY <1>1
  <2> QED
    BY <1>1, <2>1, <2>2, <2>3, NamesAssumption, Typed DEF Combine, Entry
<1>2. CASE i + 1 \notin DOMAIN names
  BY <1>2 DEF Combine, Entry
<1> QED
  BY <1>1, <1>2

(* Whichever entry is combined, with or without a store of the index. *)
LEMMA CombineStep ==
  ASSUME ListInv, lpc \in {"first", "page"}, NEW i \in Int, Combine(i),
         \/ index' = [index EXCEPT ![here] = i]
         \/ i = 0 /\ UNCHANGED index
  PROVE  ListInv'
<1>1. UNCHANGED <<dir, missing, here, streams, open, names, total, visits>>
  BY DEF Combine
<1>2. lpc' \in {"page", "undefined"} /\ used' \in Files \cup {"wild"}
  BY CombineFacts
<1>3. index' \in [Kinds -> Int]
  BY Typed
<1>4. ListTypeOK'
  BY <1>1, <1>2, <1>3 DEF ListInv, ListTypeOK
<1>5. OpenInv'
  BY <1>1, <1>2 DEF ListInv, OpenInv
<1>6. NamesInv' /\ ReadInv'
  BY <1>1, <1>2 DEF ListInv, NamesInv, ReadInv, Fetched, Given
<1>7. IndexInv'
  <2>1. CASE i + 1 \in DOMAIN names
    <3>1. i >= 0 /\ i < Len(names) /\ names # <<>> /\ used' \in Files /\ lpc' = "page"
      BY <2>1, CombineFacts
    <3>2. /\ total = Len(names) /\ Len(names) <= Count(dir[here])
          /\ index[here] < Len(names)
      BY <3>1 DEF ListInv, IndexInv
    <3>3. \A k \in Kinds : index[k] >= 0 /\ Within(index[k], Count(dir[k]))
      BY DEF ListInv, IndexInv
    <3>4. \A k \in Kinds : index'[k] >= 0 /\ Within(index'[k], Count(dir[k]))
      <4> SUFFICES ASSUME NEW k \in Kinds
                   PROVE  index'[k] >= 0 /\ Within(index'[k], Count(dir[k]))
        OBVIOUS
      <4>1. CASE index'[k] = index[k]
        BY <3>3, <4>1
      <4>2. CASE k = here /\ index'[k] = i
        <5>1. Len(names) \in Nat /\ Count(dir[here]) \in Nat
          BY Typed
        <5> QED
          BY <3>1, <3>2, <4>2, <5>1 DEF Within
      <4> QED
        BY <4>1, <4>2, Typed
    <3>5. index'[here] < Len(names)
      BY <3>1, <3>2, Typed
    <3>6. used' # "wild"
      BY <3>1, NamesAssumption
    <3> QED
      BY <1>1, <3>1, <3>2, <3>4, <3>5, <3>6 DEF IndexInv, Count
  <2>2. CASE i + 1 \notin DOMAIN names
    BY <2>2, CombineFacts DEF IndexInv
  <2> QED
    BY <2>1, <2>2
<1>8. DescriptorsLast'
  BY <1>1 DEF ListInv, DescriptorsLast, Listed
<1> QED
  BY <1>4, <1>5, <1>6, <1>7, <1>8 DEF ListInv

LEMMA GoBackStep ==
  ASSUME ListInv, GoBack
  PROVE  ListInv'
<1>1. UNCHANGED <<dir, missing, here, streams, open, names, total, index, used, visits>>
  BY DEF GoBack
<1>2. lpc = "page" /\ lpc' = "main"
  BY DEF GoBack, OnPage
<1>3. ListTypeOK' /\ OpenInv' /\ NamesInv' /\ ReadInv'
  BY <1>1, <1>2 DEF ListInv, ListTypeOK, OpenInv, NamesInv, ReadInv, Fetched, Given
<1>4. IndexInv'
  BY <1>1, <1>2 DEF ListInv, IndexInv
<1>5. DescriptorsLast'
  BY <1>2 DEF DescriptorsLast, Listed
<1> QED
  BY <1>3, <1>4, <1>5 DEF ListInv

(* A random number modulo 0. *)
LEMMA NothingToDrawStep ==
  ASSUME ListInv, UseRandom, total = 0
  PROVE  ListInv' /\ names = <<>>
<1>1. /\ UNCHANGED <<dir, missing, here, streams, open, names, total, index, visits>>
      /\ lpc = "page" /\ lpc' = "undefined" /\ used' = "wild"
  BY DEF UseRandom, OnPage
<1>2. ListTypeOK' /\ OpenInv' /\ NamesInv' /\ ReadInv'
  BY <1>1 DEF ListInv, ListTypeOK, OpenInv, NamesInv, ReadInv, Fetched, Given
<1>3. IndexInv' /\ DescriptorsLast'
  BY <1>1 DEF ListInv, IndexInv, DescriptorsLast, Listed
<1>4. names = <<>>
  <2>1. names # <<>> => Len(names) > 0
    BY Typed
  <2> QED
    BY <1>1, <2>1 DEF ListInv, IndexInv
<1> QED
  BY <1>2, <1>3, <1>4 DEF ListInv

(* What a step of the page does is an entry combined, or nothing of these.    *)
Uses(i) == /\ i \in Int /\ lpc \in {"first", "page"} /\ Combine(i)
           /\ \/ index' = [index EXCEPT ![here] = i]
              \/ i = 0 /\ UNCHANGED index

LEMMA PageUses ==
  ASSUME ListInv, Page
  PROVE  (\E i : Uses(i)) \/ GoBack \/ (UseRandom /\ total = 0)
<1>0. \A i \in Int : UseAt(i) => Uses(i)
  BY DEF UseAt, Uses, OnPage
<1>1. index[here] \in Int /\ total \in Int
  BY Typed
<1>2. CASE UseFirst
  BY <1>2 DEF UseFirst, Uses
<1>3. CASE UseSame
  BY <1>0, <1>1, <1>3 DEF UseSame
<1>4. CASE UseNext
  BY <1>0, <1>1, <1>4 DEF UseNext
<1>5. CASE UsePrev
  BY <1>0, <1>1, <1>5 DEF UsePrev
<1>6. CASE UseRandom
  BY <1>0, <1>1, <1>6 DEF UseRandom
<1> QED
  BY <1>2, <1>3, <1>4, <1>5, <1>6 DEF Page

LEMMA ListStep == ListInv /\ [ListNext]_listVars => ListInv'
<1> SUFFICES ASSUME ListInv, [ListNext]_listVars PROVE ListInv'
  OBVIOUS
<1>1. CASE UNCHANGED listVars
  BY <1>1 DEF ListInv, ListTypeOK, OpenInv, NamesInv, ReadInv, IndexInv, DescriptorsLast,
              Listed, Fetched, Given, Within, Count, listVars
<1>2. CASE Page
  BY <1>2, PageUses, CombineStep, GoBackStep, NothingToDrawStep DEF Uses
<1>3. ASSUME NEW k \in Kinds, Visit(k) \/ (\E f \in Files : AddFile(k, f)) PROVE ListInv'
  BY <1>3, VisitStep, AddFileStep
<1>4. CASE OpenDir \/ OpenFails \/ ReadEntry \/ ReadEnd
  BY <1>4, OpenDirStep, OpenFailsStep, ReadEntryStep, ReadEndStep
<1> QED
  BY <1>1, <1>2, <1>3, <1>4 DEF ListNext

------------------------------------------------------------------------------
(* The names of a page, the places they point to, and the index stay in step  *)
(* with the directories, whatever the user copies meanwhile.                  *)
THEOREM ListInvariance == ListSpec => []ListInv
BY Initially, ListStep, PTL DEF ListSpec

(* Every variable keeps its type: no page ever combines a name that is not a  *)
(* media file (main.c:112-145).                                               *)
THEOREM ListTypeCorrect == ListSpec => []ListTypeOK
<1>1. ListInv => ListTypeOK
  BY DEF ListInv
<1> QED
  BY <1>1, ListInvariance, PTL

(* Although no stream is ever closed, a directory that is there is listed     *)
(* until as many pages were visited as there were descriptors (main.c:98).    *)
THEOREM DescriptorsSuffice == ListSpec => []DescriptorsLast
<1>1. ListInv => DescriptorsLast
  BY DEF ListInv
<1> QED
  BY <1>1, ListInvariance, PTL

------------------------------------------------------------------------------
(* The refinement of Catalogue. *)

LEMMA Circle ==
  ASSUME NEW L \in Nat \ {0}
  PROVE  /\ \A x \in 0 .. L - 1 : x % L = x
         /\ L % L = 0
         /\ (-1) % L = L - 1
<1>1. \A x \in 0 .. L - 1 : x % L = x
  BY Z3
<1>2. L % L = 0
  BY Z3
<1>3. (-1) % L = L - 1
  BY Z3
<1> QED
  BY <1>1, <1>2, <1>3

PageSeen == IF Listed THEN here ELSE "none"
ListSeen == IF Listed THEN [i \in DOMAIN names |-> Name(names[i])] ELSE <<>>

LEMMA SeenTyped ==
  ASSUME ListInv, Listed
  PROVE  /\ ListSeen \in Seq(Files) /\ Len(ListSeen) = Len(names)
         /\ \A i \in DOMAIN names : ListSeen[i] = Name(names[i])
         /\ ListSeen = <<>> <=> names = <<>>
<1>1. Len(names) \in Nat /\ DOMAIN names = 1 .. Len(names)
  BY Typed
<1>2. ListSeen = [i \in 1 .. Len(names) |-> Name(names[i])]
  BY <1>1 DEF ListSeen
<1>3. \A i \in 1 .. Len(names) : Name(names[i]) \in Files
  BY <1>1, LiveNames
<1>4. ListSeen \in Seq(Files) /\ Len(ListSeen) = Len(names)
  BY <1>1, <1>2, <1>3
<1>5. ListSeen = <<>> <=> Len(ListSeen) = 0
  BY <1>4
<1>6. names = <<>> <=> Len(names) = 0
  BY Typed
<1> QED
  BY <1>1, <1>2, <1>4, <1>5, <1>6

(* The list does not change as long as the page is on. *)
LEMMA SameList ==
  ASSUME Listed, Listed', UNCHANGED <<here, streams, open, names>>
  PROVE  UNCHANGED <<PageSeen, ListSeen>>
BY DEF PageSeen, ListSeen, Name, Live

LEMMA Unseen ==
  ASSUME ~Listed, ~Listed', UNCHANGED <<index, used>>
  PROVE  UNCHANGED Cat!catVars
BY DEF Cat!catVars

(* What is combined on a page that has names is an entry of the list.         *)
LEMMA Chosen ==
  ASSUME ListInv, lpc \in {"first", "page"}, NEW i \in 0 .. Len(names) - 1, Combine(i)
  PROVE  ListSeen # <<>> /\ Cat!ChooseAt(i)
<1>1. Len(names) \in Nat /\ DOMAIN names = 1 .. Len(names)
  BY Typed
<1>2. i \in Int /\ i + 1 \in DOMAIN names /\ names # <<>>
  BY <1>1
<1>3. used' = Name(names[i + 1]) /\ lpc' = "page"
  BY <1>2, CombineFacts
<1>4. Listed /\ Listed'
  BY <1>3 DEF Listed
<1>5. UNCHANGED <<PageSeen, ListSeen>>
  BY <1>4, SameList DEF Combine
<1>6. ListSeen[i + 1] = Name(names[i + 1]) /\ ListSeen # <<>>
  BY <1>2, <1>4, SeenTyped
<1> QED
  BY <1>3, <1>5, <1>6 DEF Cat!ChooseAt, PageSeen, ListSeen

(* A page without names. *)
LEMMA Wild ==
  ASSUME ListInv, lpc \in {"first", "page"}, names = <<>>, lpc' = "undefined", used' = "wild",
         UNCHANGED <<here, streams, open, names>>,
         index' \in [Kinds -> Int], \A k \in Kinds \ {here} : index'[k] = index[k]
  PROVE  Cat!Undefined
<1>1. Listed /\ Listed'
  BY DEF Listed
<1>2. UNCHANGED <<PageSeen, ListSeen>> /\ ListSeen = <<>> /\ PageSeen = here
  BY <1>1, SameList, SeenTyped DEF PageSeen
<1> QED
  BY <1>2 DEF Cat!Undefined, PageSeen, ListSeen

LEMMA UseWild ==
  ASSUME ListInv, names = <<>>, NEW i, Uses(i)
  PROVE  Cat!Undefined
<1>1. i + 1 \notin DOMAIN names /\ i \in Int
  BY DEF Uses
<1>2. used' = "wild" /\ lpc' = "undefined"
  BY <1>1, CombineFacts DEF Uses
<1>3. index' \in [Kinds -> Int] /\ \A k \in Kinds \ {here} : index'[k] = index[k]
  BY Typed DEF Uses
<1> QED
  BY <1>2, <1>3, Wild DEF Uses, Combine

(* The page's place in the list. *)
LEMMA Place ==
  ASSUME ListInv, lpc \in {"first", "page"}, names # <<>>
  PROVE  /\ Len(names) \in Nat \ {0} /\ Len(ListSeen) = Len(names) /\ PageSeen = here
         /\ total = Len(names) /\ index[here] \in 0 .. Len(names) - 1
<1>1. Len(names) \in Nat \ {0}
  BY Typed
<1>2. Listed
  BY DEF Listed
<1>3. total = Len(names) /\ index[here] < Len(names) /\ index[here] >= 0
  BY Typed DEF ListInv, IndexInv
<1> QED
  BY <1>1, <1>2, <1>3, SeenTyped, Typed DEF PageSeen

LEMMA StepMaps ==
  ASSUME ListInv, names # <<>>, NEW n \in Int, NEW i, UseAt(i),
         i = (index[here] + n) % Len(names)
  PROVE  Cat!Step(n)
<1>1. lpc \in {"first", "page"} /\ Combine(i) /\ index' = [index EXCEPT ![here] = i]
  BY DEF UseAt, OnPage
<1>2. /\ Len(names) \in Nat \ {0} /\ Len(ListSeen) = Len(names) /\ PageSeen = here
      /\ index[here] \in Int
  BY <1>1, Place
<1>3. i \in 0 .. Len(names) - 1
  BY <1>2
<1>4. ListSeen # <<>> /\ Cat!ChooseAt(i)
  BY <1>1, <1>3, Chosen
<1>5. i = (index[PageSeen] + n) % Len(ListSeen) /\ index' = [index EXCEPT ![PageSeen] = i]
  BY <1>1, <1>2
<1> QED
  BY <1>4, <1>5 DEF Cat!Step, PageSeen, ListSeen

LEMMA PageMaps ==
  ASSUME ListInv, Page
  PROVE  Cat!CatNext
<1>0. lpc \in {"first", "page"}
  BY DEF Page, UseFirst, UseSame, UseNext, UsePrev, UseRandom, GoBack, UseAt, OnPage
<1>1. Listed /\ used # "wild" /\ PageSeen = here /\ PageSeen # "none"
  BY <1>0, Typed, NamesAssumption DEF Listed, ListInv, IndexInv, PageSeen
<1>2. CASE GoBack
  <2>1. ~Listed' /\ UNCHANGED <<index, used>>
    BY <1>2 DEF GoBack, Listed
  <2>2. Cat!Leave
    BY <2>1 DEF Cat!Leave
  <2> QED
    BY <1>1, <2>2 DEF Cat!CatNext, PageSeen
<1>3. CASE UseRandom /\ total = 0
  <2>1. names = <<>>
    BY <1>3, NothingToDrawStep
  <2>2. /\ lpc' = "undefined" /\ used' = "wild"
        /\ UNCHANGED <<here, streams, open, names, index>>
    BY <1>3 DEF UseRandom
  <2>3. Cat!Undefined
    BY <1>0, <2>1, <2>2, Wild, Typed
  <2> QED
    BY <1>1, <2>3 DEF Cat!CatNext, PageSeen
<1>4. CASE names = <<>> /\ \E i : Uses(i)
  <2>1. Cat!Undefined
    BY <1>4, UseWild
  <2> QED
    BY <1>1, <2>1 DEF Cat!CatNext, PageSeen
<1>5. CASE names # <<>> /\ ~GoBack /\ ~(UseRandom /\ total = 0)
  <2> DEFINE L == Len(names)
  <2>0. /\ L \in Nat \ {0} /\ total = L /\ index[here] \in 0 .. L - 1
        /\ PageSeen = here
    BY <1>0, <1>5, Place
  <2>1. CASE UseFirst
    <3>1. 0 \in 0 .. L - 1 /\ Combine(0) /\ UNCHANGED index
      BY <2>0, <2>1 DEF UseFirst
    <3>2. Cat!ChooseFirst
      BY <1>0, <3>1, Chosen DEF Cat!ChooseFirst, ListSeen
    <3> QED
      BY <1>1, <3>2 DEF Cat!CatNext, PageSeen
  <2>2. ASSUME NEW n \in {-1, 0, 1}, Cat!Step(n) PROVE Cat!CatNext
    BY <1>1, <2>2 DEF Cat!CatNext, PageSeen
  <2>3. CASE UseSame
    <3>1. index[here] = (index[here] + 0) % L
      <4>1. index[here] + 0 = index[here]
        BY <2>0
      <4> QED
        BY <2>0, <4>1, Circle
    <3>2. Cat!Step(0)
      BY <1>5, <2>3, <3>1, StepMaps DEF UseSame
    <3> QED
      BY <2>2, <3>2
  <2>4. CASE UseNext
    <3>1. (IF index[here] = total - 1 THEN 0 ELSE index[here] + 1) = (index[here] + 1) % L
      <4>1. CASE index[here] = total - 1
        <5>1. index[here] + 1 = L
          BY <2>0, <4>1
        <5> QED
          BY <2>0, <4>1, <5>1, Circle
      <4>2. CASE index[here] # total - 1
        <5>1. index[here] + 1 \in 0 .. L - 1
          BY <2>0, <4>2
        <5> QED
          BY <2>0, <4>2, <5>1, Circle
      <4> QED
        BY <4>1, <4>2
    <3>2. Cat!Step(1)
      BY <1>5, <2>4, <3>1, StepMaps DEF UseNext
    <3> QED
      BY <2>2, <3>2
  <2>5. CASE UsePrev
    <3>1. (IF index[here] = 0 THEN total - 1 ELSE index[here] - 1) = (index[here] + (-1)) % L
      <4>1. CASE index[here] = 0
        <5>1. index[here] + (-1) = -1
          BY <4>1
        <5> QED
          BY <2>0, <4>1, <5>1, Circle
      <4>2. CASE index[here] # 0
        <5>1. index[here] + (-1) \in 0 .. L - 1 /\ index[here] + (-1) = index[here] - 1
          BY <2>0, <4>2
        <5> QED
          BY <2>0, <4>2, <5>1, Circle
      <4> QED
        BY <4>1, <4>2
    <3>2. -1 \in Int
      OBVIOUS
    <3>3. Cat!Step(-1)
      BY <1>5, <2>5, <3>1, <3>2, StepMaps DEF UsePrev
    <3> QED
      BY <2>2, <3>3
  <2>6. CASE UseRandom
    <3>1. PICK i \in 0 .. L - 1 : UseAt(i)
      BY <1>5, <2>0, <2>6 DEF UseRandom
    <3>2. Cat!ChooseAt(i) /\ ListSeen # <<>> /\ Len(ListSeen) = L
      BY <1>0, <1>5, <3>1, Chosen, Place DEF UseAt
    <3>3. PageSeen = "pic" /\ index' = [index EXCEPT ![PageSeen] = i]
      BY <2>0, <2>6, <3>1 DEF UseRandom, UseAt
    <3>4. Cat!Jump
      BY <3>1, <3>2, <3>3 DEF Cat!Jump, PageSeen, ListSeen
    <3> QED
      BY <1>1, <3>4 DEF Cat!CatNext, PageSeen
  <2> QED
    BY <1>5, <2>1, <2>3, <2>4, <2>5, <2>6 DEF Page
<1> QED
  BY <1>2, <1>3, <1>4, <1>5, PageUses

(* getDir is through. *)
LEMMA EnterMaps ==
  ASSUME ListInv, ListInv', ~Listed, Listed', UNCHANGED <<here, index, used>>,
         names' # <<>> => index[here] < Len(names')
  PROVE  Cat!CatNext
<1>1. ListSeen' \in Seq(Files) /\ Len(ListSeen') = Len(names') /\ (ListSeen' = <<>> <=> names' = <<>>)
  <2>1. (ListInv /\ Listed => /\ ListSeen \in Seq(Files) /\ Len(ListSeen) = Len(names)
                             /\ (ListSeen = <<>> <=> names = <<>>))'
    BY SeenTyped, PTL
  <2> QED
    BY <2>1
<1>2. PageSeen = "none" /\ PageSeen' = here /\ here \in Kinds
  BY Typed DEF PageSeen
<1>3. Cat!Enter(here)
  BY <1>1, <1>2 DEF Cat!Enter, PageSeen, ListSeen
<1> QED
  BY <1>2, <1>3 DEF Cat!CatNext

LEMMA StepRefines ==
  ASSUME ListInv, ListInv', [ListNext]_listVars
  PROVE  [Cat!CatNext]_(Cat!catVars)
<1>1. CASE UNCHANGED listVars
  BY <1>1 DEF listVars, Cat!catVars, Listed, Name, Live
<1>2. CASE Page
  BY <1>2, PageMaps
<1>3. ASSUME NEW k \in Kinds, Visit(k) PROVE [Cat!CatNext]_(Cat!catVars)
  BY <1>3, Unseen DEF Visit, Listed
<1>4. ASSUME NEW k \in Kinds, NEW f \in Files, AddFile(k, f) PROVE [Cat!CatNext]_(Cat!catVars)
  BY <1>4 DEF AddFile, Cat!catVars, Listed, Name, Live
<1>5. CASE OpenDir \/ ReadEntry
  <2>1. ~Listed /\ ~Listed' /\ UNCHANGED <<index, used>>
    BY <1>5 DEF OpenDir, ReadEntry, Listed
  <2> QED
    BY <2>1, Unseen
<1>6. CASE OpenFails
  <2>1. ~Listed /\ Listed' /\ UNCHANGED <<here, index, used>> /\ names' = <<>>
    BY <1>6 DEF OpenFails, Start, Listed, ListInv, OpenInv
  <2> QED
    BY <2>1, EnterMaps
<1>7. CASE ReadEnd
  <2>1. ~Listed /\ Listed' /\ UNCHANGED <<here, index, used, names>>
    BY <1>7 DEF ReadEnd, Start, Listed
  <2>2. names # <<>> => index[here] < Len(names)
    BY <1>7, ReadEndStep
  <2> QED
    BY <2>1, <2>2, EnterMaps
<1> QED
  BY <1>1, <1>2, <1>3, <1>4, <1>5, <1>6, <1>7 DEF ListNext

(* The pages work on a fixed list of the files that were there when they were *)
(* entered, for every number of files and every order of the entries: getDir  *)
(* and the indices implement Catalogue (main.c:95-149, 321-389, 584-606).     *)
THEOREM ListingIsCatalogue == ListSpec => ListedFiles
<1>1. ListInit => Cat!CatInit
  BY DEF ListInit, Cat!CatInit, Listed
<1>2. ListInv /\ ListInv' /\ [ListNext]_listVars => [Cat!CatNext]_(Cat!catVars)
  BY StepRefines
<1> QED
  BY <1>1, <1>2, ListInvariance, PTL DEF ListSpec, ListedFiles, Cat!CatSpec
=============================================================================
