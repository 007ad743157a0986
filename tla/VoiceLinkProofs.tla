-------------------------- MODULE VoiceLinkProofs --------------------------
(* What holds of the voice connection for every header, recording and block   *)
(* length, every vocabulary, every way TCP may cut the stream and every       *)
(* connection that is lost.                                                   *)
EXTENDS VoiceLink, TLAPS

(* The two programs' places.  A board that has its answer, and did not lose   *)
(* the connection, has it from the server's current call, with which the      *)
(* server is through.  A server that is behind serves lost connections.       *)
Busy == {"header", "body", "recognise", "answer"}
Between == {"close", "accept", "spin"}

InStep ==
  /\ conn <= call
  /\ spc \in Busy => answer = "nothing" /\ ~closed
  /\ cpc = "record" /\ conn = call /\ ~wire[call].lost => spc \in {"header", "crashed"}
  /\ cpc \in {"connect", "done"} /\ ~wire[call].lost
       => spc = "crashed" \/ (spc \in Between /\ conn = call)
  /\ cpc = "killed" => spc = "crashed" \/ wire[call].lost
  /\ spc \in Between \cup {"header"} => leaked < MaxFds

(* No connection carries more than was announced, and those of calls to come  *)
(* carry nothing.                                                             *)
Sent == /\ \A c \in Calls : wire[c].sent <= Header + wire[c].size
        /\ \A c \in Calls : c > call => wire[c] = Unused
        /\ cpc = "record" => wire[call].sent = 0

(* What the server has taken of its connection: once through with the loop,   *)
(* either enough or all there was.                                            *)
Taken == /\ spc = "header" => head = 0 /\ read = 0
         /\ spc \in {"body", "recognise", "answer", "close"}
              => head <= Header /\ head <= read /\ read <= wire[conn].sent
         /\ spc = "body" => read > 0 \/ wire[conn].lost
         /\ spc \in {"recognise", "answer", "close"}
              => wire[conn].size <= read - head \/ NoMore

(* With the whole header taken and nothing lost, the answer survives and it   *)
(* is what the result file says.                                              *)
Answered ==
  head = Header /\ conn = call /\ ~wire[call].lost
    => /\ spc \in Between /\ cpc \in {"send", "wait"} => answer = result
       /\ spc \in Between /\ cpc = "done" => buf = result

LinkInv == LinkTypeOK /\ InStep /\ Sent /\ Taken /\ Answered

LEMMA LeastFacts ==
  ASSUME NEW m \in Nat, NEW n \in Nat
  PROVE  Least(m, n) \in Nat /\ Least(m, n) <= m /\ Least(m, n) <= n
BY DEF Least

(* Each connection is a record of two numbers and a flag. *)
LEMMA WireTyped ==
  ASSUME LinkTypeOK, NEW c \in Calls
  PROVE  wire[c].size \in Nat /\ wire[c].sent \in Nat /\ wire[c].lost \in BOOLEAN
BY DEF LinkTypeOK

LEMMA Counts == LinkTypeOK => call \in Nat /\ conn \in Nat /\ call \in Calls /\ conn \in Calls
BY LinkBoundsAssumption DEF LinkTypeOK, Calls

(* A step of the board changes its own connection and no other. *)
LEMMA WiredFacts ==
  ASSUME LinkTypeOK, NEW n \in Nat, NEW m \in Nat, NEW l \in BOOLEAN, Wired(n, m, l)
  PROVE  /\ wire' \in [Calls -> [size : Nat, sent : Nat, lost : BOOLEAN]]
         /\ wire'[call] = [size |-> n, sent |-> m, lost |-> l]
         /\ \A c \in Calls : c # call => wire'[c] = wire[c]
<1>1. call \in Calls /\ wire \in [Calls -> [size : Nat, sent : Nat, lost : BOOLEAN]]
  BY DEF LinkTypeOK
<1>2. [size |-> n, sent |-> m, lost |-> l] \in [size : Nat, sent : Nat, lost : BOOLEAN]
  OBVIOUS
<1> QED
  BY <1>1, <1>2 DEF Wired

(* A recv takes at least one unit, at most a buffer, and never more than the  *)
(* connection has.                                                            *)
LEMMA ChunkFacts ==
  ASSUME LinkTypeOK, NEW n \in Chunk, read <= wire[conn].sent
  PROVE  n \in Nat /\ 1 <= n /\ n <= Header /\ read + n <= wire[conn].sent
<1>0. wire[conn].sent \in Nat /\ read \in Nat /\ Header \in Nat
  BY WireTyped, Counts, UnitsAssumption DEF LinkTypeOK
<1>1. Header \in Nat /\ wire[conn].sent - read \in Nat
  BY <1>0
<1> DEFINE k == Least(Header, wire[conn].sent - read)
<1>2. k \in Nat /\ k <= Header /\ k <= wire[conn].sent - read
  BY <1>1, LeastFacts
<1>3. n \in 1..k
  BY DEF Chunk
<1> HIDE DEF k
<1> QED
  BY <1>0, <1>2, <1>3

LEMMA ConnectKeeps == LinkInv /\ Connect => LinkInv'
<1> SUFFICES ASSUME LinkInv, Connect PROVE LinkInv'
  OBVIOUS
<1> USE UnitsAssumption, WordsAssumption, Counts, WireTyped DEF Busy, Between
<1>1. LinkTypeOK'
  BY LinkBoundsAssumption DEF LinkInv, LinkTypeOK, InStep, Sent, Taken, Answered, NoMore, Connect, serverVars, Calls, Unused
<1>2. InStep'
  BY LinkBoundsAssumption DEF LinkInv, LinkTypeOK, InStep, Sent, Taken, Answered, NoMore, Connect, serverVars, Calls, Unused
<1>3. Sent'
  BY LinkBoundsAssumption DEF LinkInv, LinkTypeOK, InStep, Sent, Taken, Answered, NoMore, Connect, serverVars, Calls, Unused
<1>4. Taken'
  BY LinkBoundsAssumption DEF LinkInv, LinkTypeOK, InStep, Sent, Taken, Answered, NoMore, Connect, serverVars, Calls, Unused
<1>5. Answered'
  BY LinkBoundsAssumption DEF LinkInv, LinkTypeOK, InStep, Sent, Taken, Answered, NoMore, Connect, serverVars, Calls, Unused
<1> QED
  BY <1>1, <1>2, <1>3, <1>4, <1>5 DEF LinkInv

LEMMA RecordKeeps == LinkInv /\ Record => LinkInv'
<1> SUFFICES ASSUME LinkInv, Record PROVE LinkInv'
  OBVIOUS
<1> USE UnitsAssumption, WordsAssumption, Counts, WireTyped DEF Busy, Between
<1>0. PICK n \in Sizes : Wired(n, IF wire[call].lost THEN 0 ELSE Header, wire[call].lost)
  BY DEF Record
<1> DEFINE m == IF wire[call].lost THEN 0 ELSE Header
           l == wire[call].lost
<1>00. /\ n \in Nat /\ m \in Nat /\ m <= Header + n /\ l \in BOOLEAN
       /\ wire' \in [Calls -> [size : Nat, sent : Nat, lost : BOOLEAN]]
       /\ wire'[call] = [size |-> n, sent |-> m, lost |-> l]
       /\ \A c \in Calls : c # call => wire'[c] = wire[c]
  BY <1>0, WiredFacts DEF LinkInv
<1>1. LinkTypeOK'
  BY <1>0, <1>00 DEF LinkInv, LinkTypeOK, InStep, Sent, Taken, Answered, NoMore, Record, Sending, serverVars
<1>2. InStep'
  BY <1>0, <1>00 DEF LinkInv, LinkTypeOK, InStep, Sent, Taken, Answered, NoMore, Record, Sending, serverVars
<1>3. Sent'
  BY <1>0, <1>00 DEF LinkInv, LinkTypeOK, InStep, Sent, Taken, Answered, NoMore, Record, Sending, serverVars
<1>4. Taken'
  BY <1>0, <1>00 DEF LinkInv, LinkTypeOK, InStep, Sent, Taken, Answered, NoMore, Record, Sending, serverVars
<1>5. Answered'
  BY <1>0, <1>00 DEF LinkInv, LinkTypeOK, InStep, Sent, Taken, Answered, NoMore, Record, Sending, serverVars
<1> QED
  BY <1>1, <1>2, <1>3, <1>4, <1>5 DEF LinkInv

LEMMA NoRecordingKeeps == LinkInv /\ NoRecording => LinkInv'
<1> SUFFICES ASSUME LinkInv, NoRecording PROVE LinkInv'
  OBVIOUS
<1> USE UnitsAssumption, WordsAssumption, Counts, WireTyped DEF Busy, Between
<1>0. /\ wire' \in [Calls -> [size : Nat, sent : Nat, lost : BOOLEAN]]
      /\ wire'[call] = [size |-> 0, sent |-> 0, lost |-> TRUE]
      /\ \A c \in Calls : c # call => wire'[c] = wire[c]
  BY WiredFacts DEF LinkInv, NoRecording
<1>1. LinkTypeOK'
  BY <1>0 DEF LinkInv, LinkTypeOK, InStep, Sent, Taken, Answered, NoMore, NoRecording, serverVars
<1>2. InStep'
  BY <1>0 DEF LinkInv, LinkTypeOK, InStep, Sent, Taken, Answered, NoMore, NoRecording, serverVars
<1>3. Sent'
  BY <1>0 DEF LinkInv, LinkTypeOK, InStep, Sent, Taken, Answered, NoMore, NoRecording, serverVars
<1>4. Taken'
  BY <1>0 DEF LinkInv, LinkTypeOK, InStep, Sent, Taken, Answered, NoMore, NoRecording, serverVars
<1>5. Answered'
  BY <1>0 DEF LinkInv, LinkTypeOK, InStep, Sent, Taken, Answered, NoMore, NoRecording, serverVars
<1> QED
  BY <1>1, <1>2, <1>3, <1>4, <1>5 DEF LinkInv

LEMMA SendChunkKeeps == LinkInv /\ SendChunk => LinkInv'
<1> SUFFICES ASSUME LinkInv, SendChunk PROVE LinkInv'
  OBVIOUS
<1> USE UnitsAssumption, WordsAssumption, Counts, WireTyped DEF Busy, Between
<1> DEFINE n == wire[call].size
           m == Least(wire[call].sent + Header, Header + n)
<1>0. n \in Nat /\ m \in Nat /\ wire[call].sent <= m /\ m <= Header + n
  BY DEF LinkInv, SendChunk, Least
<1>00. /\ wire' \in [Calls -> [size : Nat, sent : Nat, lost : BOOLEAN]]
       /\ wire'[call] = [size |-> n, sent |-> m, lost |-> FALSE]
       /\ \A c \in Calls : c # call => wire'[c] = wire[c]
  BY <1>0, WiredFacts DEF LinkInv, SendChunk
<1> HIDE DEF m
<1>1. LinkTypeOK'
  BY <1>0, <1>00 DEF LinkInv, LinkTypeOK, InStep, Sent, Taken, Answered, NoMore, SendChunk, Sending, serverVars
<1>2. InStep'
  BY <1>0, <1>00 DEF LinkInv, LinkTypeOK, InStep, Sent, Taken, Answered, NoMore, SendChunk, Sending, serverVars
<1>3. Sent'
  BY <1>0, <1>00 DEF LinkInv, LinkTypeOK, InStep, Sent, Taken, Answered, NoMore, SendChunk, Sending, serverVars
<1>4. Taken'
  BY <1>0, <1>00 DEF LinkInv, LinkTypeOK, InStep, Sent, Taken, Answered, NoMore, SendChunk, Sending, serverVars
<1>5. Answered'
  BY <1>0, <1>00 DEF LinkInv, LinkTypeOK, InStep, Sent, Taken, Answered, NoMore, SendChunk, Sending, serverVars
<1> QED
  BY <1>1, <1>2, <1>3, <1>4, <1>5 DEF LinkInv

LEMMA SendLostKeeps == LinkInv /\ SendLost => LinkInv'
<1> SUFFICES ASSUME LinkInv, SendLost PROVE LinkInv'
  OBVIOUS
<1> USE UnitsAssumption, WordsAssumption, Counts, WireTyped DEF Busy, Between
<1>1. LinkTypeOK'
  BY DEF LinkInv, LinkTypeOK, InStep, Sent, Taken, Answered, NoMore, SendLost, Sending, serverVars
<1>2. InStep'
  BY DEF LinkInv, LinkTypeOK, InStep, Sent, Taken, Answered, NoMore, SendLost, Sending, serverVars
<1>3. Sent'
  BY DEF LinkInv, LinkTypeOK, InStep, Sent, Taken, Answered, NoMore, SendLost, Sending, serverVars
<1>4. Taken'
  BY DEF LinkInv, LinkTypeOK, InStep, Sent, Taken, Answered, NoMore, SendLost, Sending, serverVars
<1>5. Answered'
  BY DEF LinkInv, LinkTypeOK, InStep, Sent, Taken, Answered, NoMore, SendLost, Sending, serverVars
<1> QED
  BY <1>1, <1>2, <1>3, <1>4, <1>5 DEF LinkInv

LEMMA OverSendingKeeps == LinkInv /\ OverSending => LinkInv'
<1> SUFFICES ASSUME LinkInv, OverSending PROVE LinkInv'
  OBVIOUS
<1> USE UnitsAssumption, WordsAssumption, Counts, WireTyped DEF Busy, Between
<1>1. LinkTypeOK'
  BY DEF LinkInv, LinkTypeOK, InStep, Sent, Taken, Answered, NoMore, OverSending, serverVars
<1>2. InStep'
  BY DEF LinkInv, LinkTypeOK, InStep, Sent, Taken, Answered, NoMore, OverSending, serverVars
<1>3. Sent'
  BY DEF LinkInv, LinkTypeOK, InStep, Sent, Taken, Answered, NoMore, OverSending, serverVars
<1>4. Taken'
  BY DEF LinkInv, LinkTypeOK, InStep, Sent, Taken, Answered, NoMore, OverSending, serverVars
<1>5. Answered'
  BY DEF LinkInv, LinkTypeOK, InStep, Sent, Taken, Answered, NoMore, OverSending, serverVars
<1> QED
  BY <1>1, <1>2, <1>3, <1>4, <1>5 DEF LinkInv

LEMMA ReceiveKeeps == LinkInv /\ Receive => LinkInv'
<1> SUFFICES ASSUME LinkInv, Receive PROVE LinkInv'
  OBVIOUS
<1> USE UnitsAssumption, WordsAssumption, Counts, WireTyped DEF Busy, Between
<1>1. LinkTypeOK'
  BY DEF LinkInv, LinkTypeOK, InStep, Sent, Taken, Answered, NoMore, Receive, serverVars
<1>2. InStep'
  BY DEF LinkInv, LinkTypeOK, InStep, Sent, Taken, Answered, NoMore, Receive, serverVars
<1>3. Sent'
  BY DEF LinkInv, LinkTypeOK, InStep, Sent, Taken, Answered, NoMore, Receive, serverVars
<1>4. Taken'
  BY DEF LinkInv, LinkTypeOK, InStep, Sent, Taken, Answered, NoMore, Receive, serverVars
<1>5. Answered'
  BY DEF LinkInv, LinkTypeOK, InStep, Sent, Taken, Answered, NoMore, Receive, serverVars
<1> QED
  BY <1>1, <1>2, <1>3, <1>4, <1>5 DEF LinkInv

LEMMA ReturnKeeps == LinkInv /\ Return => LinkInv'
<1> SUFFICES ASSUME LinkInv, Return PROVE LinkInv'
  OBVIOUS
<1> USE UnitsAssumption, WordsAssumption, Counts, WireTyped DEF Busy, Between
<1>1. LinkTypeOK'
  BY DEF LinkInv, LinkTypeOK, InStep, Sent, Taken, Answered, NoMore, Return, serverVars
<1>2. InStep'
  BY DEF LinkInv, LinkTypeOK, InStep, Sent, Taken, Answered, NoMore, Return, serverVars
<1>3. Sent'
  BY DEF LinkInv, LinkTypeOK, InStep, Sent, Taken, Answered, NoMore, Return, serverVars
<1>4. Taken'
  BY DEF LinkInv, LinkTypeOK, InStep, Sent, Taken, Answered, NoMore, Return, serverVars
<1>5. Answered'
  BY DEF LinkInv, LinkTypeOK, InStep, Sent, Taken, Answered, NoMore, Return, serverVars
<1> QED
  BY <1>1, <1>2, <1>3, <1>4, <1>5 DEF LinkInv

LEMMA LoseKeeps == LinkInv /\ Lose => LinkInv'
<1> SUFFICES ASSUME LinkInv, Lose PROVE LinkInv'
  OBVIOUS
<1> USE UnitsAssumption, WordsAssumption, Counts, WireTyped DEF Busy, Between
<1> DEFINE taken == IF conn = call THEN read ELSE 0
<1>0. PICK n \in taken..wire[call].sent : Wired(wire[call].size, n, TRUE)
  BY DEF Lose
<1>000. taken \in Nat
  BY DEF LinkInv, LinkTypeOK
<1>00. /\ n \in Nat /\ taken <= n /\ n <= wire[call].sent
       /\ wire' \in [Calls -> [size : Nat, sent : Nat, lost : BOOLEAN]]
       /\ wire'[call] = [size |-> wire[call].size, sent |-> n, lost |-> TRUE]
       /\ \A c \in Calls : c # call => wire'[c] = wire[c]
  <2>1. wire[call].size \in Nat /\ wire[call].sent \in Nat
    BY DEF LinkInv
  <2>2. n \in Nat /\ taken <= n /\ n <= wire[call].sent
    BY <1>0, <1>000, <2>1
  <2> QED
    BY <1>0, <2>1, <2>2, WiredFacts DEF LinkInv
<1> HIDE DEF taken
<1>01. conn = call => read <= n
  BY <1>00 DEF taken
<1>1. LinkTypeOK'
  BY <1>00, <1>01 DEF LinkInv, LinkTypeOK, InStep, Sent, Taken, Answered, NoMore, Lose, serverVars
<1>2. InStep'
  BY <1>00, <1>01 DEF LinkInv, LinkTypeOK, InStep, Sent, Taken, Answered, NoMore, Lose, serverVars
<1>3. Sent'
  BY <1>00, <1>01 DEF LinkInv, LinkTypeOK, InStep, Sent, Taken, Answered, NoMore, Lose, serverVars
<1>4. Taken'
  BY <1>00, <1>01 DEF LinkInv, LinkTypeOK, InStep, Sent, Taken, Answered, NoMore, Lose, serverVars
<1>5. Answered'
  BY <1>00, <1>01 DEF LinkInv, LinkTypeOK, InStep, Sent, Taken, Answered, NoMore, Lose, serverVars
<1> QED
  BY <1>1, <1>2, <1>3, <1>4, <1>5 DEF LinkInv

LEMMA RebootKeeps == LinkInv /\ Reboot => LinkInv'
<1> SUFFICES ASSUME LinkInv, Reboot PROVE LinkInv'
  OBVIOUS
<1> USE UnitsAssumption, WordsAssumption, Counts, WireTyped DEF Busy, Between
<1>1. LinkTypeOK'
  BY DEF LinkInv, LinkTypeOK, InStep, Sent, Taken, Answered, NoMore, Reboot, serverVars
<1>2. InStep'
  BY DEF LinkInv, LinkTypeOK, InStep, Sent, Taken, Answered, NoMore, Reboot, serverVars
<1>3. Sent'
  BY DEF LinkInv, LinkTypeOK, InStep, Sent, Taken, Answered, NoMore, Reboot, serverVars
<1>4. Taken'
  BY DEF LinkInv, LinkTypeOK, InStep, Sent, Taken, Answered, NoMore, Reboot, serverVars
<1>5. Answered'
  BY DEF LinkInv, LinkTypeOK, InStep, Sent, Taken, Answered, NoMore, Reboot, serverVars
<1> QED
  BY <1>1, <1>2, <1>3, <1>4, <1>5 DEF LinkInv

LEMMA AcceptKeeps == LinkInv /\ Accept => LinkInv'
<1> SUFFICES ASSUME LinkInv, Accept PROVE LinkInv'
  OBVIOUS
<1> USE UnitsAssumption, WordsAssumption, Counts, WireTyped DEF Busy, Between
<1>0. /\ wire' \in [Calls -> [size : Nat, sent : Nat, lost : BOOLEAN]]
      /\ wire'[conn] = Unused
      /\ \A c \in Calls : c # conn => wire'[c] = wire[c]
      /\ conn + 1 \in Calls /\ conn' = conn + 1
  BY LinkBoundsAssumption DEF LinkInv, LinkTypeOK, Accept, Unused, Calls
<1>1. LinkTypeOK'
  BY <1>0 DEF LinkInv, LinkTypeOK, InStep, Sent, Taken, Answered, NoMore, Accept, Unused
<1>2. InStep'
  BY <1>0 DEF LinkInv, LinkTypeOK, InStep, Sent, Taken, Answered, NoMore, Accept, Unused
<1>3. Sent'
  <2>1. ASSUME NEW c \in Calls
        PROVE  wire'[c].sent <= Header + wire'[c].size /\ (c > call => wire'[c] = Unused)
    <3>1. CASE c = conn
      BY <1>0, <3>1 DEF Unused
    <3>2. CASE c # conn
      BY <1>0, <3>2 DEF LinkInv, Sent
    <3> QED
      BY <3>1, <3>2
  <2>2. call # conn /\ cpc' = cpc /\ call' = call
    BY DEF LinkInv, Accept
  <2>3. cpc = "record" => wire'[call].sent = 0
    BY <1>0, <2>2 DEF LinkInv, Sent
  <2> QED
    BY <2>1, <2>2, <2>3 DEF Sent
<1>4. Taken'
  BY <1>0 DEF LinkInv, LinkTypeOK, InStep, Sent, Taken, Answered, NoMore, Accept, Unused
<1>5. Answered'
  BY <1>0 DEF LinkInv, LinkTypeOK, InStep, Sent, Taken, Answered, NoMore, Accept, Unused
<1> QED
  BY <1>1, <1>2, <1>3, <1>4, <1>5 DEF LinkInv

LEMMA AcceptFailsKeeps == LinkInv /\ AcceptFails => LinkInv'
<1> SUFFICES ASSUME LinkInv, AcceptFails PROVE LinkInv'
  OBVIOUS
<1> USE UnitsAssumption, WordsAssumption, Counts, WireTyped DEF Busy, Between
<1>1. LinkTypeOK'
  BY DEF LinkInv, LinkTypeOK, InStep, Sent, Taken, Answered, NoMore, AcceptFails, boardVars
<1>2. InStep'
  BY DEF LinkInv, LinkTypeOK, InStep, Sent, Taken, Answered, NoMore, AcceptFails, boardVars
<1>3. Sent'
  BY DEF LinkInv, LinkTypeOK, InStep, Sent, Taken, Answered, NoMore, AcceptFails, boardVars
<1>4. Taken'
  BY DEF LinkInv, LinkTypeOK, InStep, Sent, Taken, Answered, NoMore, AcceptFails, boardVars
<1>5. Answered'
  BY DEF LinkInv, LinkTypeOK, InStep, Sent, Taken, Answered, NoMore, AcceptFails, boardVars
<1> QED
  BY <1>1, <1>2, <1>3, <1>4, <1>5 DEF LinkInv

LEMMA ReadHeaderKeeps == LinkInv /\ ReadHeader => LinkInv'
<1> SUFFICES ASSUME LinkInv, ReadHeader PROVE LinkInv'
  OBVIOUS
<1> USE UnitsAssumption, WordsAssumption, Counts, WireTyped DEF Busy, Between
<1>0. PICK n : head' = n /\ read' = n /\ (n \in Chunk \/ (n = 0 /\ NoMore))
  BY DEF ReadHeader
<1>00. /\ n \in Nat /\ n <= Header /\ n <= wire[conn].sent
       /\ n > 0 \/ wire[conn].lost
  <2>0. LinkTypeOK /\ conn \in Calls
    BY DEF LinkInv
  <2>1. read = 0 /\ wire[conn].sent \in Nat /\ Header \in Nat
    BY <2>0 DEF LinkInv, ReadHeader, Taken
  <2>2. CASE n \in Chunk
    <3>1. n \in Nat /\ 1 <= n /\ n <= Header /\ read + n <= wire[conn].sent
      BY <2>1, <2>2, ChunkFacts DEF LinkInv
    <3> QED
      BY <2>1, <3>1
  <2>3. CASE n = 0 /\ NoMore
    BY <2>1, <2>3 DEF NoMore
  <2> QED
    BY <1>0, <2>2, <2>3
<1>1. LinkTypeOK'
  BY <1>0, <1>00, LinkBoundsAssumption DEF LinkInv, LinkTypeOK, InStep, Sent, Taken, Answered, NoMore, ReadHeader, boardVars
<1>2. InStep'
  BY <1>0, <1>00, LinkBoundsAssumption DEF LinkInv, LinkTypeOK, InStep, Sent, Taken, Answered, NoMore, ReadHeader, boardVars
<1>3. Sent'
  BY <1>0, <1>00, LinkBoundsAssumption DEF LinkInv, LinkTypeOK, InStep, Sent, Taken, Answered, NoMore, ReadHeader, boardVars
<1>4. Taken'
  BY <1>0, <1>00, LinkBoundsAssumption DEF LinkInv, LinkTypeOK, InStep, Sent, Taken, Answered, NoMore, ReadHeader, boardVars
<1>5. Answered'
  BY <1>0, <1>00, LinkBoundsAssumption DEF LinkInv, LinkTypeOK, InStep, Sent, Taken, Answered, NoMore, ReadHeader, boardVars
<1> QED
  BY <1>1, <1>2, <1>3, <1>4, <1>5 DEF LinkInv

LEMMA ReadBodyKeeps == LinkInv /\ ReadBody => LinkInv'
<1> SUFFICES ASSUME LinkInv, ReadBody PROVE LinkInv'
  OBVIOUS
<1> USE UnitsAssumption, WordsAssumption, Counts, WireTyped DEF Busy, Between
<1>0. PICK n \in Chunk : read' = read + n
  BY DEF ReadBody
<1>00. n \in Nat /\ 1 <= n /\ read + n <= wire[conn].sent
  BY <1>0, ChunkFacts DEF LinkInv, ReadBody, Taken
<1>1. LinkTypeOK'
  BY <1>0, <1>00 DEF LinkInv, LinkTypeOK, InStep, Sent, Taken, Answered, NoMore, ReadBody, boardVars
<1>2. InStep'
  BY <1>0, <1>00 DEF LinkInv, LinkTypeOK, InStep, Sent, Taken, Answered, NoMore, ReadBody, boardVars
<1>3. Sent'
  BY <1>0, <1>00 DEF LinkInv, LinkTypeOK, InStep, Sent, Taken, Answered, NoMore, ReadBody, boardVars
<1>4. Taken'
  BY <1>0, <1>00 DEF LinkInv, LinkTypeOK, InStep, Sent, Taken, Answered, NoMore, ReadBody, boardVars
<1>5. Answered'
  BY <1>0, <1>00 DEF LinkInv, LinkTypeOK, InStep, Sent, Taken, Answered, NoMore, ReadBody, boardVars
<1> QED
  BY <1>1, <1>2, <1>3, <1>4, <1>5 DEF LinkInv

LEMMA BodyCutKeeps == LinkInv /\ BodyCut => LinkInv'
<1> SUFFICES ASSUME LinkInv, BodyCut PROVE LinkInv'
  OBVIOUS
<1> USE UnitsAssumption, WordsAssumption, Counts, WireTyped DEF Busy, Between
<1>1. LinkTypeOK'
  BY DEF LinkInv, LinkTypeOK, InStep, Sent, Taken, Answered, NoMore, BodyCut, boardVars
<1>2. InStep'
  BY DEF LinkInv, LinkTypeOK, InStep, Sent, Taken, Answered, NoMore, BodyCut, boardVars
<1>3. Sent'
  BY DEF LinkInv, LinkTypeOK, InStep, Sent, Taken, Answered, NoMore, BodyCut, boardVars
<1>4. Taken'
  BY DEF LinkInv, LinkTypeOK, InStep, Sent, Taken, Answered, NoMore, BodyCut, boardVars
<1>5. Answered'
  BY DEF LinkInv, LinkTypeOK, InStep, Sent, Taken, Answered, NoMore, BodyCut, boardVars
<1> QED
  BY <1>1, <1>2, <1>3, <1>4, <1>5 DEF LinkInv

LEMMA RecogniseKeeps == LinkInv /\ Recognise => LinkInv'
<1> SUFFICES ASSUME LinkInv, Recognise PROVE LinkInv'
  OBVIOUS
<1> USE UnitsAssumption, WordsAssumption, Counts, WireTyped DEF Busy, Between
<1>1. LinkTypeOK'
  BY DEF LinkInv, LinkTypeOK, InStep, Sent, Taken, Answered, NoMore, Recognise, boardVars
<1>2. InStep'
  BY DEF LinkInv, LinkTypeOK, InStep, Sent, Taken, Answered, NoMore, Recognise, boardVars
<1>3. Sent'
  BY DEF LinkInv, LinkTypeOK, InStep, Sent, Taken, Answered, NoMore, Recognise, boardVars
<1>4. Taken'
  BY DEF LinkInv, LinkTypeOK, InStep, Sent, Taken, Answered, NoMore, Recognise, boardVars
<1>5. Answered'
  BY DEF LinkInv, LinkTypeOK, InStep, Sent, Taken, Answered, NoMore, Recognise, boardVars
<1> QED
  BY <1>1, <1>2, <1>3, <1>4, <1>5 DEF LinkInv

LEMMA AnswerKeeps == LinkInv /\ Answer => LinkInv'
<1> SUFFICES ASSUME LinkInv, Answer PROVE LinkInv'
  OBVIOUS
<1> USE UnitsAssumption, WordsAssumption, Counts, WireTyped DEF Busy, Between
<1>1. LinkTypeOK'
  BY DEF LinkInv, LinkTypeOK, InStep, Sent, Taken, Answered, NoMore, Answer, boardVars
<1>2. InStep'
  BY DEF LinkInv, LinkTypeOK, InStep, Sent, Taken, Answered, NoMore, Answer, boardVars
<1>3. Sent'
  BY DEF LinkInv, LinkTypeOK, InStep, Sent, Taken, Answered, NoMore, Answer, boardVars
<1>4. Taken'
  BY DEF LinkInv, LinkTypeOK, InStep, Sent, Taken, Answered, NoMore, Answer, boardVars
<1>5. Answered'
  BY DEF LinkInv, LinkTypeOK, InStep, Sent, Taken, Answered, NoMore, Answer, boardVars
<1> QED
  BY <1>1, <1>2, <1>3, <1>4, <1>5 DEF LinkInv

LEMMA CloseKeeps == LinkInv /\ Close => LinkInv'
<1> SUFFICES ASSUME LinkInv, Close PROVE LinkInv'
  OBVIOUS
<1> USE UnitsAssumption, WordsAssumption, Counts, WireTyped DEF Busy, Between
<1>1. LinkTypeOK'
  BY DEF LinkInv, LinkTypeOK, InStep, Sent, Taken, Answered, NoMore, Close, boardVars
<1>2. InStep'
  BY DEF LinkInv, LinkTypeOK, InStep, Sent, Taken, Answered, NoMore, Close, boardVars
<1>3. Sent'
  BY DEF LinkInv, LinkTypeOK, InStep, Sent, Taken, Answered, NoMore, Close, boardVars
<1>4. Taken'
  BY DEF LinkInv, LinkTypeOK, InStep, Sent, Taken, Answered, NoMore, Close, boardVars
<1>5. Answered'
  BY DEF LinkInv, LinkTypeOK, InStep, Sent, Taken, Answered, NoMore, Close, boardVars
<1> QED
  BY <1>1, <1>2, <1>3, <1>4, <1>5 DEF LinkInv

LEMMA LinkInitially == LinkInit => LinkInv
<1> SUFFICES ASSUME LinkInit PROVE LinkInv
  OBVIOUS
<1> USE UnitsAssumption, WordsAssumption, LinkBoundsAssumption DEF LinkInit, Busy, Between
<1>0. Unused \in [size : Nat, sent : Nat, lost : BOOLEAN] /\ 0 \in Calls /\ 0 \in 0..MaxFds
  BY DEF Calls, Unused
<1>1. LinkTypeOK
  <2>1. wire \in [Calls -> [size : Nat, sent : Nat, lost : BOOLEAN]]
    BY <1>0
  <2> QED
    BY <1>0, <2>1 DEF LinkTypeOK
<1>2. InStep /\ Taken
  BY DEF InStep, Taken, Calls, Unused
<1>3. Sent
  BY DEF Sent, Calls, Unused
<1>4. Answered
  BY DEF Answered
<1> QED
  BY <1>1, <1>2, <1>3, <1>4 DEF LinkInv

LEMMA LinkStutters == LinkInv /\ UNCHANGED linkVars => LinkInv'
BY DEF LinkInv, LinkTypeOK, InStep, Sent, Taken, NoMore, Answered, linkVars, boardVars, serverVars

(* The places of the two programs stay in step. *)
THEOREM LinkInvariance == LinkSpec => []LinkInv
<1>1. LinkInv /\ [LinkNext]_linkVars => LinkInv'
  BY ConnectKeeps, RecordKeeps, NoRecordingKeeps, SendChunkKeeps, SendLostKeeps,
     OverSendingKeeps, ReceiveKeeps, ReturnKeeps, LoseKeeps, RebootKeeps, AcceptKeeps,
     AcceptFailsKeeps, ReadHeaderKeeps, ReadBodyKeeps, BodyCutKeeps, RecogniseKeeps,
     AnswerKeeps, CloseKeeps, LinkStutters
  DEF LinkNext, Board, Server, Environment
<1> QED
  BY <1>1, LinkInitially, PTL DEF LinkSpec

(* Every variable keeps its type: in particular the server never sends the    *)
(* contents of a result file that does not exist, and never has more files    *)
(* open than it may.                                                          *)
THEOREM LinkTypeCorrect == LinkSpec => []LinkTypeOK
<1>1. LinkInv => LinkTypeOK
  BY DEF LinkInv
<1> QED
  BY <1>1, LinkInvariance, PTL

(* However the stream is cut, and wherever the connection is lost, the        *)
(* recogniser runs on at least as many units as the board announced or on all *)
(* that arrived, and on no more than was sent (voiceServer.c:78-88).          *)
THEOREM SavedSafe == LinkSpec => []SavedAsMany
<1>1. LinkInv => SavedAsMany
  BY DEF LinkInv, Taken, SavedAsMany
<1> QED
  BY <1>1, LinkInvariance, PTL

LEMMA AnswerFacts == LinkInv => AnswerIsResult
BY DEF LinkInv, InStep, Between, Answered, AnswerIsResult

(* A whole header and a connection that lasts are enough for the answer to    *)
(* arrive and to be the result file's (voiceServer.c:95-103,                  *)
(* socketCommunication.c:82).                                                 *)
THEOREM AnswerSafe == LinkSpec => []AnswerIsResult
BY AnswerFacts, LinkInvariance, PTL

LEMMA BlockFacts ==
  ASSUME NEW n \in Nat, NEW b \in Nat \ {0}
  PROVE  b * (n \div b) \in Nat /\ b * (n \div b) <= n /\ n < b * (n \div b) + b
BY Z3

LEMMA WavFacts == LinkInv => WavIsPrefix
<1>1. ASSUME LinkInv, spc = "recognise", head = Header
      PROVE  OnDisk <= StreamEnd /\ StreamEnd < OnDisk + Block
  <2>1. read - head \in Nat /\ read \in Nat /\ head \in Nat /\ Block \in Nat \ {0}
    BY <1>1, UnitsAssumption DEF LinkInv, Taken, LinkTypeOK
  <2>2. read = StreamEnd
    <3>1. /\ wire[conn].size \in Nat /\ wire[conn].sent \in Nat /\ wire[conn].lost \in BOOLEAN
          /\ wire[conn].sent <= Header + wire[conn].size /\ read <= wire[conn].sent
          /\ wire[conn].size <= read - head \/ NoMore
      BY <1>1, Counts, WireTyped DEF LinkInv, Sent, Taken
    <3> QED
      BY <1>1, <2>1, <3>1 DEF NoMore, StreamEnd
  <2> DEFINE whole == Block * ((read - head) \div Block)
  <2>3. whole \in Nat /\ whole <= read - head /\ read - head < whole + Block
    BY <2>1, BlockFacts
  <2>4. OnDisk = head + whole
    BY DEF OnDisk
  <2> HIDE DEF whole
  <2> QED
    BY <2>1, <2>2, <2>3, <2>4
<1> QED
  BY <1>1 DEF WavIsPrefix

(* Then the disk also holds the recording from its beginning, less than one   *)
(* block short of its end or of where the connection was lost                 *)
(* (voiceServer.c:74-94).                                                     *)
THEOREM WavSafe == LinkSpec => []WavIsPrefix
BY WavFacts, LinkInvariance, PTL
=============================================================================
