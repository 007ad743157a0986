----------------------------- MODULE VoiceLink -----------------------------
(* The voice page's connection: sendFileAndGetString on the board, the loop   *)
(* of voiceServer.c on the host, and asr_sample, which the server runs on the *)
(* recording it saved and which leaves a text file behind.  One call is one   *)
(* connection: a header of Header units with the size of the recording, then  *)
(* the recording, then one answer.  A unit is a part of the stream that TCP   *)
(* may deliver on its own; both programs use buffers of Header units (2048    *)
(* bytes, more than one segment of 1460).  A place in the stream identifies   *)
(* its contents: 1..Header is the header, of which all but the first unit is  *)
(* padding, and the recording follows.  A connection may be lost while the    *)
(* board uses it: then every send fails, and every recv does once it has      *)
(* returned what had arrived.                                                 *)
EXTENDS Integers

CONSTANTS
  Header,      \* units of the header and of each buffer
  Sizes,       \* lengths a recording may have
  Block,       \* units stdio collects before it writes to the disk
  Words,       \* what the recogniser may hear
  FirstResult, \* what result.txt may hold when the server starts, or "absent"
  MaxFds,      \* files the server may have open at a time
  MaxCalls     \* bound: calls the board makes

ASSUME UnitsAssumption == Header \in Nat \ {0} /\ Block \in Nat \ {0} /\ Sizes \subseteq Nat
ASSUME WordsAssumption == {"absent", "nothing"} \cap Words = {} /\ FirstResult \subseteq Words \cup {"absent"}
ASSUME LinkBoundsAssumption == MaxFds \in Nat \ {0} /\ MaxCalls \in Nat

VARIABLES
  cpc,       \* board: "connect", "record", "send", "wait", "done" or "killed"
  call,      \* board: number of calls begun; the connection they belong to
  wire,      \* the connection of each call: size, the file_size its header announces;
             \* sent, the units that recv can still return or has returned; lost
  buf,       \* board: command[2048] of proc_voice, which survives from call to call
  spc,       \* server: its place in the loop
  conn,      \* server: the call it serves
  head,      \* server: units the first recv took
  read,      \* server: units all recvs took
  leaked,    \* server: file_p's never closed
  answer,    \* the answer on its way to the board, or "nothing"
  closed,    \* the server has closed the connection
  result,    \* result.txt
  heard      \* history: what the recogniser heard in the call served, or "nothing"

boardVars  == <<cpc, call, wire, buf>>
serverVars == <<spc, conn, head, read, leaked, answer, closed, result, heard>>
linkVars   == <<boardVars, serverVars>>

Calls == 0..MaxCalls   \* 0: none yet
Unused == [size |-> 0, sent |-> 0, lost |-> FALSE]

LinkTypeOK ==
  /\ cpc \in {"connect", "record", "send", "wait", "done", "killed"}
  /\ call \in Calls /\ wire \in [Calls -> [size : Nat, sent : Nat, lost : BOOLEAN]]
  /\ buf \in Words \cup {"garbage"}
  /\ spc \in {"accept", "spin", "header", "body", "recognise", "answer", "close", "crashed"}
  /\ conn \in Calls /\ head \in Nat /\ read \in Nat /\ leaked \in 0..MaxFds
  /\ answer \in Words \cup {"nothing"}
  /\ closed \in BOOLEAN
  /\ result \in Words \cup {"absent"}
  /\ heard \in Words \cup {"nothing"}

(* A buffer that was never written does not compare equal to any command. *)
LinkInit ==
  /\ cpc = "connect" /\ call = 0 /\ wire = [c \in Calls |-> Unused] /\ buf = "garbage"
  /\ spc = "accept" /\ conn = 0 /\ head = 0 /\ read = 0 /\ leaked = 0
  /\ answer = "nothing" /\ closed = FALSE
  /\ result \in FirstResult
  /\ heard = "nothing"

Least(m, n) == IF m <= n THEN m ELSE n

------------------------------------------------------------------------------
(* The board. *)

(* The connection of the board's call from now on. *)
Wired(size, sent, lost) ==
  wire' = [wire EXCEPT ![call] = [size |-> size, sent |-> sent, lost |-> lost]]

(* The listening socket's backlog takes the connection even while the server  *)
(* is busy with an earlier one.  A dead server is retried for ever.           *)
Connect ==
  /\ cpc = "connect" /\ call < MaxCalls
  /\ spc # "crashed"
  /\ cpc' = "record" /\ call' = call + 1
  /\ UNCHANGED <<wire, buf, serverVars>>

(* A send on a connection that is lost, or whose server is gone, fails, which *)
(* nobody looks at, or raises SIGPIPE once the reset has arrived.             *)
Sending(next) == \/ cpc' = next
                 \/ (spc = "crashed" \/ wire[call].lost) /\ cpc' = "killed"

(* alsa_record writes a recording, and the header is sent. *)
Record ==
  /\ cpc = "record"
  /\ \E n \in Sizes : Wired(n, IF wire[call].lost THEN 0 ELSE Header, wire[call].lost)
  /\ Sending("send")
  /\ UNCHANGED <<call, buf, serverVars>>

(* With no recording to open, fseek and ftell use a null stream: the board is *)
(* gone, and its connection with it.                                          *)
NoRecording ==
  /\ cpc = "record"
  /\ cpc' = "killed" /\ Wired(0, 0, TRUE)
  /\ UNCHANGED <<call, buf, serverVars>>

SendChunk ==
  LET w == wire[call]
  IN  /\ cpc = "send" /\ ~w.lost /\ w.sent < Header + w.size
      /\ Wired(w.size, Least(w.sent + Header, Header + w.size), FALSE)
      /\ Sending("send")
      /\ UNCHANGED <<call, buf, serverVars>>

(* What is left to send on a lost connection. *)
SendLost ==
  /\ cpc = "send" /\ wire[call].lost
  /\ Sending("wait")
  /\ UNCHANGED <<call, wire, buf, serverVars>>

OverSending ==
  /\ cpc = "send" /\ wire[call].sent = Header + wire[call].size
  /\ cpc' = "wait"
  /\ UNCHANGED <<call, wire, buf, serverVars>>

(* recv returns with the answer, or without one and the buffer as it was.     *)
Receive ==
  /\ cpc = "wait"
  /\ \/ conn = call /\ answer # "nothing" /\ buf' = answer
     \/ conn = call /\ answer = "nothing" /\ closed /\ UNCHANGED buf
     \/ (spc = "crashed" \/ wire[call].lost) /\ UNCHANGED buf
  /\ cpc' = "done"
  /\ UNCHANGED <<call, wire, serverVars>>

(* close, and the user speaks again (module ArmTouch has what the page does   *)
(* with the answer).                                                          *)
Return == /\ cpc = "done"
          /\ cpc' = "connect"
          /\ UNCHANGED <<call, wire, buf, serverVars>>

Board == \/ Connect \/ Record \/ NoRecording \/ SendChunk \/ SendLost
         \/ OverSending \/ Receive \/ Return

------------------------------------------------------------------------------
(* The world around the two. *)

(* The connection breaks, and the server gets no more than had arrived. *)
Lose ==
  LET w == wire[call]
  IN  /\ cpc \in {"record", "send", "wait"} /\ ~w.lost
      /\ \E n \in (IF conn = call THEN read ELSE 0)..w.sent : Wired(w.size, n, TRUE)
      /\ UNCHANGED <<cpc, call, buf, serverVars>>

(* The user starts a program that was killed again. *)
Reboot ==
  /\ cpc = "killed"
  /\ cpc' = "connect" /\ buf' = "garbage"
  /\ UNCHANGED <<call, wire, serverVars>>

Environment == Lose \/ Reboot

------------------------------------------------------------------------------
(* The server. *)

(* The connection before is closed on both sides, and forgotten.              *)
Accept ==
  /\ spc = "accept" /\ conn < call
  /\ spc' = "header" /\ conn' = conn + 1
  /\ wire' = [wire EXCEPT ![conn] = Unused]
  /\ head' = 0 /\ read' = 0 /\ answer' = "nothing" /\ closed' = FALSE /\ heard' = "nothing"
  /\ UNCHANGED <<leaked, result, cpc, call, buf>>

(* "while (con_fd == -1);" (voiceServer.c:51) never ends. *)
AcceptFails ==
  /\ spc = "accept" /\ conn < call
  /\ spc' = "spin"
  /\ UNCHANGED <<conn, head, read, leaked, answer, closed, result, heard, boardVars>>

(* What one recv may take; it waits until there is something, unless the      *)
(* connection is lost: then it returns 0 or -1 when there is no more.         *)
Chunk == 1..Least(Header, wire[conn].sent - read)
NoMore == wire[conn].lost /\ read = wire[conn].sent

(* recv, sscanf of the size, which stays 0 when nothing came, and             *)
(* fopen(recvFile, "w+").  There is a descriptor for it, since the result     *)
(* file of the call before needed one more (Answer).                          *)
ReadHeader ==
  /\ spc = "header"
  /\ \/ \E n \in Chunk : head' = n /\ read' = n
     \/ NoMore /\ head' = 0 /\ read' = 0
  /\ leaked' = leaked + 1
  /\ spc' = "body"
  /\ UNCHANGED <<conn, answer, closed, result, heard, boardVars>>

(* The loop's exit on recv(...) <= 0: the recogniser runs on what there is. *)
BodyCut ==
  /\ spc = "body" /\ NoMore
  /\ spc' = "recognise"
  /\ UNCHANGED <<conn, head, read, leaked, answer, closed, result, heard, boardVars>>

(* Faulty variants of ReadBody: one recv instead of the loop, and a test that *)
(* the last unit does not satisfy.                                            *)
ReadBodyOnce ==
  /\ spc = "body"
  /\ \E n \in Chunk : read' = read + n
  /\ spc' = "recognise"
  /\ UNCHANGED <<conn, head, leaked, answer, closed, result, heard, boardVars>>
ReadBodyStrict ==
  /\ spc = "body"
  /\ \E n \in Chunk : read' = read + n
  /\ spc' = IF read' - head > wire[conn].size THEN "recognise" ELSE "body"
  /\ UNCHANGED <<conn, head, leaked, answer, closed, result, heard, boardVars>>

(* One turn of the receiving loop: recv, fwrite, and the test that ends it.   *)
ReadBody ==
  /\ spc = "body"
  /\ \E n \in Chunk : read' = read + n
  /\ spc' = IF read' - head >= wire[conn].size THEN "recognise" ELSE "body"
  /\ UNCHANGED <<conn, head, leaked, answer, closed, result, heard, boardVars>>

(* recvFile is not closed: what stdio still holds is not on the disk.  The    *)
(* stream places on the disk are head + 1 .. OnDisk.                          *)
OnDisk == head + Block * ((read - head) \div Block)

(* asr_sample: with something recognised it rewrites result.txt, otherwise it *)
(* leaves the file of an earlier call.  Nothing is heard in an empty file.    *)
Recognise ==
  /\ spc = "recognise"
  /\ \/ \E w \in Words : /\ OnDisk > head
                         /\ result' = w
                         /\ heard' = w
     \/ /\ UNCHANGED result
        /\ heard' = "nothing"
  /\ spc' = "answer"
  /\ UNCHANGED <<conn, head, read, leaked, answer, closed, boardVars>>

(* fopen, fscanf and send, with no test whether there is a file, or a         *)
(* descriptor left for it.  On a lost connection the answer goes nowhere, and *)
(* SIGPIPE may end the server.                                                *)
Answer ==
  /\ spc = "answer"
  /\ \/ /\ result = "absent" \/ leaked = MaxFds \/ wire[conn].lost
        /\ spc' = "crashed" /\ UNCHANGED answer
     \/ /\ result # "absent" /\ leaked < MaxFds
        /\ spc' = "close"
        /\ answer' = IF wire[conn].lost THEN "nothing" ELSE result
  /\ UNCHANGED <<conn, head, read, leaked, closed, result, heard, boardVars>>

(* Closing a connection with unread data resets it, and the reset may destroy *)
(* the answer.                                                                *)
Close ==
  /\ spc = "close"
  /\ closed' = TRUE
  /\ \/ UNCHANGED answer
     \/ read < Header + wire[conn].size /\ answer' = "nothing"
  /\ spc' = "accept"
  /\ UNCHANGED <<conn, head, read, leaked, result, heard, boardVars>>

Server == \/ Accept \/ AcceptFails \/ ReadHeader \/ ReadBody \/ BodyCut
          \/ Recognise \/ Answer \/ Close

LinkNext == Board \/ Server \/ Environment

LinkSpec == LinkInit /\ [][LinkNext]_linkVars /\ WF_linkVars(Board) /\ WF_linkVars(Server)
------------------------------------------------------------------------------
(* The server runs the recogniser only when it has saved at least as much as  *)
(* the board announced, or else everything that a lost connection delivered,  *)
(* and never more than was sent (voiceServer.c:78-88).                        *)
SavedAsMany ==
  spc = "recognise"
    => /\ wire[conn].size <= read - head \/ NoMore
       /\ read <= wire[conn].sent

(* Every call comes back to the page, with an answer or without one: the two  *)
(* sides never wait for each other, whatever connections are lost, unless     *)
(* accept has failed.                                                         *)
CallReturns == cpc = "wait" ~> cpc # "wait" \/ spc = "spin"

(* If the first recv takes the whole header, the recogniser hears the         *)
(* recording from its beginning and without a gap: less than one stdio block  *)
(* short of its end, or, when the connection was lost, of what the server     *)
(* could still get of it (voiceServer.c:74-94).                               *)
StreamEnd == IF wire[conn].lost THEN wire[conn].sent ELSE Header + wire[conn].size
WavIsPrefix ==
  spc = "recognise" /\ head = Header
    => OnDisk <= StreamEnd /\ StreamEnd < OnDisk + Block

(* If then the connection is not lost and the server lives, nothing destroys  *)
(* the answer: what the page acts on is what the result file says, however    *)
(* the two sides' steps interleave and whatever became of earlier calls.      *)
AnswerIsResult ==
  cpc = "done" /\ spc # "crashed" /\ ~wire[call].lost /\ head = Header => buf = result

------------------------------------------------------------------------------
(* What the texts say and the code does not do.                               *)

(* voiceServer.c:72, "begin to receive the contents of the file", after a     *)
(* single recv for the header: when that returns less than the header, also   *)
(* with nothing lost, the rest of its padding is saved as recording.          *)
SavedIsRecording == spc = "recognise" /\ ~wire[conn].lost => head = Header

(* Report, section 3.2.2: "if the command recorded is not one of the four,    *)
(* the user records again."  With nothing recognised the server sends the     *)
(* result of an earlier call, since the removal of the file is commented out  *)
(* (voiceServer.c:101), and the page obeys it, with nothing lost.             *)
NothingHeardNothingDone ==
  cpc = "done" /\ conn = call /\ ~wire[call].lost /\ heard = "nothing"
    => buf \notin Words \ {"other"}
=============================================================================
