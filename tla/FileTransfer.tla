---------------------------- MODULE FileTransfer ----------------------------
(***************************************************************************)
(* The file transfer of lab 3 (lab3/send.c, lab3/recv.c; lab 2's programs  *)
(* differ in where the name lies) over the link emulator: stop and wait.   *)
(* The first message carries the name and, in its len field, the size of   *)
(* the file; every other one a chunk.  Each waits for an empty answer.     *)
(* Nothing is checked and nothing is sent again.                           *)
(*                                                                         *)
(* The payload of a chunk is its offset and length in the file, and        *)
(* whether the emulator damaged it; both hosts are registered at the start *)
(* (run_experiment.sh), as in SlidingWindow.                               *)
(***************************************************************************)
EXTENDS Integers, Sequences

CONSTANTS
  MaxFileSize, \* bound: the largest file
  CHUNK,       \* sizeof(p.payload)
  Lossy, Corrupting, MayStop   \* what the emulator may do, see SlidingWindow

ASSUME TransferAssumption ==
  /\ MaxFileSize \in Nat /\ CHUNK \in Nat \ {0}
  /\ Lossy \in BOOLEAN /\ Corrupting \in BOOLEAN /\ MayStop \in BOOLEAN

VARIABLES
  size,                           \* st_size of the file sent
  sPc, offset,                    \* sender, and its position in the file
  data, arrived, peerUp, alive,   \* the emulator, towards the receiver
  lost,                           \* messages it dropped or that found it gone
  rPc, taken, file_size, check,   \* receiver: messages taken, and its locals
  written,                        \* the chunks appended to the output
  answers, relayed, got           \* answers sent, relayed, taken by the sender

linkVars == <<data, arrived, peerUp, alive, lost>>
sendVars == <<size, sPc, offset, got>>
recvVars == <<rPc, taken, file_size, check, written, answers>>
vars == <<linkVars, sendVars, recvVars, relayed>>

\* One message: the name has offset -1.
Msg == [off : Nat \cup {-1}, len : Nat, intact : BOOLEAN]

Link == INSTANCE LinkChannel WITH Frame <- Msg, wire <- data, out <- arrived

Smaller(a, b) == IF a < b THEN a ELSE b

\* What read returns at an offset: 0 at the end of the file.
ReadAt(off) == Smaller(CHUNK, size - off)

Init ==
  /\ size \in 0 .. MaxFileSize
  /\ sPc = "name" /\ offset = 0 /\ got = 0
  /\ data = <<>> /\ arrived = <<>> /\ peerUp = TRUE /\ alive = TRUE /\ lost = 0
  /\ rPc = "name" /\ taken = 0 /\ file_size = 0 /\ check = 0 /\ written = <<>>
  /\ answers = 0 /\ relayed = 0

-----------------------------------------------------------------------------
(* The sender.                                                             *)

\* send_message: taken by the emulator or lost.  To damage a message the
\* emulator divides by its len: a damaged message of length 0 kills it.
SendMessage(off, len) ==
  \/ /\ alive
     /\ Link!Accept([off |-> off, len |-> len, intact |-> TRUE])
     /\ UNCHANGED lost
  \/ /\ alive /\ Corrupting /\ len > 0
     /\ Link!Accept([off |-> off, len |-> len, intact |-> FALSE])
     /\ UNCHANGED lost
  \/ /\ alive /\ Corrupting /\ len = 0
     /\ Link!Stop
     /\ lost' = lost + 1
  \/ /\ ~alive \/ Lossy
     /\ lost' = lost + 1
     /\ UNCHANGED <<data, arrived, peerUp, alive>>

SendName ==
  /\ sPc = "name" /\ sPc' = "wait"
  /\ SendMessage(-1, size)
  /\ UNCHANGED <<size, offset, got, recvVars, relayed>>

\* Mistake: a read that reaches the end of the file is taken for the end.
StopsAtLastChunk ==
  /\ sPc = "read"
  /\ IF offset + ReadAt(offset) >= size
       THEN sPc' = "done" /\ UNCHANGED <<offset, linkVars>>
       ELSE /\ sPc' = "wait"
            /\ SendMessage(offset, ReadAt(offset))
            /\ offset' = offset + ReadAt(offset)
  /\ UNCHANGED <<size, got, recvVars, relayed>>

\* The head of the loop: read, then send; end of file ends the program.
ReadAndSend ==
  /\ sPc = "read"
  /\ IF ReadAt(offset) = 0
       THEN sPc' = "done" /\ UNCHANGED <<offset, linkVars>>
       ELSE /\ sPc' = "wait"
            /\ SendMessage(offset, ReadAt(offset))
            /\ offset' = offset + ReadAt(offset)
  /\ UNCHANGED <<size, got, recvVars, relayed>>

\* Mistake: the sender does not wait for the answer.
TakeNothing ==
  /\ sPc = "wait" /\ sPc' = "read" /\ got' = got + 1
  /\ UNCHANGED <<size, offset, linkVars, recvVars, relayed>>

\* Any message that comes is taken for the answer.
TakeAnswer ==
  /\ sPc = "wait" /\ got < relayed
  /\ got' = got + 1 /\ sPc' = "read"
  /\ UNCHANGED <<size, offset, linkVars, recvVars, relayed>>

Sender == SendName \/ ReadAndSend \/ TakeAnswer

-----------------------------------------------------------------------------
(* The receiver.                                                           *)

\* recv_message, and the answer that every message gets.
TakeAndAnswer(m) ==
  /\ taken < Len(arrived)
  /\ m = arrived[taken + 1].frame
  /\ taken' = taken + 1
  /\ answers' = answers + 1
  /\ UNCHANGED <<linkVars, sendVars, relayed>>

\* Mistake: the comparison is the wrong way round.
WhileSwapped(done, all) == IF all < done THEN "data" ELSE "done"

\* The test of the loop.
WhileTest(done, all) == IF done < all THEN "data" ELSE "done"

RecvName ==
  /\ rPc = "name"
  /\ \E m \in {arrived[k].frame : k \in DOMAIN arrived} :
       TakeAndAnswer(m) /\ file_size' = m.len
  /\ rPc' = WhileTest(check, file_size')
  /\ UNCHANGED <<check, written>>

\* What is in r after a turn: the message received, made the answer to it.
Answered(m) == [m EXCEPT !.len = 0]

\* The length that is added to check is that of r after the answer.
RecvChunk ==
  /\ rPc = "data"
  /\ \E m \in {arrived[k].frame : k \in DOMAIN arrived} :
       /\ TakeAndAnswer(m)
       /\ written' = Append(written, m)
       /\ check' = check + Answered(m).len
  /\ rPc' = WhileTest(check', file_size)
  /\ UNCHANGED file_size

Receiver == RecvName \/ RecvChunk

-----------------------------------------------------------------------------
(* The emulator.                                                           *)

Deliver ==
  /\ alive /\ Link!Exit
  /\ UNCHANGED <<lost, sendVars, recvVars, relayed>>

Relay ==
  /\ alive /\ relayed < answers
  /\ relayed' = relayed + 1
  /\ UNCHANGED <<linkVars, sendVars, recvVars>>

Abort ==
  /\ MayStop /\ alive /\ Link!Stop
  /\ UNCHANGED <<lost, sendVars, recvVars, relayed>>

Next == Sender \/ Receiver \/ Deliver \/ Relay \/ Abort

Spec == Init /\ [][Next]_vars

FairSpec == /\ Spec
            /\ WF_vars(Sender) /\ WF_vars(Receiver)
            /\ WF_vars(Deliver) /\ WF_vars(Relay)

-----------------------------------------------------------------------------
(* Properties.                                                             *)

TypeOK ==
  /\ sPc \in {"name", "wait", "read", "done"} /\ rPc \in {"name", "data", "done"}
  /\ size \in 0 .. MaxFileSize /\ offset \in 0 .. size
  /\ data \in Seq(Msg) /\ arrived \in Seq([frame : Msg, reached : BOOLEAN])
  /\ peerUp = TRUE /\ alive \in BOOLEAN /\ lost \in Nat
  /\ taken \in 0 .. Len(arrived) /\ file_size \in {0, size} /\ check \in Nat
  /\ written \in Seq(Msg)
  /\ got \in Nat /\ relayed \in Nat /\ answers \in Nat
  /\ got <= relayed /\ relayed <= answers /\ answers <= Len(arrived)

\* Stop and wait: one message or answer is on its way, and only while the
\* sender waits for it; a loss leaves nothing on its way for ever.
OneOutstanding ==
  LET out == Len(data) + (Len(arrived) - taken)
      back == answers - got
  IN /\ out >= 0 /\ back >= 0
     /\ out + back + lost = IF sPc = "wait" THEN 1 ELSE 0

\* The output is the chunks of the file in order, each once and none missing,
\* up to the one that is on its way; when the sender ends, all of them.
WrittenInOrder ==
  /\ \A k \in DOMAIN written :
       /\ written[k].off = (k - 1) * CHUNK
       /\ written[k].len = ReadAt((k - 1) * CHUNK)
  /\ written # <<>> => (Len(written) - 1) * CHUNK < size
  /\ sPc = "done" => Len(written) * CHUNK >= size

\* The sender of a file that is not empty ends, unless a message is lost or the
\* emulator stops.
SenderFinishes == size > 0 => <>(sPc = "done" \/ lost > 0 \/ ~alive)
=============================================================================
