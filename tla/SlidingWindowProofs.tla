------------------------ MODULE SlidingWindowProofs ------------------------
(***************************************************************************)
(* What the sliding window of SlidingWindow guarantees for every COUNT,    *)
(* every window and every behaviour of the link: the arithmetic of the     *)
(* three loops of the sender against the frames that are on the link.      *)
(***************************************************************************)
EXTENDS SlidingWindow, TLAPS

\* The second loop's number of turns: none when the window exceeds COUNT.
Turns == IF WINDOW <= COUNT THEN COUNT - WINDOW ELSE 0

\* Where the sender is in its three loops tells how many frames it has sent
\* and how many replies it has taken.
Loops ==
  /\ sPc = "fill"  => i <= WINDOW /\ sent = i /\ got = 0
  /\ sPc = "await" => i <= Turns /\ sent = WINDOW + i /\ got = i
  /\ sPc = "send"  => i < Turns /\ sent = WINDOW + i /\ got = i + 1
  /\ sPc = "drain" => i <= WINDOW /\ sent = WINDOW + Turns /\ got = Turns + i
  /\ sPc = "done"  => sent = WINDOW + Turns /\ got = WINDOW + Turns

\* A frame sent is on the link, has arrived or is lost.
Accounted == sent = Len(data) + Len(arrived) + lost

IInv == TypeOK /\ Loops /\ Accounted

USE WindowAssumption DEF WindowAssumption

-----------------------------------------------------------------------------
\* Sending a frame, arrived or lost, keeps the account and moves nothing else.
LEMMA SendAccounted ==
  ASSUME TypeOK, Accounted, SendMessage
  PROVE  /\ sent' = sent + 1 /\ Accounted'
         /\ data' \in Seq(Frame) /\ lost' \in Nat
         /\ arrived' = arrived /\ alive' = alive /\ peerUp' = peerUp
         /\ replies' = replies /\ relayed' = relayed
<1>1. CASE \E intact \in {b \in BOOLEAN : b \/ Corrupting} :
               Link!Accept([id |-> sent + 1, intact |-> intact])
  <2>1. PICK intact \in BOOLEAN : Link!Accept([id |-> sent + 1, intact |-> intact])
    BY <1>1
  <2>2. [id |-> sent + 1, intact |-> intact] \in Frame
    BY DEF TypeOK, Frame
  <2>3. data' = Append(data, [id |-> sent + 1, intact |-> intact])
    BY <2>1 DEF Link!Accept
  <2>4. data' \in Seq(Frame) /\ Len(data') = Len(data) + 1
    BY <2>2, <2>3 DEF TypeOK
  <2>5. CASE alive /\ UNCHANGED lost
    BY <2>1, <2>4, <2>5 DEF SendMessage, Link!Accept, Accounted, TypeOK
  <2>6. CASE lost' = lost + 1 /\ UNCHANGED linkVars
    BY <2>6, <2>4 DEF TypeOK, linkVars
  <2> QED BY <2>5, <2>6 DEF SendMessage
<1>2. CASE lost' = lost + 1 /\ UNCHANGED linkVars
  BY <1>2 DEF SendMessage, Accounted, TypeOK, linkVars
<1> QED BY <1>1, <1>2 DEF SendMessage

LEMMA InitOK == Init => IInv
BY DEF Init, IInv, TypeOK, Loops, Accounted, Frame, Turns

\* The sender's loops.
LEMMA SenderOK == ASSUME IInv, Sender PROVE IInv'
<1> USE DEF IInv
<1>1. CASE Fill
  <2>1. CASE i < WINDOW
    <3>1. SendMessage /\ i' = i + 1 /\ sPc' = sPc /\ got' = got /\ sPc = "fill"
      BY <1>1, <2>1 DEF Fill
    <3>2. TypeOK' /\ Accounted'
      BY <3>1, SendAccounted DEF TypeOK
    <3>3. Loops'
      BY <3>1, <2>1, SendAccounted DEF Loops, TypeOK
    <3> QED BY <3>2, <3>3
  <2>2. CASE ~(i < WINDOW)
    BY <1>1, <2>2 DEF Fill, linkVars, TypeOK, Loops, Accounted, Turns
  <2> QED BY <2>1, <2>2
<1>2. CASE Await
  <2>1. /\ UNCHANGED <<sent, data, arrived, peerUp, alive, lost, replies, relayed>>
        /\ got' = got \/ (got < relayed /\ got' = got + 1)
        /\ i' = i \/ i' = 0 \/ i' = i + 1
        /\ sPc' \in {"await", "send", "drain", "done"}
    BY <1>2 DEF Await, ReceiveMessage, linkVars
  <2>2. TypeOK'
    BY <2>1 DEF TypeOK
  <2>3. Accounted'
    BY <2>1 DEF Accounted
  <2>4. i \in Nat /\ got \in Nat /\ sent \in Nat
    BY DEF TypeOK
  <2>5. Loops'
    BY <1>2, <2>4 DEF Await, ReceiveMessage, Loops, Turns
  <2> QED BY <2>2, <2>3, <2>5
<1>3. CASE Slide
  <2>1. SendMessage /\ i' = i + 1 /\ sPc' = "await" /\ got' = got /\ sPc = "send"
    BY <1>3 DEF Slide
  <2>2. TypeOK' /\ Accounted'
    BY <2>1, SendAccounted DEF TypeOK
  <2>3. Loops'
    BY <2>1, SendAccounted DEF Loops, TypeOK, Turns
  <2> QED BY <2>2, <2>3
<1>4. CASE Drain
  <2>1. /\ UNCHANGED <<sent, data, arrived, peerUp, alive, lost, replies, relayed>>
        /\ got' = got \/ (got < relayed /\ got' = got + 1)
        /\ i' = i \/ i' = 0 \/ i' = i + 1
        /\ sPc' \in {"drain", "done"}
    BY <1>4 DEF Drain, ReceiveMessage, linkVars
  <2>2. TypeOK'
    BY <2>1 DEF TypeOK
  <2>3. Accounted'
    BY <2>1 DEF Accounted
  <2>4. i \in Nat /\ got \in Nat /\ sent \in Nat
    BY DEF TypeOK
  <2>5. Loops'
    BY <1>4, <2>4 DEF Drain, ReceiveMessage, Loops, Turns
  <2> QED BY <2>2, <2>3, <2>5
<1> QED BY <1>1, <1>2, <1>3, <1>4 DEF Sender

\* The receiver's turn: the new reply is the one to the frame it looked at.
LEMMA AnswerOK == ASSUME IInv, Answer PROVE IInv'
<1> USE DEF IInv
<1> DEFINE n == Len(replies) + 1
           r == IF arrived[n].frame.intact THEN ACK ELSE NACK
<1>1. replies \in Seq({ACK, NACK}) /\ r \in {ACK, NACK} /\ n \in 1 .. Len(arrived)
  BY DEF TypeOK, Answer
<1>2. replies' = Append(replies, r)
  BY DEF Answer
<1>3. /\ replies' \in Seq({ACK, NACK}) /\ Len(replies') = n
      /\ \A k \in 1 .. n : replies'[k] = IF k = n THEN r ELSE replies[k]
  <2> HIDE DEF r
  <2> QED BY <1>1, <1>2
<1>4. UNCHANGED <<sPc, i, got, sent, data, arrived, peerUp, alive, lost, relayed>>
  BY DEF Answer, linkVars
<1>5. TypeOK'
  BY <1>1, <1>3, <1>4 DEF TypeOK
<1>6. Loops' /\ Accounted'
  BY <1>4 DEF Loops, Accounted
<1> QED BY <1>5, <1>6

\* The emulator's delivery: what arrives is added after what was answered.
LEMMA DeliverOK == ASSUME IInv, Deliver PROVE IInv'
<1> USE DEF IInv
<1> DEFINE new == [frame |-> Head(data), reached |-> peerUp]
<1>1. /\ data # <<>> /\ data \in Seq(Frame) /\ Head(data) \in Frame
      /\ arrived \in Seq([frame : Frame, reached : BOOLEAN])
      /\ new \in [frame : Frame, reached : BOOLEAN]
  BY DEF Deliver, Link!Exit, TypeOK
<1>2. data' = Tail(data) /\ arrived' = Append(arrived, new)
  BY DEF Deliver, Link!Exit
<1>3. /\ data' \in Seq(Frame) /\ Len(data') = Len(data) - 1
      /\ arrived' \in Seq([frame : Frame, reached : BOOLEAN])
      /\ Len(arrived') = Len(arrived) + 1
      /\ \A k \in 1 .. Len(arrived) : arrived'[k] = arrived[k]
  <2> HIDE DEF new
  <2> QED BY <1>1, <1>2
<1>4. UNCHANGED <<sPc, i, got, sent, peerUp, alive, lost, replies, relayed>>
  BY DEF Deliver, Link!Exit
<1>5. TypeOK'
  BY <1>3, <1>4 DEF TypeOK
<1>6. Loops' /\ Accounted'
  BY <1>1, <1>3, <1>4 DEF Loops, Accounted, TypeOK
<1> QED BY <1>5, <1>6

\* Every step keeps the invariant.
LEMMA NextOK == ASSUME IInv, [Next]_vars PROVE IInv'
<1>1. CASE Sender
  BY <1>1, SenderOK
<1>2. CASE Answer
  BY <1>2, AnswerOK
<1>3. CASE Deliver
  BY <1>3, DeliverOK
<1>4. CASE Relay
  BY <1>4 DEF IInv, Relay, linkVars, TypeOK, Loops, Accounted
<1>5. CASE Abort
  BY <1>5 DEF IInv, Abort, Link!Stop, TypeOK, Loops, Accounted
<1>6. CASE UNCHANGED vars
  BY <1>6 DEF IInv, vars, TypeOK, Loops, Accounted
<1> QED BY <1>1, <1>2, <1>3, <1>4, <1>5, <1>6 DEF Next

\* The frames and replies the two programs account for (send.c, recv.c).
THEOREM InvariantCorrect == Spec => []IInv
<1>1. Init => IInv
  BY InitOK
<1>2. IInv /\ [Next]_vars => IInv'
  BY NextOK
<1> QED BY <1>1, <1>2, PTL DEF Spec

-----------------------------------------------------------------------------
\* The variables keep their domains and no reply overtakes what it answers.
THEOREM TypeCorrect == Spec => []TypeOK
<1>1. IInv => TypeOK
  BY DEF IInv
<1> QED BY <1>1, InvariantCorrect, PTL

\* send.c 49-121: never more than a window of frames without a reply, for
\* every window, COUNT and behaviour of the link.
THEOREM WindowNeverExceeded == Spec => []WindowBound
<1>1. IInv => WindowBound
  BY DEF IInv, Loops, TypeOK, WindowBound, Turns
<1> QED BY <1>1, InvariantCorrect, PTL

\* send.c 105-121, recv.c 22-70: when the sender ends, with a window that fits
\* in COUNT, the receiver has answered every frame and ended too.
THEOREM SenderEndsLast == Spec => []DoneMeansAnswered
<1>1. IInv => DoneMeansAnswered
  BY DEF IInv, Loops, Accounted, TypeOK, DoneMeansAnswered, ReceiverDone, Turns
<1> QED BY <1>1, InvariantCorrect, PTL

\* One lost frame, for whatever reason, and neither program ever ends.
THEOREM LossBlocksBoth == Spec => []LossIsFatal
<1>1. IInv => LossIsFatal
  BY DEF IInv, Loops, Accounted, TypeOK, LossIsFatal, ReceiverDone, Turns
<1> QED BY <1>1, InvariantCorrect, PTL
=============================================================================
