--------------------------- MODULE SlidingWindow ---------------------------
(***************************************************************************)
(* The sliding window of lab 4 (3lab/send.c, 3lab/recv.c) over the link    *)
(* emulator: the sender puts a window of frames on the link, then sends    *)
(* one more for every reply it takes, then takes the last replies.  It     *)
(* looks at no reply's type and has no timeout.  The receiver answers the  *)
(* first COUNT frames, ACK when the parity agrees and NACK when it does    *)
(* not.                                                                    *)
(*                                                                         *)
(* The direction of the frames is the emulator's abstract specification,   *)
(* LinkChannel, with both hosts registered (run_experiment.sh starts the   *)
(* receiver a second before the sender).  A frame carries its number and   *)
(* whether all its bits are those sent; the parity byte detects every      *)
(* damage the emulator does, a single flipped bit.                         *)
(***************************************************************************)
EXTENDS Integers, Sequences

CONSTANTS
  COUNT,       \* lib.h
  WINDOW,      \* window_size, from the BDP given on the command line
  Lossy,       \* the emulator may drop a frame, for loss or a full buffer
  Corrupting,  \* it may flip a bit
  MayStop      \* it may abort

ASSUME WindowAssumption ==
  /\ COUNT \in Nat /\ WINDOW \in Nat
  /\ Lossy \in BOOLEAN /\ Corrupting \in BOOLEAN /\ MayStop \in BOOLEAN

ACK == 1
NACK == 2

VARIABLES
  sPc, i, got,            \* sender: which loop, its counter, replies taken
  sent,                   \* frames sent
  data, arrived, peerUp, alive,  \* the emulator, towards the receiver
  lost,                   \* frames it dropped or that came when it was gone
  replies,                \* the types of the replies sent, oldest first
  relayed                 \* how many of them have reached the sender

linkVars == <<data, arrived, peerUp, alive>>
vars == <<sPc, i, got, sent, data, arrived, peerUp, alive, lost, replies, relayed>>

Frame == [id : Nat, intact : BOOLEAN]

Link == INSTANCE LinkChannel WITH wire <- data, out <- arrived

Init ==
  /\ sPc = "fill" /\ i = 0 /\ got = 0 /\ sent = 0
  /\ data = <<>> /\ arrived = <<>> /\ peerUp = TRUE /\ alive = TRUE
  /\ lost = 0
  /\ replies = <<>> /\ relayed = 0

-----------------------------------------------------------------------------
(* The sender.                                                             *)

\* send_message: the emulator takes the frame, or it is lost.
SendMessage ==
  /\ sent' = sent + 1
  /\ \/ /\ alive
        /\ \E intact \in {b \in BOOLEAN : b \/ Corrupting} :
             Link!Accept([id |-> sent + 1, intact |-> intact])
        /\ UNCHANGED lost
     \/ /\ ~alive \/ Lossy
        /\ lost' = lost + 1
        /\ UNCHANGED linkVars
  /\ UNCHANGED <<replies, relayed>>

\* recv_message: blocks until a reply is there; what it says is ignored.
ReceiveMessage ==
  /\ got < relayed
  /\ got' = got + 1
  /\ UNCHANGED <<sent, linkVars, lost, replies, relayed>>

\* Mistake: the window is filled one frame too far.
FillPastWindow ==
  /\ sPc = "fill"
  /\ IF i <= WINDOW
       THEN SendMessage /\ i' = i + 1 /\ UNCHANGED <<sPc, got>>
       ELSE sPc' = "await" /\ i' = 0
            /\ UNCHANGED <<got, sent, linkVars, lost, replies, relayed>>

\* The first loop: a window of frames.
Fill ==
  /\ sPc = "fill"
  /\ IF i < WINDOW
       THEN SendMessage /\ i' = i + 1 /\ UNCHANGED <<sPc, got>>
       ELSE sPc' = "await" /\ i' = 0
            /\ UNCHANGED <<got, sent, linkVars, lost, replies, relayed>>

\* The second loop: a reply in, ...
Await ==
  /\ sPc = "await"
  /\ IF i < COUNT - WINDOW
       THEN ReceiveMessage /\ sPc' = "send" /\ UNCHANGED i
       ELSE sPc' = "drain" /\ i' = 0
            /\ UNCHANGED <<got, sent, linkVars, lost, replies, relayed>>

\* ... a frame out.
Slide ==
  /\ sPc = "send"
  /\ SendMessage /\ sPc' = "await" /\ i' = i + 1
  /\ UNCHANGED got

\* Mistake: the last replies are not waited for.
DrainNothing ==
  /\ sPc = "drain" /\ sPc' = "done"
  /\ UNCHANGED <<i, got, sent, linkVars, lost, replies, relayed>>

\* The third loop: the replies to the last window.
Drain ==
  /\ sPc = "drain"
  /\ IF i < WINDOW
       THEN ReceiveMessage /\ i' = i + 1 /\ UNCHANGED sPc
       ELSE sPc' = "done"
            /\ UNCHANGED <<i, got, sent, linkVars, lost, replies, relayed>>

Sender == Fill \/ Await \/ Slide \/ Drain

-----------------------------------------------------------------------------
(* The receiver and the emulator.                                          *)

\* Mistake: a frame whose parity is wrong is not answered.
AnswerOnlyIntact ==
  /\ Len(replies) < COUNT /\ Len(replies) < Len(arrived)
  /\ LET f == arrived[Len(replies) + 1].frame
     IN f.intact /\ replies' = Append(replies, ACK)
  /\ UNCHANGED <<sPc, i, got, sent, linkVars, lost, relayed>>

\* One turn of the receiver's loop, which ends after COUNT of them.
Answer ==
  /\ Len(replies) < COUNT /\ Len(replies) < Len(arrived)
  /\ LET f == arrived[Len(replies) + 1].frame
     IN replies' = Append(replies, IF f.intact THEN ACK ELSE NACK)
  /\ UNCHANGED <<sPc, i, got, sent, linkVars, lost, relayed>>

ReceiverDone == Len(replies) = COUNT

\* The emulator sends a frame to the receiver.
Deliver ==
  /\ alive /\ Link!Exit
  /\ UNCHANGED <<sPc, i, got, sent, lost, replies, relayed>>

\* Its other direction neither loses nor delays.
Relay ==
  /\ alive /\ relayed < Len(replies)
  /\ relayed' = relayed + 1
  /\ UNCHANGED <<sPc, i, got, sent, linkVars, lost, replies>>

\* Its assertion fails; what it holds is gone with it.
Abort ==
  /\ MayStop /\ alive /\ Link!Stop
  /\ UNCHANGED <<sPc, i, got, sent, lost, replies, relayed>>

Next == Sender \/ Answer \/ Deliver \/ Relay \/ Abort

Spec == Init /\ [][Next]_vars

\* The processes run, and the emulator empties itself as LinkChannel says.
FairSpec == /\ Spec
            /\ WF_vars(Sender) /\ WF_vars(Answer)
            /\ WF_vars(Deliver) /\ WF_vars(Relay)

-----------------------------------------------------------------------------
(* Properties.                                                             *)

\* Types, the order of the replies' journey, and that the k-th frame to leave
\* the emulator has not overtaken another.
TypeOK ==
  /\ sPc \in {"fill", "await", "send", "drain", "done"}
  /\ i \in Nat /\ got \in Nat /\ sent \in Nat /\ lost \in Nat /\ relayed \in Nat
  /\ data \in Seq(Frame) /\ arrived \in Seq([frame : Frame, reached : BOOLEAN])
  /\ peerUp = TRUE /\ alive \in BOOLEAN
  /\ replies \in Seq({ACK, NACK})
  /\ got <= relayed /\ relayed <= Len(replies) /\ Len(replies) <= Len(arrived)

\* Never more than a window of frames without a reply: what the three loops
\* of the sender are for.
WindowBound == sent - got <= WINDOW

\* The sender ends only when the receiver has answered COUNT frames, though it
\* never looks at what a reply says (needs a window that fits in COUNT).
DoneMeansAnswered ==
  sPc = "done" /\ WINDOW <= COUNT => sent = COUNT /\ ReceiverDone

\* A single lost frame is fatal: there is no timeout, so neither program ends.
LossIsFatal ==
  lost > 0 /\ WINDOW <= COUNT => sPc # "done" /\ ~ReceiverDone

\* With a window of 1 to COUNT frames both programs end, unless a frame is lost
\* or the emulator stops.
BothFinish ==
  WINDOW \in 1 .. COUNT => <>[]((sPc = "done" /\ ReceiverDone) \/ lost > 0 \/ ~alive)
=============================================================================
