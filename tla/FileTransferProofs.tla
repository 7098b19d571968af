------------------------- MODULE FileTransferProofs -------------------------
(***************************************************************************)
(* What the file transfer of FileTransfer guarantees for every file, every *)
(* size of a chunk and every behaviour of the link: stop and wait, and the *)
(* order of the output.                                                    *)
(***************************************************************************)
EXTENDS FileTransfer, TLAPS

\* A message has been sent that no answer has been given to, lost or not.
Pending == sPc = "wait" /\ answers = got

\* The place in the file where the k-th chunk, counted from 0, begins.
Begin(k) == k * CHUNK

\* The answers under way, and what the receiver has taken in each of its
\* states; what it adds to check is 0.
Counts ==
  /\ sPc = "name" => taken = 0
  /\ sPc \in {"read", "done"} => got > 0
  /\ answers = taken
  /\ check = 0
  /\ taken = 0 => rPc = "name" /\ written = <<>>
  /\ taken > 0 => /\ Len(written) = taken - 1
                  /\ file_size = size /\ rPc = WhileTest(0, size)

\* How far the sender has come: as far as the output, or a chunk farther.
Position ==
  /\ taken = 0 => offset = 0
  /\ taken > 0 /\ Pending =>
       /\ Begin(Len(written)) < size
       /\ offset = Smaller(Begin(Len(written)) + CHUNK, size)
  /\ taken > 0 /\ ~Pending => offset = Smaller(Begin(Len(written)), size)
  /\ sPc = "done" => offset = size

\* The message the receiver is going to take.
Awaited(m) ==
  IF taken = 0 THEN m.len = size
  ELSE m.off = Begin(Len(written)) /\ m.len = ReadAt(Begin(Len(written)))

\* What is on its way is what the receiver waits for.
OnTheWay ==
  /\ \A k \in DOMAIN data : Awaited(data[k])
  /\ \A k \in DOMAIN arrived : k > taken => Awaited(arrived[k].frame)

\* What has been written are the chunks from the first.
Output ==
  /\ \A k \in DOMAIN written :
       /\ written[k].off = Begin(k - 1)
       /\ written[k].len = ReadAt(Begin(k - 1))
  /\ written # <<>> => Begin(Len(written) - 1) < size

IInv == TypeOK /\ OneOutstanding /\ Counts /\ Position /\ OnTheWay /\ Output

USE TransferAssumption DEF TransferAssumption

-----------------------------------------------------------------------------
(* Arithmetic of chunks.                                                   *)

\* The chunks lie one behind the other.
LEMMA Chunks ==
  /\ Begin(0) = 0
  /\ \A k \in Nat : Begin(k) \in Nat /\ Begin(k + 1) = Begin(k) + CHUNK
BY DEF Begin

\* A read gives nothing at the end of the file and only there, and takes the
\* sender to the next chunk.
LEMMA Reads ==
  ASSUME size \in Nat, NEW off \in 0 .. size
  PROVE  /\ ReadAt(off) \in Nat
         /\ ReadAt(off) = 0 <=> off = size
         /\ off + ReadAt(off) = Smaller(off + CHUNK, size)
         /\ off + ReadAt(off) \in 0 .. size
BY DEF ReadAt, Smaller

-----------------------------------------------------------------------------
(* The steps.                                                              *)

LEMMA InitOK == Init => IInv
BY Chunks DEF Init, IInv, TypeOK, OneOutstanding, Counts, Position, Pending,
     OnTheWay, Output, Msg

\* A message that is sent joins the others on the link, or it is lost.
LEMMA SendResult ==
  ASSUME TypeOK, NEW off \in Nat \cup {-1}, NEW len \in Nat, SendMessage(off, len)
  PROVE  /\ arrived' = arrived /\ peerUp' = peerUp /\ alive' \in BOOLEAN
         /\ data' \in Seq(Msg)
         /\ \/ /\ lost' = lost /\ Len(data') = Len(data) + 1
               /\ \E m \in Msg : m.off = off /\ m.len = len /\ data' = Append(data, m)
            \/ lost' = lost + 1 /\ data' = data
<1>1. ASSUME NEW intact \in BOOLEAN,
             Link!Accept([off |-> off, len |-> len, intact |-> intact]), UNCHANGED lost
      PROVE  /\ arrived' = arrived /\ peerUp' = peerUp /\ alive' = alive
             /\ data' \in Seq(Msg) /\ lost' = lost /\ Len(data') = Len(data) + 1
             /\ \E m \in Msg : m.off = off /\ m.len = len /\ data' = Append(data, m)
  <2> DEFINE m == [off |-> off, len |-> len, intact |-> intact]
  <2>1. m \in Msg /\ m.off = off /\ m.len = len
    BY DEF Msg
  <2>2. /\ data' = Append(data, m) /\ data \in Seq(Msg)
        /\ arrived' = arrived /\ peerUp' = peerUp /\ alive' = alive
    BY <1>1 DEF Link!Accept, TypeOK
  <2> QED BY <1>1, <2>1, <2>2
<1>2. CASE /\ alive /\ Corrupting /\ len = 0
           /\ Link!Stop
           /\ lost' = lost + 1
  BY <1>2 DEF Link!Stop, TypeOK
<1>3. CASE /\ ~alive \/ Lossy
           /\ lost' = lost + 1
           /\ UNCHANGED <<data, arrived, peerUp, alive>>
  BY <1>3 DEF TypeOK
<1> QED BY <1>1, <1>2, <1>3 DEF SendMessage, TypeOK

\* While the sender does not wait nothing is on its way.
LEMMA NothingOut ==
  ASSUME IInv, sPc # "wait"
  PROVE  data = <<>> /\ Len(arrived) = taken /\ answers = got /\ lost = 0 /\ ~Pending
BY DEF IInv, TypeOK, OneOutstanding, Pending

\* One message where there was none.
LEMMA OneSent ==
  ASSUME lost' \in Nat, Len(data') \in Nat, Len(data') + lost' = 1,
         Len(arrived) = taken, taken \in Nat, answers = got, got \in Nat,
         UNCHANGED <<arrived, taken, answers, got>>, sPc' = "wait"
  PROVE  OneOutstanding'
BY DEF OneOutstanding

\* A message sent when nothing is on its way and that the receiver waits for.
LEMMA SendOK ==
  ASSUME IInv, sPc # "wait", sPc' = "wait",
         NEW off \in Nat \cup {-1}, NEW len \in Nat, SendMessage(off, len),
         UNCHANGED <<size, got, recvVars, relayed>>, offset' \in 0 .. size,
         IF taken = 0 THEN len = size
         ELSE off = Begin(Len(written)) /\ len = ReadAt(Begin(Len(written)))
  PROVE  TypeOK' /\ OneOutstanding' /\ OnTheWay' /\ Output' /\ Pending'
<1>1. data = <<>> /\ Len(arrived) = taken /\ answers = got /\ lost = 0
  BY NothingOut
<1>2. TypeOK
  BY DEF IInv
<1>3. /\ arrived' = arrived /\ peerUp' = peerUp /\ alive' \in BOOLEAN
      /\ data' \in Seq(Msg)
      /\ \/ /\ lost' = lost /\ Len(data') = Len(data) + 1
            /\ \E m \in Msg : m.off = off /\ m.len = len /\ data' = Append(data, m)
         \/ lost' = lost + 1 /\ data' = data
  BY <1>2, SendResult
<1>4. UNCHANGED <<size, got, relayed, rPc, taken, file_size, check, written, answers>>
  BY DEF recvVars
<1>5. TypeOK'
  BY <1>2, <1>3, <1>4 DEF TypeOK
<1>6. OneOutstanding' /\ Pending'
  <2>1. lost' \in Nat /\ Len(data') \in Nat /\ Len(data') + lost' = 1
    <3>1. Len(data) = 0 /\ lost = 0 /\ Len(data') \in Nat
      BY <1>1, <1>2, <1>3
    <3>2. CASE lost' = lost /\ Len(data') = Len(data) + 1
      BY <3>1, <3>2
    <3>3. CASE lost' = lost + 1 /\ data' = data
      BY <3>1, <3>3
    <3> QED BY <1>3, <3>2, <3>3
  <2>2. /\ UNCHANGED <<arrived, taken, answers, got>>
        /\ Len(arrived) = taken /\ taken \in Nat /\ answers = got /\ got \in Nat
    BY <1>1, <1>2, <1>3, <1>4 DEF TypeOK
  <2> QED BY <2>1, <2>2, OneSent DEF Pending
<1>7. OnTheWay'
  <2>1. ASSUME NEW k \in DOMAIN data' PROVE Awaited(data[k])'
    <3>1. PICK m \in Msg : m.off = off /\ m.len = len /\ data' = Append(data, m)
      BY <1>1, <1>3, <2>1
    <3>2. data'[k] = m
      BY <1>1, <2>1, <3>1
    <3>3. Awaited(m)
      BY <3>1 DEF Awaited
    <3> QED BY <1>4, <3>2, <3>3 DEF Awaited, ReadAt
  <2>2. ASSUME NEW k \in DOMAIN arrived', k > taken' PROVE FALSE
    BY <1>1, <1>2, <1>3, <1>4, <2>2 DEF TypeOK
  <2> QED BY <2>1, <2>2 DEF OnTheWay
<1>8. Output'
  BY <1>4 DEF IInv, Output, ReadAt
<1> QED BY <1>5, <1>6, <1>7, <1>8

LEMMA SendNameOK == ASSUME IInv, SendName PROVE IInv'
<1>1. taken = 0 /\ sPc = "name" /\ sPc' = "wait"
  BY DEF IInv, Counts, SendName
<1>2. size \in Nat /\ offset \in 0 .. size
  BY DEF IInv, TypeOK
<1>3. /\ SendMessage(-1, size)
      /\ UNCHANGED <<size, offset, got, recvVars, relayed>>
  BY DEF SendName
<1>4. TypeOK' /\ OneOutstanding' /\ OnTheWay' /\ Output' /\ Pending'
  BY <1>1, <1>2, <1>3, SendOK
<1>5. Counts' /\ Position'
  BY <1>1, <1>3 DEF IInv, Counts, Position, recvVars
<1> QED BY <1>4, <1>5 DEF IInv

LEMMA ReadAndSendOK == ASSUME IInv, ReadAndSend PROVE IInv'
<1> DEFINE pos == Begin(Len(written))
<1>1. TypeOK /\ sPc = "read" /\ taken > 0 /\ taken \in Nat
  BY DEF IInv, TypeOK, Counts, ReadAndSend
<1>2. data = <<>> /\ Len(arrived) = taken /\ answers = got /\ lost = 0 /\ ~Pending
  BY <1>1, NothingOut
<1>3. offset = Smaller(pos, size) /\ pos \in Nat /\ size \in Nat /\ offset \in 0 .. size
  BY <1>1, <1>2, Chunks DEF IInv, TypeOK, Position
<1>4. UNCHANGED <<size, got, rPc, taken, file_size, check, written, answers, relayed>>
  BY DEF ReadAndSend, recvVars
<1>5. /\ ReadAt(offset) \in Nat
      /\ ReadAt(offset) = 0 <=> offset = size
      /\ offset + ReadAt(offset) = Smaller(offset + CHUNK, size)
      /\ offset + ReadAt(offset) \in 0 .. size
  BY <1>3, Reads
<1>6. CASE ReadAt(offset) = 0
  <2>1. sPc' = "done" /\ UNCHANGED <<offset, data, arrived, peerUp, alive, lost>>
    BY <1>6 DEF ReadAndSend, linkVars
  <2>2. TypeOK' /\ Output' /\ OnTheWay'
    BY <2>1, <1>4 DEF IInv, TypeOK, Output, OnTheWay, Awaited, ReadAt
  <2>3. OneOutstanding' /\ Counts'
    BY <2>1, <1>1, <1>4 DEF IInv, OneOutstanding, Counts
  <2>4. Position'
    BY <2>1, <1>1, <1>2, <1>4, <1>5, <1>6 DEF IInv, Position, Pending
  <2> QED BY <2>2, <2>3, <2>4 DEF IInv
<1>7. CASE ReadAt(offset) # 0
  <2>1. /\ sPc' = "wait" /\ offset' = offset + ReadAt(offset)
        /\ SendMessage(offset, ReadAt(offset))
    BY <1>7 DEF ReadAndSend
  <2>2. pos < size /\ offset = pos
    BY <1>3, <1>5, <1>7 DEF Smaller
  <2>3. TypeOK' /\ OneOutstanding' /\ OnTheWay' /\ Output' /\ Pending'
    <3>1. UNCHANGED <<size, got, recvVars, relayed>>
      BY <1>4 DEF recvVars
    <3>2. offset \in Nat \cup {-1} /\ offset' \in 0 .. size /\ sPc # "wait" /\ taken # 0
      BY <1>1, <1>3, <1>5, <2>1
    <3>3. IF taken = 0 THEN ReadAt(offset) = size
          ELSE offset = Begin(Len(written)) /\ ReadAt(offset) = ReadAt(Begin(Len(written)))
      BY <2>2, <3>2
    <3>4. ReadAt(offset) \in Nat
      BY <1>5
    <3> HIDE DEF pos
    <3> QED BY <2>1, <3>1, <3>2, <3>3, <3>4, SendOK
  <2>4. Counts'
    BY <2>1, <1>4 DEF IInv, Counts
  <2>5. Position'
    BY <1>1, <1>4, <1>5, <2>1, <2>2, <2>3 DEF Position
  <2> QED BY <2>3, <2>4, <2>5 DEF IInv
<1> QED BY <1>6, <1>7

LEMMA TakeAnswerOK == ASSUME IInv, TakeAnswer PROVE IInv'
<1>1. /\ sPc = "wait" /\ sPc' = "read" /\ got' = got + 1 /\ got < relayed
      /\ UNCHANGED <<size, offset, data, arrived, peerUp, alive, lost, rPc, taken,
                     file_size, check, written, answers, relayed>>
  BY DEF TakeAnswer, linkVars, recvVars
<1>2. TypeOK' /\ Output' /\ OnTheWay'
  BY <1>1 DEF IInv, TypeOK, Output, OnTheWay, Awaited, ReadAt
<1>3. OneOutstanding' /\ Counts'
  BY <1>1 DEF IInv, TypeOK, OneOutstanding, Counts
<1>4. Position'
  BY <1>1 DEF IInv, TypeOK, Position, Pending
<1> QED BY <1>2, <1>3, <1>4 DEF IInv

\* A message the receiver takes leaves nothing but the answer under way.
LEMMA TakeResult ==
  ASSUME IInv, NEW m, TakeAndAnswer(m)
  PROVE  /\ sPc = "wait" /\ Pending /\ m \in Msg /\ Awaited(m)
         /\ taken' = taken + 1 /\ answers' = answers + 1
         /\ taken + 1 = Len(arrived) /\ data = <<>> /\ lost = 0
         /\ UNCHANGED <<size, sPc, offset, got, data, arrived, peerUp, alive, lost, relayed>>
<1>1. /\ taken < Len(arrived) /\ m = arrived[taken + 1].frame
      /\ taken' = taken + 1 /\ answers' = answers + 1
      /\ UNCHANGED <<size, sPc, offset, got, data, arrived, peerUp, alive, lost, relayed>>
  BY DEF TakeAndAnswer, linkVars, sendVars
<1>2. taken + 1 \in DOMAIN arrived /\ taken + 1 > taken
  BY <1>1 DEF IInv, TypeOK
<1>3. m \in Msg /\ Awaited(m)
  <2> DEFINE Arrival == [frame : Msg, reached : BOOLEAN]
  <2>1. arrived[taken + 1] \in Arrival
    <3>1. /\ arrived \in Seq(Arrival) /\ taken \in Nat
          /\ taken + 1 \in 1 .. Len(arrived)
      BY <1>1 DEF IInv, TypeOK
    <3> HIDE DEF Arrival
    <3> QED BY <3>1
  <2>2. Awaited(arrived[taken + 1].frame)
    BY <1>2 DEF IInv, OnTheWay
  <2> QED BY <1>1, <2>1, <2>2
<1>4. sPc = "wait" /\ Pending /\ taken + 1 = Len(arrived) /\ data = <<>> /\ lost = 0
  BY <1>1 DEF IInv, TypeOK, OneOutstanding, Pending
<1> QED BY <1>1, <1>3, <1>4

LEMMA RecvNameOK == ASSUME IInv, RecvName PROVE IInv'
<1>1. /\ rPc = "name" /\ rPc' = WhileTest(check, file_size') /\ UNCHANGED <<check, written>>
  BY DEF RecvName
<1>2. PICK m : TakeAndAnswer(m) /\ file_size' = m.len
  BY DEF RecvName
<1>3. /\ sPc = "wait" /\ Pending /\ m \in Msg /\ Awaited(m)
      /\ taken' = taken + 1 /\ answers' = answers + 1
      /\ taken + 1 = Len(arrived) /\ data = <<>> /\ lost = 0
      /\ UNCHANGED <<size, sPc, offset, got, data, arrived, peerUp, alive, lost, relayed>>
  BY <1>2, TakeResult
<1>4. taken = 0 /\ written = <<>> /\ check = 0 /\ offset = 0
  BY <1>1 DEF IInv, TypeOK, Counts, Position, WhileTest
<1>5. file_size' = size
  BY <1>2, <1>3, <1>4 DEF Awaited
<1>6. TypeOK'
  BY <1>1, <1>3, <1>4, <1>5 DEF IInv, TypeOK, WhileTest, Counts
<1>7. OneOutstanding' /\ Counts' /\ Output'
  <2>1. OneOutstanding'
    BY <1>3 DEF IInv, TypeOK, OneOutstanding, Pending
  <2>2. Counts'
    BY <1>1, <1>3, <1>4, <1>5 DEF IInv, TypeOK, Counts
  <2>3. Output'
    BY <1>1, <1>4 DEF Output
  <2> QED BY <2>1, <2>2, <2>3
<1>8. OnTheWay'
  BY <1>3, <1>4 DEF IInv, TypeOK, OnTheWay
<1>9. Position'
  BY <1>1, <1>3, <1>4, Chunks DEF IInv, TypeOK, Position, Pending, Smaller
<1> QED BY <1>6, <1>7, <1>8, <1>9 DEF IInv

LEMMA RecvChunkOK == ASSUME IInv, RecvChunk PROVE IInv'
<1> DEFINE W == Len(written)
<1>1. PICK m : /\ TakeAndAnswer(m) /\ written' = Append(written, m)
               /\ check' = check + Answered(m).len
  BY DEF RecvChunk
<1>2. rPc = "data" /\ rPc' = WhileTest(check', file_size) /\ file_size' = file_size
  BY DEF RecvChunk
<1>3. /\ sPc = "wait" /\ Pending /\ m \in Msg /\ Awaited(m)
      /\ taken' = taken + 1 /\ answers' = answers + 1
      /\ taken + 1 = Len(arrived) /\ data = <<>> /\ lost = 0
      /\ UNCHANGED <<size, sPc, offset, got, data, arrived, peerUp, alive, lost, relayed>>
  BY <1>1, TakeResult
<1>4. /\ taken > 0 /\ taken \in Nat /\ check' = 0 /\ W \in Nat /\ W = taken - 1
      /\ file_size = size /\ size \in Nat
  <2>1. Answered(m).len = 0
    BY <1>3 DEF Answered, Msg
  <2> QED BY <1>1, <1>2, <2>1 DEF IInv, TypeOK, Counts
<1>5. /\ written' \in Seq(Msg) /\ Len(written') = W + 1
      /\ \A k \in 1 .. W + 1 : written'[k] = IF k = W + 1 THEN m ELSE written[k]
  BY <1>1, <1>3 DEF IInv, TypeOK
<1>6. m.off = Begin(W) /\ m.len = ReadAt(Begin(W))
  BY <1>3, <1>4 DEF Awaited
<1>7. /\ Begin(W) \in Nat /\ Begin(W + 1) = Begin(W) + CHUNK
      /\ Begin(W) < size /\ offset = Smaller(Begin(W) + CHUNK, size)
  BY <1>3, <1>4, Chunks DEF IInv, Position
<1>8. TypeOK'
  BY <1>2, <1>3, <1>4, <1>5 DEF IInv, TypeOK, WhileTest, Counts
<1>9. OneOutstanding' /\ Counts'
  BY <1>2, <1>3, <1>4, <1>5 DEF IInv, TypeOK, OneOutstanding, Counts, Pending
<1>10. Position'
  BY <1>3, <1>4, <1>5, <1>7 DEF IInv, TypeOK, Position, Pending
<1>11. OnTheWay'
  BY <1>3 DEF IInv, TypeOK, OnTheWay
<1>12. Output'
  <2>1. ASSUME NEW k \in DOMAIN written'
        PROVE  written'[k].off = Begin(k - 1) /\ written'[k].len = ReadAt(Begin(k - 1))
    <3>1. CASE k = W + 1
      BY <3>1, <1>4, <1>5, <1>6
    <3>2. CASE k \in DOMAIN written
      BY <3>2, <1>5 DEF IInv, TypeOK, Output
    <3> QED BY <3>1, <3>2, <1>4, <1>5
  <2>2. Begin(Len(written') - 1) < size
    BY <1>4, <1>5, <1>7
  <2> QED BY <2>1, <2>2, <1>3 DEF Output, ReadAt
<1> QED BY <1>8, <1>9, <1>10, <1>11, <1>12 DEF IInv

LEMMA DeliverOK == ASSUME IInv, Deliver PROVE IInv'
<1> DEFINE new == [frame |-> Head(data), reached |-> peerUp]
<1>1. /\ data # <<>> /\ data' = Tail(data) /\ arrived' = Append(arrived, new)
      /\ UNCHANGED <<peerUp, alive, lost, size, sPc, offset, got, rPc, taken,
                     file_size, check, written, answers, relayed>>
  BY DEF Deliver, Link!Exit, sendVars, recvVars
<1>2. /\ data \in Seq(Msg) /\ Head(data) \in Msg
      /\ arrived \in Seq([frame : Msg, reached : BOOLEAN])
      /\ new \in [frame : Msg, reached : BOOLEAN] /\ new.frame = Head(data)
  BY <1>1 DEF IInv, TypeOK
<1>3. /\ data' \in Seq(Msg) /\ Len(data') = Len(data) - 1
      /\ arrived' \in Seq([frame : Msg, reached : BOOLEAN])
      /\ Len(arrived') = Len(arrived) + 1
      /\ \A k \in 1 .. Len(arrived') :
           arrived'[k] = IF k = Len(arrived') THEN new ELSE arrived[k]
      /\ \A k \in DOMAIN data' : k + 1 \in DOMAIN data /\ data'[k] = data[k + 1]
  <2> HIDE DEF new
  <2> QED BY <1>1, <1>2
<1>4. TypeOK'
  BY <1>1, <1>3 DEF IInv, TypeOK
<1>5. OneOutstanding' /\ Counts' /\ Position' /\ Output'
  BY <1>1, <1>3 DEF IInv, TypeOK, OneOutstanding, Counts, Position, Pending, Output, ReadAt
<1>6. OnTheWay'
  <2>1. ASSUME NEW k \in DOMAIN arrived', k > taken' PROVE Awaited(arrived[k].frame)'
    <3>1. CASE k = Len(arrived')
      <4>1. arrived'[k].frame = data[1] /\ 1 \in DOMAIN data
        BY <1>1, <1>2, <1>3, <3>1
      <4> QED BY <4>1, <1>1 DEF IInv, OnTheWay, Awaited, ReadAt
    <3>2. CASE k \in DOMAIN arrived
      BY <1>1, <1>2, <1>3, <2>1, <3>2 DEF IInv, OnTheWay, Awaited, ReadAt
    <3> QED BY <1>2, <1>3, <3>1, <3>2
  <2>2. ASSUME NEW k \in DOMAIN data' PROVE Awaited(data[k])'
    BY <1>1, <1>3 DEF IInv, OnTheWay, Awaited, ReadAt
  <2> QED BY <2>1, <2>2 DEF OnTheWay
<1> QED BY <1>4, <1>5, <1>6 DEF IInv

LEMMA NextOK == ASSUME IInv, [Next]_vars PROVE IInv'
<1> USE DEF IInv, TypeOK, OneOutstanding, Counts, Position, Pending, OnTheWay,
            Awaited, Output, ReadAt, linkVars, sendVars, recvVars
<1>1. CASE Sender
  BY <1>1, SendNameOK, ReadAndSendOK, TakeAnswerOK DEF Sender
<1>2. CASE Receiver
  BY <1>2, RecvNameOK, RecvChunkOK DEF Receiver
<1>3. CASE Deliver
  BY <1>3, DeliverOK
<1>4. CASE Relay
  BY <1>4 DEF Relay
<1>5. CASE Abort
  BY <1>5 DEF Abort, Link!Stop
<1>6. CASE UNCHANGED vars
  BY <1>6 DEF vars
<1> QED BY <1>1, <1>2, <1>3, <1>4, <1>5, <1>6 DEF Next

-----------------------------------------------------------------------------
\* What sender, receiver and link keep between them (send.c, recv.c of lab 3).
THEOREM InvariantCorrect == Spec => []IInv
<1>1. Init => IInv
  BY InitOK
<1>2. IInv /\ [Next]_vars => IInv'
  BY NextOK
<1> QED BY <1>1, <1>2, PTL DEF Spec

\* The variables keep their domains, the sender never reads past the end of
\* the file, and no answer overtakes the message it answers.
THEOREM TypeCorrect == Spec => []TypeOK
<1>1. IInv => TypeOK
  BY DEF IInv
<1> QED BY <1>1, InvariantCorrect, PTL

\* send.c, recv.c of lab 3: one message or answer is on its way, while the
\* sender waits, and a loss leaves none for ever.
THEOREM StopAndWait == Spec => []OneOutstanding
<1>1. IInv => OneOutstanding
  BY DEF IInv
<1> QED BY <1>1, InvariantCorrect, PTL

\* Whatever is lost or damaged, the output is the chunks of the file from the
\* first, none twice or left out, and all of them when the sender has ended.
THEOREM OutputInOrder == Spec => []WrittenInOrder
<1>1. ASSUME IInv PROVE WrittenInOrder
  <2>1. /\ \A k \in DOMAIN written :
             /\ written[k].off = (k - 1) * CHUNK
             /\ written[k].len = ReadAt((k - 1) * CHUNK)
        /\ written # <<>> => (Len(written) - 1) * CHUNK < size
    BY <1>1 DEF IInv, Output, Begin
  <2>2. ASSUME sPc = "done" PROVE Begin(Len(written)) >= size
    <3>1. offset = size /\ taken > 0 /\ ~Pending
      BY <1>1, <2>2 DEF IInv, TypeOK, Position, Counts, Pending
    <3>2. Begin(Len(written)) \in Nat /\ size \in Nat
      BY <1>1, Chunks DEF IInv, TypeOK
    <3> QED BY <1>1, <3>1, <3>2 DEF IInv, Position, Smaller
  <2> QED BY <2>1, <2>2 DEF WrittenInOrder, Begin
<1> QED BY <1>1, InvariantCorrect, PTL
=============================================================================
