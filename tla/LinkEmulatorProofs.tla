------------------------- MODULE LinkEmulatorProofs -------------------------
(***************************************************************************)
(* What is proved of the link emulator, for every buffer size, delay, loss *)
(* and number of frames, and of the linked list that is its queue, for any *)
(* set of addresses.                                                       *)
(***************************************************************************)
EXTENDS LinkEmulator, LinkQueue, SequenceTheorems, WellFoundedInduction, TLAPS

(* Queues that are read as one sequence: frames that move from the head of *)
(* one queue to the tail of the queue before it.                           *)

\* What is appended to the last of two queues is appended to the whole.
LEMMA ConcatAppend ==
  ASSUME NEW S, NEW s \in Seq(S), NEW t \in Seq(S), NEW e \in S
  PROVE  s \o Append(t, e) = Append(s \o t, e)
<1>1. <<e>> \in Seq(S) /\ s \o t \in Seq(S)
  BY ConcatProperties
<1>2. Append(t, e) = t \o <<e>> /\ Append(s \o t, e) = (s \o t) \o <<e>>
  BY <1>1, AppendIsConcat
<1>3. (s \o t) \o <<e>> = s \o (t \o <<e>>)
  BY <1>1, ConcatAssociative
<1>4. QED
  BY <1>2, <1>3

\* Moving the head of a queue to the end of the queue in front of it leaves
\* the two, read as one, as they were.
LEMMA MoveHead ==
  ASSUME NEW S, NEW s \in Seq(S), NEW t \in Seq(S), t # <<>>
  PROVE  Append(s, Head(t)) \o Tail(t) = s \o t
<1>1. /\ Head(t) \in S /\ Tail(t) \in Seq(S) /\ Len(Tail(t)) = Len(t) - 1
      /\ Len(t) \in Nat /\ Len(s) \in Nat
      /\ \A i \in 1 .. Len(Tail(t)) : Tail(t)[i] = t[i + 1]
      /\ Head(t) = t[1]
  BY HeadTailProperties, LenProperties
<1>2. Append(s, Head(t)) \in Seq(S)
  BY <1>1, AppendProperties
<1>3. Append(s, Head(t)) \o Tail(t) \in Seq(S) /\ s \o t \in Seq(S)
  BY <1>1, <1>2, ConcatProperties
<1>4. Len(Append(s, Head(t)) \o Tail(t)) = Len(s \o t)
  BY <1>1, <1>2, AppendProperties, ConcatProperties
<1>5. ASSUME NEW i \in 1 .. Len(Append(s, Head(t)) \o Tail(t))
      PROVE  (Append(s, Head(t)) \o Tail(t))[i] = (s \o t)[i]
  BY <1>1, <1>2, AppendProperties, ConcatProperties
<1>6. QED
  BY <1>3, <1>4, <1>5, SeqEqual

\* Two queues read as one have the head of the first.
LEMMA HeadTailConcat ==
  ASSUME NEW S, NEW s \in Seq(S), NEW t \in Seq(S), s # <<>>
  PROVE  /\ s \o t # <<>> /\ Head(s \o t) = Head(s)
         /\ Tail(s \o t) = Tail(s) \o t
<1>1. /\ Tail(s) \in Seq(S) /\ Len(Tail(s)) = Len(s) - 1
      /\ \A i \in 1 .. Len(Tail(s)) : Tail(s)[i] = s[i + 1]
      /\ Len(s) \in Nat \ {0} /\ Len(t) \in Nat
  BY HeadTailProperties, EmptySeq, LenProperties
<1>2. /\ s \o t \in Seq(S) /\ Len(s \o t) = Len(s) + Len(t)
      /\ \A i \in 1 .. Len(s) + Len(t) :
           (s \o t)[i] = IF i <= Len(s) THEN s[i] ELSE t[i - Len(s)]
  BY ConcatProperties
<1>3. s \o t # <<>>
  BY <1>1, <1>2
<1>4. /\ Tail(s \o t) \in Seq(S) /\ Len(Tail(s \o t)) = Len(s \o t) - 1
      /\ \A i \in 1 .. Len(Tail(s \o t)) : Tail(s \o t)[i] = (s \o t)[i + 1]
  BY <1>2, <1>3, HeadTailProperties
<1>5. /\ Tail(s) \o t \in Seq(S) /\ Len(Tail(s) \o t) = Len(Tail(s)) + Len(t)
      /\ \A i \in 1 .. Len(Tail(s)) + Len(t) : (Tail(s) \o t)[i] =
            IF i <= Len(Tail(s)) THEN Tail(s)[i] ELSE t[i - Len(Tail(s))]
  BY <1>1, ConcatProperties
<1>6. ASSUME NEW i \in 1 .. Len(Tail(s)) + Len(t)
      PROVE  Tail(s \o t)[i] = (Tail(s) \o t)[i]
  <2>1. Tail(s \o t)[i] = (s \o t)[i + 1]
    BY <1>1, <1>2, <1>4
  <2>2. (s \o t)[i + 1] = IF i + 1 <= Len(s) THEN s[i + 1] ELSE t[i + 1 - Len(s)]
    BY <1>1, <1>2
  <2>3. (Tail(s) \o t)[i] = IF i + 1 <= Len(s) THEN s[i + 1] ELSE t[i + 1 - Len(s)]
    BY <1>1, <1>5
  <2>4. QED
    BY <2>1, <2>2, <2>3
<1>7. Tail(s \o t) = Tail(s) \o t
  BY <1>1, <1>2, <1>4, <1>5, <1>6, SeqEqual
<1>8. Head(s \o t) = Head(s)
  BY <1>1, <1>2, <1>3
<1>9. QED
  BY <1>3, <1>7, <1>8

-----------------------------------------------------------------------------
\* The sleep computed at the bottom of a pass is a natural number.
LEMMA WaitTimeNat ==
  ASSUME NEW idle \in Nat, NEW flight \in Seq(InFlight), crt_time \in Nat
  PROVE  WaitTime(idle, flight) \in Nat
<1>1. WaitTimeIdle(idle) \in Int
  BY DEF WaitTimeIdle
<1>2. WaitTimeSend(flight) \in Int
  <2>1. CASE flight = <<>>
    BY <2>1 DEF WaitTimeSend
  <2>2. CASE flight # <<>>
    <3>1. Head(flight) \in InFlight
      BY <2>2
    <3>2. QED
      BY <2>2, <3>1 DEF WaitTimeSend, InFlight
  <2>3. QED
    BY <2>1, <2>2
<1>3. QED
  BY <1>1, <1>2 DEF WaitTime

\* Where a pass of the scheduler ends; it parks only with nothing in flight
\* that is not yet due.
LEMMA DozeResult ==
  ASSUME NEW idle \in Nat, NEW flight \in Seq(InFlight),
         crt_time \in Nat, now \in Nat, wakeAt \in Nat, Doze(idle, flight)
  PROVE  /\ schPc' \in {"asleep", "park"} /\ wakeAt' \in Nat
         /\ schPc' = "park" /\ flight # <<>> => Head(flight).finish <= crt_time
<1>1. wakeAt' \in Nat /\ schPc' \in {"asleep", "park"}
  BY WaitTimeNat DEF Doze
<1>2. ASSUME schPc' = "park", flight # <<>>
      PROVE  Head(flight).finish <= crt_time
  <2>1. Head(flight) \in InFlight
    BY <1>2
  <2>2. ~(WaitTimeSend(flight) > 0)
    BY <1>2 DEF Doze
  <2>3. QED
    BY <1>2, <2>1, <2>2 DEF WaitTimeSend, InFlight
<1>3. QED
  BY <1>1, <1>2

-----------------------------------------------------------------------------
\* Every variable of the emulator keeps to its domain, and the scheduler knows
\* what it relies on, in every step of every thread and of the clock.
LinkInv == TypeOK /\ SchedulerInv

LEMMA LinkInvInit == Init => LinkInv
<1> SUFFICES ASSUME Init PROVE LinkInv
  OBVIOUS
<1> USE LinkAssumption DEF LinkAssumption, Init, NoMsg
<1>1. /\ now \in Nat /\ crt_time \in Nat /\ idle_time \in Nat /\ wakeAt \in Nat
      /\ spurious \in 0..MaxSpurious /\ received1 \in 0..MaxFrames
      /\ received2 \in 0..MaxReplies
      /\ fwMsg \in {NoMsg} \cup 2..MaxFrames /\ revMsg \in {NoMsg} \cup 2..MaxReplies
  OBVIOUS
<1>2. /\ in_flight \in Seq(InFlight) /\ buffer \in Seq(Frame)
      /\ accepted \in Seq(Frame) /\ sent2 \in Seq(Sent)
      /\ sent1 \in Seq([id : 2..MaxReplies, up : BOOLEAN])
  OBVIOUS
<1>3. /\ schPc \in SchPcs /\ stuff \in BOOLEAN
      /\ fwPc \in FwPcs /\ (fwPc # "receive" => fwMsg # NoMsg)
      /\ link_up1 \in BOOLEAN /\ link_up2 \in BOOLEAN
  BY Zenon DEF SchPcs, FwPcs
<1>4. (link_up1 <=> received1 > 0) /\ (link_up2 <=> received2 > 0)
  OBVIOUS
<1>5. SchedulerInv
  BY DEF SchedulerInv, StuffStillThere
<1>6. QED
  BY <1>1, <1>2, <1>3, <1>4, <1>5 DEF LinkInv, TypeOK

LEMMA LinkInvStep == LinkInv /\ [Next]_vars => LinkInv'
<1> SUFFICES ASSUME LinkInv, [Next]_vars PROVE LinkInv'
  OBVIOUS
<1> USE LinkAssumption
    DEF LinkAssumption, LinkInv, TypeOK, SchedulerInv, StuffStillThere,
        SchPcs, FwPcs, NoMsg, schVars, fwVars, revVars
<1>1. CASE ReceiveMessage1
  <2>1. link_up1' \in BOOLEAN /\ (link_up1' <=> received1' > 0)
    BY <1>1 DEF ReceiveMessage1
  <2>2. /\ received1' \in 0..MaxFrames
        /\ fwMsg' \in {NoMsg} \cup 2..MaxFrames
        /\ fwPc' \in FwPcs /\ (fwPc' # "receive" => fwMsg' # NoMsg)
    BY <1>1 DEF ReceiveMessage1
  <2>3. QED
    BY <1>1, <2>1, <2>2 DEF ReceiveMessage1
<1>2. CASE CheckSpace
  BY <1>2 DEF CheckSpace
<1>3. CASE Enqueue
  <2>1. PICK damaged \in Chance(Corrupt) :
          LET f == [id |-> fwMsg, intact |-> ~damaged, enq |-> now]
          IN buffer' = Append(buffer, f) /\ accepted' = Append(accepted, f)
    BY <1>3 DEF Enqueue
  <2> DEFINE f == [id |-> fwMsg, intact |-> ~damaged, enq |-> now]
  <2>2. f \in Frame
    BY <1>3, <2>1 DEF Enqueue, Frame, Chance
  <2>6. buffer' = Append(buffer, f) /\ accepted' = Append(accepted, f)
    BY <2>1
  <2> HIDE DEF f
  <2>3. buffer' \in Seq(Frame) /\ buffer' # <<>> /\ accepted' \in Seq(Frame)
    BY <2>2, <2>6
  <2>4. schPc' \in SchPcs /\ wakeAt' \in Nat /\ schPc' # "waiting"
        /\ (schPc' # "asleep" => schPc' = schPc)
    BY <1>3 DEF Enqueue
  <2>5. QED
    BY <1>3, <2>3, <2>4 DEF Enqueue
<1>4. CASE ReadClock
  BY <1>4 DEF ReadClock
<1>5. CASE SendMessage2
  <2> DEFINE mif == Head(in_flight)
             s == [m |-> mif.m, finish |-> mif.finish, at |-> now, up |-> link_up2]
  <2>1. in_flight # <<>> /\ mif \in InFlight /\ Tail(in_flight) \in Seq(InFlight)
    BY <1>5 DEF SendMessage2, Due
  <2>2. s \in Sent
    BY <2>1 DEF Sent, InFlight
  <2>3. sent2' \in Seq(Sent) /\ in_flight' \in Seq(InFlight)
    BY <1>5, <2>1, <2>2 DEF SendMessage2
  <2>4. QED
    BY <1>5, <2>3 DEF SendMessage2
<1>6. CASE CheckStuff
  <2>1. stuff' \in BOOLEAN /\ (stuff' => buffer # <<>>)
    BY <1>6 DEF CheckStuff
  <2>2. in_flight # <<>> => Head(in_flight).finish > crt_time
    <3> SUFFICES ASSUME in_flight # <<>> PROVE Head(in_flight).finish > crt_time
      OBVIOUS
    <3>1. Head(in_flight) \in InFlight
      OBVIOUS
    <3>2. QED
      BY <1>6, <3>1 DEF CheckStuff, Due, InFlight
  <2>3. QED
    BY <1>6, <2>1, <2>2 DEF CheckStuff
<1>7. CASE PutInFlight
  <2> DEFINE mif == [m |-> Head(buffer),
                     finish |-> crt_time + SerializationDelay + Delay]
  <2>1. mif \in InFlight /\ buffer' \in Seq(Frame)
    BY <1>7 DEF PutInFlight, InFlight
  <2>2. idle_time' \in Nat /\ in_flight' \in Seq(InFlight)
    BY <1>7, <2>1 DEF PutInFlight
  <2>3. /\ schPc' \in {"asleep", "park"} /\ wakeAt' \in Nat
        /\ schPc' = "park" => Head(in_flight').finish <= crt_time
    <3>1. in_flight' # <<>>
      BY <1>7, <2>1 DEF PutInFlight
    <3>2. Doze(idle_time', in_flight')
      BY <1>7 DEF PutInFlight
    <3>3. QED
      BY <2>2, <3>1, <3>2, DozeResult
  <2>4. schPc' = "park" => ~(SerializationDelay + Delay > 0)
    <3>1. CASE in_flight = <<>>
      <4>1. Head(in_flight').finish = crt_time + SerializationDelay + Delay
        BY <1>7, <2>1, <3>1 DEF PutInFlight
      <4>2. QED
        BY <2>3, <4>1
    <3>2. CASE in_flight # <<>>
      <4>1. Head(in_flight') = Head(in_flight) /\ Head(in_flight) \in InFlight
        BY <1>7, <2>1, <3>2 DEF PutInFlight
      <4>2. QED
        BY <1>7, <2>3, <3>2, <4>1 DEF PutInFlight, InFlight
    <3>3. QED
      BY <3>1, <3>2
  <2>5. QED
    BY <1>7, <2>1, <2>2, <2>3, <2>4 DEF PutInFlight
<1>8. CASE NothingToPut
  <2>1. /\ schPc' \in {"asleep", "park"} /\ wakeAt' \in Nat
        /\ schPc' = "park" => in_flight = <<>>
    <3>1. /\ schPc' \in {"asleep", "park"} /\ wakeAt' \in Nat
          /\ schPc' = "park" /\ in_flight # <<>> => Head(in_flight).finish <= crt_time
      BY <1>8, DozeResult DEF NothingToPut
    <3>2. in_flight # <<>> => Head(in_flight) \in InFlight
      OBVIOUS
    <3>3. QED
      BY <1>8, <3>1, <3>2 DEF NothingToPut, InFlight
  <2>2. QED
    BY <1>8, <2>1 DEF NothingToPut
<1>9. CASE Park
  BY <1>9 DEF Park
<1>10. CASE SpuriousWakeup
  BY <1>10 DEF SpuriousWakeup
<1>11. CASE ReceiveMessage2
  <2>1. link_up2' \in BOOLEAN /\ (link_up2' <=> received2' > 0)
    BY <1>11 DEF ReceiveMessage2
  <2>2. received2' \in 0..MaxReplies /\ revMsg' \in {NoMsg} \cup 2..MaxReplies
    BY <1>11 DEF ReceiveMessage2
  <2>3. QED
    BY <1>11, <2>1, <2>2 DEF ReceiveMessage2
<1>12. CASE SendMessage1
  BY <1>12 DEF SendMessage1
<1>13. CASE Tick
  BY <1>13 DEF Tick
<1>14. CASE UNCHANGED vars
  BY <1>14 DEF vars
<1>15. QED
  BY <1>1, <1>2, <1>3, <1>4, <1>5, <1>6, <1>7, <1>8, <1>9, <1>10, <1>11,
     <1>12, <1>13, <1>14
  DEF Next, Scheduler, Forwarder, ReverseForwarder

LEMMA LinkInvariant == Spec => []LinkInv
BY LinkInvInit, LinkInvStep, PTL DEF Spec

\* The variables keep to their domains and no registering datagram is relayed.
THEOREM TypeCorrect == Spec => []TypeOK
<1>1. LinkInv => TypeOK
  BY DEF LinkInv
<1>2. QED
  BY LinkInvariant, <1>1, PTL

\* dequeue(buffer) never returns NULL to the scheduler: assert(mif->m) holds.
THEOREM DequeueNeverNull == Spec => []StuffStillThere
<1>1. LinkInv => StuffStillThere
  BY DEF LinkInv, SchedulerInv
<1>2. QED
  BY LinkInvariant, <1>1, PTL

\* No signal is missed for good: the scheduler blocks on the condition only
\* with nothing buffered and, unless both delays are zero, nothing in flight.
THEOREM NoMissedSignal ==
  ASSUME SerializationDelay + Delay > 0
  PROVE  Spec => []ParkedMeansDrained
<1>1. LinkInv => ParkedMeansDrained
  BY DEF LinkInv, SchedulerInv, ParkedMeansDrained
<1>2. QED
  BY LinkInvariant, <1>1, PTL
-----------------------------------------------------------------------------
\* Only the forwarder adds a frame, so its overflow test is still good when it
\* enqueues: the buffer keeps to BUFFER_SIZE.
THEOREM BufferNeverOverflows == Spec => []BufferBound
<1>1. Init => BufferBound
  BY LinkAssumption DEF Init, BufferBound, LinkAssumption
<1>2. LinkInv /\ BufferBound /\ [Next]_vars => BufferBound'
  <2> SUFFICES ASSUME LinkInv, BufferBound, [Next]_vars PROVE BufferBound'
    OBVIOUS
  <2> USE LinkAssumption DEF LinkAssumption, BufferBound, schVars, fwVars, revVars
  <2>1. buffer \in Seq(Frame) /\ Len(buffer) \in Nat
    BY DEF LinkInv, TypeOK
  <2>2. CASE CheckSpace
    BY <2>1, <2>2 DEF CheckSpace
  <2>3. CASE Enqueue
    <3>1. PICK f \in Frame : buffer' = Append(buffer, f)
      <4>1. PICK damaged \in BOOLEAN :
              buffer' = Append(buffer, [id |-> fwMsg, intact |-> ~damaged, enq |-> now])
        BY <2>3 DEF Enqueue, Chance
      <4>2. [id |-> fwMsg, intact |-> ~damaged, enq |-> now] \in Frame
        BY <2>3 DEF Enqueue, Frame, LinkInv, TypeOK, NoMsg
      <4>3. QED
        BY <4>1, <4>2
    <3>2. Len(buffer') = Len(buffer) + 1
      BY <2>1, <3>1, AppendProperties
    <3>3. QED
      BY <2>1, <2>3, <3>2 DEF Enqueue
  <2>4. CASE PutInFlight
    <3>1. buffer # <<>>
      BY <2>4 DEF PutInFlight, LinkInv, SchedulerInv, StuffStillThere
    <3>2. Len(buffer') = Len(buffer) - 1
      BY <2>1, <2>4, <3>1, HeadTailProperties DEF PutInFlight
    <3>3. QED
      BY <2>1, <2>4, <3>2 DEF PutInFlight
  <2>5. CASE ReceiveMessage1
    BY <2>1, <2>5 DEF ReceiveMessage1
  <2>6. CASE \/ ReadClock \/ SendMessage2 \/ CheckStuff \/ NothingToPut \/ Park
             \/ SpuriousWakeup \/ ReverseForwarder \/ Tick \/ UNCHANGED vars
    BY <2>6 DEF ReadClock, SendMessage2, CheckStuff, NothingToPut, Park,
         SpuriousWakeup, ReverseForwarder, ReceiveMessage2, SendMessage1, Tick, vars
  <2>7. QED
    BY <2>2, <2>3, <2>4, <2>5, <2>6 DEF Next, Scheduler, Forwarder
<1>3. QED
  BY <1>1, <1>2, LinkInvariant, PTL DEF Spec

\* What the forwarder or the scheduler saw in one critical section holds when
\* it acts on it in the next.
THEOREM ChecksHoldOn == Spec => []ChecksStillHold
<1>1. BufferBound /\ StuffStillThere => ChecksStillHold
  BY DEF ChecksStillHold
<1>2. QED
  BY BufferNeverOverflows, DequeueNeverNull, <1>1, PTL

-----------------------------------------------------------------------------
\* Taking the frames out of a sequence of records that carry one.
LEMMA FramesOfSeq ==
  ASSUME NEW T, \A r \in T : r.m \in Frame, NEW seq \in Seq(T)
  PROVE  /\ FramesOf(seq) \in Seq(Frame)
         /\ Len(FramesOf(seq)) = Len(seq)
         /\ \A i \in 1 .. Len(seq) : FramesOf(seq)[i] = seq[i].m
BY DEF FramesOf

LEMMA FramesOfAppend ==
  ASSUME NEW T, \A r \in T : r.m \in Frame, NEW seq \in Seq(T), NEW r \in T
  PROVE  FramesOf(Append(seq, r)) = Append(FramesOf(seq), r.m)
<1>1. /\ Append(seq, r) \in Seq(T) /\ Len(Append(seq, r)) = Len(seq) + 1
      /\ \A i \in 1 .. Len(seq) : Append(seq, r)[i] = seq[i]
      /\ Append(seq, r)[Len(seq) + 1] = r
  BY AppendProperties
<1>2. /\ FramesOf(seq) \in Seq(Frame) /\ Len(FramesOf(seq)) = Len(seq)
      /\ \A i \in 1 .. Len(seq) : FramesOf(seq)[i] = seq[i].m
  BY FramesOfSeq
<1>3. /\ FramesOf(Append(seq, r)) \in Seq(Frame)
      /\ Len(FramesOf(Append(seq, r))) = Len(seq) + 1
      /\ \A i \in 1 .. Len(seq) + 1 : FramesOf(Append(seq, r))[i] = Append(seq, r)[i].m
  BY <1>1, FramesOfSeq
<1>4. /\ Append(FramesOf(seq), r.m) \in Seq(Frame)
      /\ Len(Append(FramesOf(seq), r.m)) = Len(seq) + 1
      /\ \A i \in 1 .. Len(seq) : Append(FramesOf(seq), r.m)[i] = seq[i].m
      /\ Append(FramesOf(seq), r.m)[Len(seq) + 1] = r.m
  BY <1>2, AppendProperties
<1>5. ASSUME NEW i \in 1 .. Len(seq) + 1
      PROVE  FramesOf(Append(seq, r))[i] = Append(FramesOf(seq), r.m)[i]
  BY <1>1, <1>3, <1>4, LenProperties
<1>6. QED
  BY <1>3, <1>4, <1>5, SeqEqual

LEMMA FramesOfTail ==
  ASSUME NEW T, \A r \in T : r.m \in Frame, NEW seq \in Seq(T), seq # <<>>
  PROVE  /\ FramesOf(seq) # <<>>
         /\ FramesOf(Tail(seq)) = Tail(FramesOf(seq))
         /\ Head(seq).m = Head(FramesOf(seq))
<1>1. /\ Tail(seq) \in Seq(T) /\ Len(Tail(seq)) = Len(seq) - 1
      /\ \A i \in 1 .. Len(Tail(seq)) : Tail(seq)[i] = seq[i + 1]
      /\ Len(seq) \in Nat \ {0}
  BY HeadTailProperties, EmptySeq
<1>2. /\ FramesOf(seq) \in Seq(Frame) /\ Len(FramesOf(seq)) = Len(seq)
      /\ \A i \in 1 .. Len(seq) : FramesOf(seq)[i] = seq[i].m
  BY FramesOfSeq
<1>3. /\ FramesOf(Tail(seq)) \in Seq(Frame)
      /\ Len(FramesOf(Tail(seq))) = Len(seq) - 1
      /\ \A i \in 1 .. Len(seq) - 1 : FramesOf(Tail(seq))[i] = seq[i + 1].m
  <2>1. /\ FramesOf(Tail(seq)) \in Seq(Frame)
        /\ Len(FramesOf(Tail(seq))) = Len(Tail(seq))
        /\ \A i \in 1 .. Len(Tail(seq)) : FramesOf(Tail(seq))[i] = Tail(seq)[i].m
    BY <1>1, FramesOfSeq
  <2>2. QED
    BY <1>1, <2>1
<1>4. FramesOf(seq) # <<>>
  BY <1>1, <1>2
<1>5. /\ Tail(FramesOf(seq)) \in Seq(Frame)
      /\ Len(Tail(FramesOf(seq))) = Len(seq) - 1
      /\ \A i \in 1 .. Len(seq) - 1 : Tail(FramesOf(seq))[i] = seq[i + 1].m
  BY <1>1, <1>2, <1>4, HeadTailProperties
<1>6. FramesOf(Tail(seq)) = Tail(FramesOf(seq))
  BY <1>3, <1>5, SeqEqual
<1>7. Head(seq).m = Head(FramesOf(seq))
  BY <1>1, <1>2, <1>4
<1>8. QED
  BY <1>4, <1>6, <1>7
\* The three queues in the hands of the scheduler, typed.
LEMMA QueuesTyped ==
  ASSUME TypeOK
  PROVE  /\ \A r \in Sent : r.m \in Frame
         /\ \A r \in InFlight : r.m \in Frame
         /\ FramesOf(sent2) \in Seq(Frame) /\ FramesOf(in_flight) \in Seq(Frame)
         /\ buffer \in Seq(Frame) /\ in_flight \in Seq(InFlight)
         /\ sent2 \in Seq(Sent)
<1>1. (\A r \in Sent : r.m \in Frame) /\ (\A r \in InFlight : r.m \in Frame)
  BY DEF Sent, InFlight
<1>2. buffer \in Seq(Frame) /\ in_flight \in Seq(InFlight) /\ sent2 \in Seq(Sent)
  BY DEF TypeOK
<1>3. QED
  BY <1>1, <1>2, FramesOfSeq

\* What each step does to the frames sent, and to the frames in flight and
\* buffered read as one queue.
LEMMA EnqueueMoves ==
  ASSUME TypeOK, Enqueue
  PROVE  \E f \in Frame : /\ accepted' = Append(accepted, f)
                          /\ buffer' = Append(buffer, f)
                          /\ UNCHANGED <<in_flight, sent2>>
<1>1. PICK damaged \in BOOLEAN :
        /\ buffer' = Append(buffer, [id |-> fwMsg, intact |-> ~damaged, enq |-> now])
        /\ accepted' = Append(accepted, [id |-> fwMsg, intact |-> ~damaged, enq |-> now])
  BY DEF Enqueue, Chance
<1>2. [id |-> fwMsg, intact |-> ~damaged, enq |-> now] \in Frame
  BY DEF Enqueue, Frame, TypeOK, NoMsg
<1>3. QED
  BY <1>1, <1>2 DEF Enqueue

LEMMA PutInFlightMoves ==
  ASSUME LinkInv, PutInFlight
  PROVE  /\ buffer # <<>>
         /\ FramesOf(in_flight') = Append(FramesOf(in_flight), Head(buffer))
         /\ buffer' = Tail(buffer)
         /\ FramesOf(in_flight') \o buffer' = FramesOf(in_flight) \o buffer
         /\ UNCHANGED <<accepted, sent2>>
<1> DEFINE mif == [m |-> Head(buffer),
                   finish |-> crt_time + SerializationDelay + Delay]
<1>1. TypeOK /\ buffer # <<>>
  BY DEF PutInFlight, LinkInv, SchedulerInv, StuffStillThere
<1>2. mif \in InFlight
  BY <1>1, LinkAssumption DEF TypeOK, InFlight, LinkAssumption
<1>3. FramesOf(Append(in_flight, mif)) = Append(FramesOf(in_flight), mif.m)
  BY <1>1, <1>2, QueuesTyped, FramesOfAppend
<1>4. FramesOf(in_flight') = Append(FramesOf(in_flight), Head(buffer))
  BY <1>3 DEF PutInFlight
<1>5. Append(FramesOf(in_flight), Head(buffer)) \o Tail(buffer)
        = FramesOf(in_flight) \o buffer
  BY <1>1, QueuesTyped, MoveHead
<1>6. QED
  BY <1>1, <1>4, <1>5 DEF PutInFlight

LEMMA SendMessage2Moves ==
  ASSUME TypeOK, SendMessage2
  PROVE  /\ FramesOf(in_flight) # <<>>
         /\ FramesOf(sent2') = Append(FramesOf(sent2), Head(FramesOf(in_flight)))
         /\ FramesOf(in_flight') = Tail(FramesOf(in_flight))
         /\ UNCHANGED <<accepted, buffer>>
<1> DEFINE mif == Head(in_flight)
           s == [m |-> mif.m, finish |-> mif.finish, at |-> now, up |-> link_up2]
<1>1. in_flight # <<>> /\ mif \in InFlight
  BY DEF SendMessage2, Due, TypeOK
<1>2. s \in Sent
  BY <1>1 DEF Sent, InFlight, TypeOK
<1>3. FramesOf(Append(sent2, s)) = Append(FramesOf(sent2), s.m)
  BY <1>2, QueuesTyped, FramesOfAppend
<1>4. /\ FramesOf(in_flight) # <<>>
      /\ FramesOf(Tail(in_flight)) = Tail(FramesOf(in_flight))
      /\ mif.m = Head(FramesOf(in_flight))
  BY <1>1, QueuesTyped, FramesOfTail
<1>5. QED
  BY <1>3, <1>4 DEF SendMessage2

\* The other steps leave the frames where they are.
LEMMA OthersMoveNothing ==
  ASSUME [Next]_vars, ~Enqueue, ~PutInFlight, ~SendMessage2
  PROVE  UNCHANGED <<accepted, sent2, in_flight, buffer>>
BY DEF Next, Scheduler, Forwarder, ReverseForwarder, ReceiveMessage1, CheckSpace,
       ReadClock, CheckStuff, NothingToPut, Park, SpuriousWakeup,
       ReceiveMessage2, SendMessage1, Tick, vars, schVars, fwVars, revVars

\* No accepted frame is lost, duplicated or overtaken between the threads.
THEOREM FramesConserved == Spec => []Conservation
<1>1. Init => Conservation
  <2> SUFFICES ASSUME Init PROVE Conservation
    OBVIOUS
  <2>1. FramesOf(<<>>) = <<>>
    BY DEF FramesOf
  <2>2. <<>> \o <<>> \o <<>> = <<>>
    OBVIOUS
  <2>3. QED
    BY <2>1, <2>2 DEF Init, Conservation
<1>2. LinkInv /\ Conservation /\ [Next]_vars => Conservation'
  <2> SUFFICES ASSUME LinkInv, Conservation, [Next]_vars PROVE Conservation'
    OBVIOUS
  <2> DEFINE A == FramesOf(sent2)
             B == FramesOf(in_flight)
             B1 == Append(B, Head(buffer))
  <2>1. TypeOK /\ A \in Seq(Frame) /\ B \in Seq(Frame) /\ buffer \in Seq(Frame)
    BY QueuesTyped DEF LinkInv
  <2>2. A \o B \in Seq(Frame)
    BY <2>1, ConcatProperties
  <2>3. CASE Enqueue
    <3>1. PICK f \in Frame : /\ accepted' = Append(accepted, f)
                             /\ buffer' = Append(buffer, f)
                             /\ UNCHANGED <<in_flight, sent2>>
      BY <2>1, <2>3, EnqueueMoves
    <3>2. (A \o B) \o Append(buffer, f) = Append((A \o B) \o buffer, f)
      BY <2>1, <2>2, ConcatAppend
    <3>3. QED
      BY <3>1, <3>2 DEF Conservation
  <2>4. CASE PutInFlight
    <3>1. /\ FramesOf(in_flight') \o buffer' = B \o buffer
          /\ FramesOf(in_flight') = Append(B, Head(buffer)) /\ buffer # <<>>
          /\ buffer' = Tail(buffer)
          /\ UNCHANGED <<accepted, sent2>>
      BY <2>4, PutInFlightMoves
    <3>2. Head(buffer) \in Frame /\ Tail(buffer) \in Seq(Frame)
      BY <2>1, <3>1, HeadTailProperties
    <3>3. B1 \in Seq(Frame)
      BY <2>1, <3>2, AppendProperties
    <3>4. (A \o B1) \o Tail(buffer) = A \o (B1 \o Tail(buffer))
      <4> HIDE DEF A, B1
      <4>1. QED
        BY <2>1, <3>2, <3>3, ConcatAssociative
    <3>5. (A \o B) \o buffer = A \o (B \o buffer)
      BY <2>1, ConcatAssociative
    <3>6. QED
      BY <3>1, <3>4, <3>5 DEF Conservation
  <2>5. CASE SendMessage2
    <3>1. /\ B # <<>>
          /\ FramesOf(sent2') = Append(A, Head(B))
          /\ FramesOf(in_flight') = Tail(B)
          /\ UNCHANGED <<accepted, buffer>>
      BY <2>1, <2>5, SendMessage2Moves
    <3>2. Append(A, Head(B)) \o Tail(B) = A \o B
      BY <2>1, <3>1, MoveHead
    <3>3. QED
      BY <3>1, <3>2 DEF Conservation
  <2>6. CASE ~Enqueue /\ ~PutInFlight /\ ~SendMessage2
    <3>1. UNCHANGED <<accepted, sent2, in_flight, buffer>>
      BY <2>6, OthersMoveNothing
    <3>2. QED
      BY <3>1 DEF Conservation, FramesOf
  <2>7. QED
    BY <2>3, <2>4, <2>5, <2>6
<1>3. QED
  BY <1>1, <1>2, LinkInvariant, PTL DEF Spec
-----------------------------------------------------------------------------
(* The link is neither faster than its speed nor its delay allow.          *)

\* The finish times of the frames sent, then of those in flight.
Wire == [i \in DOMAIN sent2 |-> sent2[i].finish]
          \o [i \in DOMAIN in_flight |-> in_flight[i].finish]

\* The clock of a pass is at most MaxLag ticks behind, and no frame was
\* enqueued in the future.
ClockInv ==
  /\ crt_time <= now
  /\ schPc \in {"drain", "take", "park"} => now <= crt_time + MaxLag
  /\ \A i \in 1 .. Len(buffer) : buffer[i].enq <= now

\* A frame taken at crt_time, which may be older than the frame, finishes no
\* earlier than this.
LateEnough(r) == r.finish + MaxLag >= r.m.enq + SerializationDelay + Delay

FinishInv ==
  /\ \A i \in 1 .. Len(in_flight) : LateEnough(in_flight[i])
  /\ \A i \in 1 .. Len(sent2) :
       LateEnough(sent2[i]) /\ sent2[i].at >= sent2[i].finish

\* The wire is busy until idle_time: nothing on it finishes more than the
\* propagation delay later.
WireInv ==
  /\ \A i \in 2 .. Len(Wire) : Wire[i] >= Wire[i - 1] + SerializationDelay
  /\ \A i \in 1 .. Len(Wire) : Wire[i] <= idle_time + Delay

TimingInv == ClockInv /\ FinishInv /\ WireInv

\* The i-th finish time on the wire.
LEMMA WireElements ==
  ASSUME NEW s \in Seq(Sent), NEW f \in Seq(InFlight)
  PROVE  LET W == [i \in DOMAIN s |-> s[i].finish]
                    \o [i \in DOMAIN f |-> f[i].finish]
         IN /\ W \in Seq(Nat) /\ Len(W) = Len(s) + Len(f)
            /\ \A i \in 1 .. Len(s) : W[i] = s[i].finish
            /\ \A i \in 1 .. Len(f) : W[Len(s) + i] = f[i].finish
<1> DEFINE FS == [i \in DOMAIN s |-> s[i].finish]
           FF == [i \in DOMAIN f |-> f[i].finish]
<1>1. (\A r \in Sent : r.finish \in Nat) /\ (\A r \in InFlight : r.finish \in Nat)
  BY DEF Sent, InFlight
<1>2. /\ FS \in Seq(Nat) /\ Len(FS) = Len(s) /\ Len(s) \in Nat
      /\ \A i \in 1 .. Len(s) : FS[i] = s[i].finish
  BY <1>1
<1>3. /\ FF \in Seq(Nat) /\ Len(FF) = Len(f) /\ Len(f) \in Nat
      /\ \A i \in 1 .. Len(f) : FF[i] = f[i].finish
  BY <1>1
<1> HIDE DEF FS, FF
<1>4. /\ FS \o FF \in Seq(Nat) /\ Len(FS \o FF) = Len(s) + Len(f)
      /\ \A i \in 1 .. Len(s) + Len(f) : (FS \o FF)[i] =
            IF i <= Len(s) THEN FS[i] ELSE FF[i - Len(s)]
  <2>1. FS \in Seq(Nat) /\ FF \in Seq(Nat)
    BY <1>2, <1>3
  <2>2. /\ FS \o FF \in Seq(Nat) /\ Len(FS \o FF) = Len(FS) + Len(FF)
        /\ \A i \in 1 .. Len(FS) + Len(FF) : (FS \o FF)[i] =
              IF i <= Len(FS) THEN FS[i] ELSE FF[i - Len(FS)]
    BY <2>1, ConcatProperties
  <2>3. Len(FS) = Len(s) /\ Len(FF) = Len(f)
    BY <1>2, <1>3
  <2>4. QED
    BY <2>2, <2>3
<1>5. ASSUME NEW i \in 1 .. Len(s) PROVE (FS \o FF)[i] = s[i].finish
  BY <1>2, <1>3, <1>4
<1>6. ASSUME NEW i \in 1 .. Len(f) PROVE (FS \o FF)[Len(s) + i] = f[i].finish
  <2>1. Len(s) + i \in 1 .. Len(s) + Len(f) /\ ~(Len(s) + i <= Len(s))
        /\ Len(s) + i - Len(s) = i
    BY <1>2, <1>3
  <2>2. (FS \o FF)[Len(s) + i] = FF[Len(s) + i - Len(s)]
    BY <1>4, <2>1
  <2>3. QED
    BY <1>3, <2>1, <2>2
<1>7. QED
  BY <1>4, <1>5, <1>6 DEF FS, FF

\* A frame put in flight finishes last on the wire.
LEMMA PutInFlightWire ==
  ASSUME LinkInv, PutInFlight
  PROVE  /\ Wire \in Seq(Nat) /\ Wire' \in Seq(Nat) /\ Len(Wire') = Len(Wire) + 1
         /\ \A i \in 1 .. Len(Wire) : Wire'[i] = Wire[i]
         /\ Wire'[Len(Wire) + 1] = crt_time + SerializationDelay + Delay
<1> DEFINE mif == [m |-> Head(buffer),
                   finish |-> crt_time + SerializationDelay + Delay]
           a == Len(sent2)
           b == Len(in_flight)
<1>1. /\ TypeOK /\ buffer # <<>> /\ sent2 \in Seq(Sent) /\ in_flight \in Seq(InFlight)
      /\ a \in Nat /\ b \in Nat
  BY DEF PutInFlight, LinkInv, SchedulerInv, StuffStillThere, TypeOK
<1>2. mif \in InFlight
  BY <1>1, LinkAssumption DEF TypeOK, InFlight, LinkAssumption
<1>3. in_flight' = Append(in_flight, mif) /\ sent2' = sent2
  BY DEF PutInFlight
<1>8. mif.finish = crt_time + SerializationDelay + Delay
  OBVIOUS
<1> HIDE DEF mif, a, b
<1>4. /\ in_flight' \in Seq(InFlight) /\ Len(in_flight') = b + 1
      /\ \A i \in 1 .. b : in_flight'[i] = in_flight[i]
      /\ in_flight'[b + 1] = mif
  BY <1>1, <1>2, <1>3, AppendProperties DEF b
<1>5. /\ Wire \in Seq(Nat) /\ Len(Wire) = a + b
      /\ \A i \in 1 .. a : Wire[i] = sent2[i].finish
      /\ \A i \in 1 .. b : Wire[a + i] = in_flight[i].finish
  BY <1>1, WireElements DEF Wire, a, b
<1>6. /\ Wire' \in Seq(Nat) /\ Len(Wire') = a + b + 1
      /\ \A i \in 1 .. a : Wire'[i] = sent2[i].finish
      /\ \A i \in 1 .. b + 1 : Wire'[a + i] = in_flight'[i].finish
  <2>1. /\ Wire' \in Seq(Nat) /\ Len(Wire') = Len(sent2') + Len(in_flight')
        /\ \A i \in 1 .. Len(sent2') : Wire'[i] = sent2'[i].finish
        /\ \A i \in 1 .. Len(in_flight') :
              Wire'[Len(sent2') + i] = in_flight'[i].finish
    <3>1. sent2' \in Seq(Sent) /\ in_flight' \in Seq(InFlight)
      BY <1>1, <1>3, <1>4
    <3>2. QED
      BY <3>1, WireElements DEF Wire
  <2>2. Len(sent2') = a
    BY <1>3 DEF a
  <2>3. sent2' = sent2 /\ Len(in_flight') = b + 1
    BY <1>3, <1>4
  <2>4. Len(Wire') = a + b + 1
    BY <1>1, <2>1, <2>2, <2>3
  <2>5. QED
    BY <2>1, <2>2, <2>3, <2>4
<1>7. ASSUME NEW i \in 1 .. Len(Wire) PROVE Wire'[i] = Wire[i]
  <2>1. CASE i <= a
    BY <1>1, <1>5, <1>6, <2>1
  <2>2. CASE i > a
    <3>1. PICK j \in 1 .. b : i = a + j
      <4>1. i - a \in 1 .. b /\ i = a + (i - a)
        BY <1>1, <1>5, <2>2
      <4>2. QED
        BY <4>1
    <3>2. Wire[a + j] = in_flight[j].finish
      BY <1>5
    <3>3. j \in 1 .. b + 1 /\ in_flight'[j] = in_flight[j]
      BY <1>1, <1>4
    <3>4. Wire'[a + j] = in_flight'[j].finish
      BY <1>6, <3>3
    <3>5. QED
      BY <3>1, <3>2, <3>3, <3>4
  <2>3. QED
    BY <1>1, <1>5, <2>1, <2>2
<1>9. Wire'[Len(Wire) + 1] = crt_time + SerializationDelay + Delay
  <2>1. Wire'[a + (b + 1)] = mif.finish
    BY <1>1, <1>4, <1>6
  <2>2. Len(Wire) + 1 = a + (b + 1)
    BY <1>1, <1>5
  <2>3. QED
    BY <1>8, <2>1, <2>2
<1>10. Len(Wire') = Len(Wire) + 1
  BY <1>1, <1>5, <1>6
<1>11. QED
  BY <1>5, <1>6, <1>7, <1>9, <1>10

\* Sending a frame takes nothing off the record of the wire.
LEMMA SendMessage2Wire ==
  ASSUME TypeOK, SendMessage2
  PROVE  Wire \in Seq(Nat) /\ Wire' = Wire
<1> DEFINE mif == Head(in_flight)
           s == [m |-> mif.m, finish |-> mif.finish, at |-> now, up |-> link_up2]
           a == Len(sent2)
           b == Len(in_flight)
<1>1. /\ in_flight # <<>> /\ mif \in InFlight /\ sent2 \in Seq(Sent)
      /\ in_flight \in Seq(InFlight) /\ a \in Nat /\ b \in Nat \ {0}
      /\ mif = in_flight[1]
  BY DEF SendMessage2, Due, TypeOK
<1>2. s \in Sent /\ s.finish = in_flight[1].finish
  BY <1>1 DEF Sent, InFlight, TypeOK
<1>3. sent2' = Append(sent2, s) /\ in_flight' = Tail(in_flight)
  BY DEF SendMessage2
<1> HIDE DEF s, mif, a, b
<1>4. /\ sent2' \in Seq(Sent) /\ Len(sent2') = a + 1
      /\ \A i \in 1 .. a : sent2'[i] = sent2[i]
      /\ sent2'[a + 1] = s
  BY <1>1, <1>2, <1>3, AppendProperties DEF a
<1>5. /\ in_flight' \in Seq(InFlight) /\ Len(in_flight') = b - 1
      /\ \A i \in 1 .. b - 1 : in_flight'[i] = in_flight[i + 1]
  BY <1>1, <1>3, HeadTailProperties DEF b
<1>6. /\ Wire \in Seq(Nat) /\ Len(Wire) = a + b
      /\ \A i \in 1 .. a : Wire[i] = sent2[i].finish
      /\ \A i \in 1 .. b : Wire[a + i] = in_flight[i].finish
  BY <1>1, WireElements DEF Wire, a, b
<1>7. /\ Wire' \in Seq(Nat) /\ Len(Wire') = (a + 1) + (b - 1)
      /\ \A i \in 1 .. a + 1 : Wire'[i] = sent2'[i].finish
      /\ \A i \in 1 .. b - 1 : Wire'[(a + 1) + i] = in_flight'[i].finish
  <2>1. /\ Wire' \in Seq(Nat) /\ Len(Wire') = Len(sent2') + Len(in_flight')
        /\ \A i \in 1 .. Len(sent2') : Wire'[i] = sent2'[i].finish
        /\ \A i \in 1 .. Len(in_flight') :
              Wire'[Len(sent2') + i] = in_flight'[i].finish
    <3>1. sent2' \in Seq(Sent) /\ in_flight' \in Seq(InFlight)
      BY <1>4, <1>5
    <3>2. QED
      BY <3>1, WireElements DEF Wire
  <2>2. QED
    BY <1>4, <1>5, <2>1
<1>8. ASSUME NEW i \in 1 .. Len(Wire) PROVE Wire'[i] = Wire[i]
  <2>1. CASE i <= a
    <3>1. i \in 1 .. a /\ i \in 1 .. a + 1
      BY <1>1, <1>6, <2>1
    <3>2. Wire[i] = sent2[i].finish /\ sent2'[i] = sent2[i]
      BY <1>4, <1>6, <3>1
    <3>3. Wire'[i] = sent2'[i].finish
      BY <1>7, <3>1
    <3>4. QED
      BY <3>2, <3>3
  <2>2. CASE i = a + 1
    <3>1. Wire[a + 1] = in_flight[1].finish
      BY <1>1, <1>6
    <3>2. Wire'[a + 1] = s.finish
      BY <1>1, <1>4, <1>7
    <3>3. QED
      BY <1>2, <2>2, <3>1, <3>2
  <2>3. CASE i > a + 1
    <3>1. PICK j \in 1 .. b - 1 : i = a + (j + 1)
      <4>1. i - a - 1 \in 1 .. b - 1 /\ i = a + ((i - a - 1) + 1)
        BY <1>1, <1>6, <2>3
      <4>2. QED
        BY <4>1
    <3>2. Wire[i] = in_flight[j + 1].finish
      BY <1>1, <1>6, <3>1
    <3>3. Wire'[i] = in_flight'[j].finish
      <4>1. i = (a + 1) + j
        BY <1>1, <3>1
      <4>2. QED
        BY <1>7, <4>1
    <3>4. QED
      BY <1>5, <3>2, <3>3
  <2>4. QED
    BY <1>1, <1>6, <2>1, <2>2, <2>3
<1>9. Len(Wire') = Len(Wire)
  BY <1>1, <1>6, <1>7
<1>10. QED
  BY <1>6, <1>7, <1>8, <1>9, SeqEqual

\* The clock runs at most MaxLag ahead of a pass, and frames carry the time of
\* their enqueueing.
LEMMA ClockInvStep == LinkInv /\ ClockInv /\ [Next]_vars => ClockInv'
<1> SUFFICES ASSUME LinkInv, ClockInv, [Next]_vars PROVE ClockInv'
  OBVIOUS
<1> USE LinkAssumption DEF LinkAssumption, ClockInv, schVars, fwVars, revVars
<1>1. /\ now \in Nat /\ crt_time \in Nat /\ buffer \in Seq(Frame)
      /\ \A i \in 1 .. Len(buffer) : buffer[i].enq \in Nat
  <2>1. now \in Nat /\ crt_time \in Nat /\ buffer \in Seq(Frame)
    BY DEF LinkInv, TypeOK
  <2>2. \A f \in Frame : f.enq \in Nat
    BY DEF Frame
  <2>3. QED
    BY <2>1, <2>2
<1>2. CASE Enqueue
  <2>1. PICK f \in Frame : buffer' = Append(buffer, f) /\ f.enq = now
    <3>1. PICK damaged \in BOOLEAN :
            buffer' = Append(buffer, [id |-> fwMsg, intact |-> ~damaged, enq |-> now])
      BY <1>2 DEF Enqueue, Chance
    <3>2. [id |-> fwMsg, intact |-> ~damaged, enq |-> now] \in Frame
      BY <1>2 DEF Enqueue, Frame, LinkInv, TypeOK, NoMsg
    <3>3. QED
      BY <3>1, <3>2
  <2>2. /\ Len(buffer') = Len(buffer) + 1 /\ buffer'[Len(buffer) + 1] = f
        /\ \A i \in 1 .. Len(buffer) : buffer'[i] = buffer[i]
    BY <1>1, <2>1, AppendProperties
  <2>3. \A i \in 1 .. Len(buffer') : buffer'[i].enq <= now
    BY <1>1, <2>1, <2>2
  <2>4. /\ UNCHANGED <<now, crt_time>>
        /\ schPc' \in {"drain", "take", "park"} => schPc' = schPc
    BY <1>2 DEF Enqueue
  <2>5. QED
    BY <1>1, <2>3, <2>4
<1>3. CASE PutInFlight
  <2>1. buffer # <<>> /\ buffer' = Tail(buffer)
    BY <1>3, PutInFlightMoves
  <2>2. /\ Len(buffer') = Len(buffer) - 1 /\ Len(buffer) \in Nat
        /\ \A i \in 1 .. Len(buffer') : buffer'[i] = buffer[i + 1]
    BY <1>1, <2>1, HeadTailProperties
  <2>3. \A i \in 1 .. Len(buffer') : buffer'[i].enq <= now
    BY <1>1, <2>2
  <2>4. UNCHANGED <<now, crt_time>> /\ schPc = "take"
    BY <1>3 DEF PutInFlight
  <2>5. QED
    BY <1>1, <2>3, <2>4
<1>4. CASE Tick
  <2>1. /\ now' = now + 1 /\ UNCHANGED <<crt_time, schPc, buffer>>
        /\ schPc # "asleep" => now < MaxLag + crt_time
    BY <1>4 DEF Tick
  <2>2. QED
    BY <1>1, <2>1
<1>5. CASE ReadClock
  BY <1>1, <1>5 DEF ReadClock
<1>6. CASE \/ SendMessage2 \/ CheckStuff \/ NothingToPut \/ Park \/ SpuriousWakeup
           \/ ReceiveMessage1 \/ CheckSpace \/ ReverseForwarder \/ UNCHANGED vars
  <2>1. /\ UNCHANGED <<now, crt_time, buffer>>
        /\ schPc' \in {"drain", "take", "park"} =>
             schPc \in {"drain", "take", "park"}
    BY <1>6 DEF SendMessage2, CheckStuff, NothingToPut, Park, SpuriousWakeup,
         ReceiveMessage1, CheckSpace, ReverseForwarder, ReceiveMessage2,
         SendMessage1, vars
  <2>2. QED
    BY <2>1
<1>7. QED
  BY <1>2, <1>3, <1>4, <1>5, <1>6 DEF Next, Scheduler, Forwarder

LEMMA FinishInvStep ==
  LinkInv /\ ClockInv /\ FinishInv /\ [Next]_vars => FinishInv'
<1> SUFFICES ASSUME LinkInv, ClockInv, FinishInv, [Next]_vars PROVE FinishInv'
  OBVIOUS
<1> USE LinkAssumption DEF LinkAssumption, FinishInv
<1>1. /\ TypeOK /\ now \in Nat /\ crt_time \in Nat /\ buffer \in Seq(Frame)
      /\ in_flight \in Seq(InFlight) /\ sent2 \in Seq(Sent)
  BY DEF LinkInv, TypeOK
<1>2. CASE PutInFlight
  <2> DEFINE mif == [m |-> Head(buffer),
                     finish |-> crt_time + SerializationDelay + Delay]
  <2>1. buffer # <<>> /\ schPc = "take"
    BY <1>2, PutInFlightMoves DEF PutInFlight
  <2>2. Head(buffer) \in Frame /\ Head(buffer).enq \in Nat /\ Head(buffer).enq <= now
    <3>1. 1 \in 1 .. Len(buffer) /\ Head(buffer) = buffer[1] /\ buffer[1] \in Frame
      BY <1>1, <2>1
    <3>2. \A f \in Frame : f.enq \in Nat
      BY DEF Frame
    <3>3. QED
      BY <3>1, <3>2 DEF ClockInv
  <2>3. mif \in InFlight /\ LateEnough(mif)
    <3>1. now <= crt_time + MaxLag
      BY <2>1 DEF ClockInv
    <3>2. mif \in InFlight
      BY <1>1, <2>2 DEF InFlight
    <3>3. mif.m = Head(buffer) /\ mif.finish = crt_time + SerializationDelay + Delay
      OBVIOUS
    <3>4. mif.finish + MaxLag >= mif.m.enq + SerializationDelay + Delay
      <4> HIDE DEF mif
      <4>1. QED
        BY <1>1, <2>2, <3>1, <3>3
    <3>5. QED
      BY <3>2, <3>4 DEF LateEnough
  <2>4. in_flight' = Append(in_flight, mif) /\ sent2' = sent2
    BY <1>2 DEF PutInFlight
  <2> HIDE DEF mif
  <2>5. /\ Len(in_flight') = Len(in_flight) + 1
        /\ in_flight'[Len(in_flight) + 1] = mif /\ Len(in_flight) \in Nat
        /\ \A i \in 1 .. Len(in_flight) : in_flight'[i] = in_flight[i]
    BY <1>1, <2>3, <2>4, AppendProperties
  <2>6. \A i \in 1 .. Len(in_flight') : LateEnough(in_flight'[i])
    BY <2>3, <2>5
  <2>7. QED
    BY <2>4, <2>6
<1>3. CASE SendMessage2
  <2> DEFINE mif == Head(in_flight)
             s == [m |-> mif.m, finish |-> mif.finish, at |-> now, up |-> link_up2]
  <2>1. /\ in_flight # <<>> /\ mif \in InFlight /\ mif.finish <= crt_time
        /\ LateEnough(mif)
    BY <1>1, <1>3 DEF SendMessage2, Due
  <2>2. s \in Sent /\ LateEnough(s) /\ s.at >= s.finish
    BY <1>1, <2>1 DEF Sent, InFlight, TypeOK, LateEnough, ClockInv
  <2>3. sent2' = Append(sent2, s) /\ in_flight' = Tail(in_flight)
    BY <1>3 DEF SendMessage2
  <2> HIDE DEF s, mif
  <2>4. /\ Len(sent2') = Len(sent2) + 1 /\ Len(sent2) \in Nat
        /\ sent2'[Len(sent2) + 1] = s
        /\ \A i \in 1 .. Len(sent2) : sent2'[i] = sent2[i]
    BY <1>1, <2>2, <2>3, AppendProperties
  <2>5. /\ Len(in_flight') = Len(in_flight) - 1 /\ Len(in_flight) \in Nat
        /\ \A i \in 1 .. Len(in_flight') : in_flight'[i] = in_flight[i + 1]
    BY <1>1, <2>1, <2>3, HeadTailProperties
  <2>6. \A i \in 1 .. Len(sent2') :
          LateEnough(sent2'[i]) /\ sent2'[i].at >= sent2'[i].finish
    BY <2>2, <2>4
  <2>7. \A i \in 1 .. Len(in_flight') : LateEnough(in_flight'[i])
    BY <2>5
  <2>8. QED
    BY <2>6, <2>7
<1>4. CASE ~PutInFlight /\ ~SendMessage2
  <2>1. UNCHANGED <<in_flight, sent2>>
    <3>1. CASE Enqueue
      BY <1>1, <3>1, EnqueueMoves
    <3>2. CASE ~Enqueue
      BY <1>4, <3>2, OthersMoveNothing
    <3>3. QED
      BY <3>1, <3>2
  <2>2. QED
    BY <2>1
<1>5. QED
  BY <1>2, <1>3, <1>4

LEMMA WireInvStep == LinkInv /\ WireInv /\ [Next]_vars => WireInv'
<1> SUFFICES ASSUME LinkInv, WireInv, [Next]_vars PROVE WireInv'
  OBVIOUS
<1> USE LinkAssumption DEF LinkAssumption
<1>1. TypeOK /\ crt_time \in Nat /\ idle_time \in Nat
  BY DEF LinkInv, TypeOK
<1>2. CASE PutInFlight
  <2> DEFINE n == Len(Wire)
  <2>1. /\ Wire \in Seq(Nat) /\ Wire' \in Seq(Nat) /\ Len(Wire') = n + 1
        /\ n \in Nat /\ \A i \in 1 .. n : Wire'[i] = Wire[i] /\ Wire[i] \in Nat
        /\ Wire'[n + 1] = crt_time + SerializationDelay + Delay
    BY <1>2, PutInFlightWire
  <2>2. idle_time' = crt_time + SerializationDelay /\ crt_time >= idle_time
    BY <1>2 DEF PutInFlight
  <2> HIDE DEF n
  <2>3. /\ \A i \in 2 .. n : Wire[i] >= Wire[i - 1] + SerializationDelay
        /\ \A i \in 1 .. n : Wire[i] <= idle_time + Delay
    BY DEF WireInv, n
  <2>4. ASSUME NEW i \in 2 .. n + 1
        PROVE  Wire'[i] >= Wire'[i - 1] + SerializationDelay
    <3>1. CASE i <= n
      <4>1. i \in 2 .. n /\ i \in 1 .. n /\ i - 1 \in 1 .. n
        BY <2>1, <3>1
      <4>2. Wire'[i] = Wire[i] /\ Wire'[i - 1] = Wire[i - 1]
        BY <2>1, <4>1
      <4>3. QED
        BY <2>3, <4>1, <4>2
    <3>2. CASE i = n + 1
      <4>1. i - 1 \in 1 .. n
        BY <2>1, <3>2
      <4>2. /\ Wire'[i - 1] = Wire[i - 1] /\ Wire[i - 1] \in Nat
            /\ Wire[i - 1] <= idle_time + Delay
        BY <2>1, <2>3, <4>1
      <4>3. QED
        BY <1>1, <2>1, <2>2, <3>2, <4>2
    <3>3. QED
      BY <2>1, <3>1, <3>2
  <2>5. ASSUME NEW i \in 1 .. n + 1
        PROVE  Wire'[i] <= crt_time + SerializationDelay + Delay
    <3>1. CASE i = n + 1
      BY <1>1, <2>1, <3>1
    <3>2. CASE i # n + 1
      <4>1. i \in 1 .. n
        BY <2>1, <3>2
      <4>2. Wire'[i] = Wire[i] /\ Wire[i] \in Nat /\ Wire[i] <= idle_time + Delay
        BY <2>1, <2>3, <4>1
      <4>3. QED
        BY <1>1, <2>2, <4>2
    <3>3. QED
      BY <3>1, <3>2
  <2>6. QED
    BY <2>1, <2>2, <2>4, <2>5 DEF WireInv
<1>3. CASE SendMessage2
  <2>1. Wire' = Wire /\ idle_time' = idle_time
    BY <1>1, <1>3, SendMessage2Wire DEF SendMessage2
  <2>2. QED
    BY <2>1 DEF WireInv
<1>4. CASE ~PutInFlight /\ ~SendMessage2
  <2>1. UNCHANGED <<in_flight, sent2>>
    <3>1. CASE Enqueue
      BY <1>1, <3>1, EnqueueMoves
    <3>2. CASE ~Enqueue
      BY <1>4, <3>2, OthersMoveNothing
    <3>3. QED
      BY <3>1, <3>2
  <2>2. Wire' = Wire
    BY <2>1 DEF Wire
  <2>3. idle_time' = idle_time
    BY <1>4 DEF Next, Scheduler, Forwarder, ReverseForwarder, ReceiveMessage1,
         CheckSpace, Enqueue, ReadClock, CheckStuff, NothingToPut, Park,
         SpuriousWakeup, ReceiveMessage2, SendMessage1, Tick, vars, schVars
  <2>4. QED
    BY <2>2, <2>3 DEF WireInv
<1>5. QED
  BY <1>2, <1>3, <1>4

\* Finish times are a serialization delay apart, no frame leaves before its
\* own, nor earlier after it was enqueued than the delays and the age of the
\* scheduler's clock allow.
THEOREM NeitherTooFastNorTooEarly == Spec => []Timing
<1>1. Init => TimingInv
  <2> SUFFICES ASSUME Init PROVE TimingInv
    OBVIOUS
  <2>1. buffer = <<>> /\ in_flight = <<>> /\ sent2 = <<>> /\ crt_time = now
        /\ schPc = "asleep" /\ now = 0
    BY DEF Init
  <2>2. Wire = <<>>
    <3>1. /\ Wire \in Seq(Nat) /\ Len(Wire) = Len(sent2) + Len(in_flight)
      BY <2>1, WireElements DEF Wire
    <3>2. QED
      BY <2>1, <3>1
  <2>3. QED
    BY <2>1, <2>2 DEF TimingInv, ClockInv, FinishInv, WireInv
<1>2. LinkInv /\ TimingInv /\ [Next]_vars => TimingInv'
  BY ClockInvStep, FinishInvStep, WireInvStep DEF TimingInv
<1>3. LinkInv /\ TimingInv => Timing
  <2> SUFFICES ASSUME LinkInv, TimingInv PROVE Timing
    OBVIOUS
  <2> USE LinkAssumption DEF LinkAssumption
  <2>1. /\ sent2 \in Seq(Sent) /\ in_flight \in Seq(InFlight)
        /\ \A r \in Sent : /\ r.finish \in Nat /\ r.at \in Nat
                          /\ r.m.enq \in Nat
    BY DEF LinkInv, TypeOK, Sent, Frame
  <2>2. NotTooEarly
    <3> SUFFICES ASSUME NEW i \in DOMAIN sent2
                 PROVE  sent2[i].at + MaxLag
                          >= sent2[i].m.enq + SerializationDelay + Delay
      BY DEF NotTooEarly
    <3>1. sent2[i] \in Sent /\ i \in 1 .. Len(sent2)
      BY <2>1
    <3>2. LateEnough(sent2[i]) /\ sent2[i].at >= sent2[i].finish
      BY <3>1 DEF TimingInv, FinishInv
    <3>3. PICK r \in Sent : r = sent2[i]
      BY <3>1
    <3>4. r.finish \in Nat /\ r.at \in Nat /\ r.m.enq \in Nat
      BY <2>1
    <3>5. r.at + MaxLag >= r.m.enq + SerializationDelay + Delay
      BY <3>2, <3>3, <3>4 DEF LateEnough
    <3>6. QED
      BY <3>3, <3>5
  <2>3. RateLimit
    <3>1. Wire \in Seq(Nat)
      BY <2>1, WireElements DEF Wire
    <3>2. \A i \in DOMAIN Wire \ {1} : Wire[i] >= Wire[i - 1] + SerializationDelay
      BY <3>1 DEF TimingInv, WireInv
    <3>3. \A i \in DOMAIN sent2 : sent2[i].at >= sent2[i].finish
      BY <2>1 DEF TimingInv, FinishInv
    <3>4. QED
      BY <3>2, <3>3 DEF RateLimit, Wire
  <2>4. QED
    BY <2>2, <2>3 DEF Timing
<1>4. QED
  BY <1>1, <1>2, <1>3, LinkInvariant, PTL DEF Spec

-----------------------------------------------------------------------------
(* The forward direction implements the abstract channel.                  *)

LEMMA ContentsOfSeq ==
  ASSUME NEW s \in Seq(Frame)
  PROVE  /\ Contents(s) \in Seq([id : 2..MaxFrames, intact : BOOLEAN])
         /\ Len(Contents(s)) = Len(s)
         /\ \A i \in 1 .. Len(s) : Contents(s)[i] = Content(s[i])
<1> DEFINE C == [id : 2..MaxFrames, intact : BOOLEAN]
<1>1. \A f \in Frame : Content(f) \in C
  BY DEF Content, Frame
<1> HIDE DEF C
<1>2. /\ Contents(s) \in Seq(C) /\ Len(Contents(s)) = Len(s)
      /\ \A i \in 1 .. Len(s) : Contents(s)[i] = Content(s[i])
  BY <1>1 DEF Contents
<1>3. QED
  BY <1>2 DEF C

LEMMA ContentsAppend ==
  ASSUME NEW s \in Seq(Frame), NEW f \in Frame
  PROVE  Contents(Append(s, f)) = Append(Contents(s), Content(f))
<1> DEFINE C == [id : 2..MaxFrames, intact : BOOLEAN]
<1>1. /\ Append(s, f) \in Seq(Frame) /\ Len(Append(s, f)) = Len(s) + 1
      /\ \A i \in 1 .. Len(s) : Append(s, f)[i] = s[i]
      /\ Append(s, f)[Len(s) + 1] = f
  BY AppendProperties
<1>2. /\ Contents(s) \in Seq(C) /\ Len(Contents(s)) = Len(s)
      /\ \A i \in 1 .. Len(s) : Contents(s)[i] = Content(s[i])
  BY ContentsOfSeq
<1>3. /\ Contents(Append(s, f)) \in Seq(C)
      /\ Len(Contents(Append(s, f))) = Len(s) + 1
      /\ \A i \in 1 .. Len(s) + 1 :
           Contents(Append(s, f))[i] = Content(Append(s, f)[i])
  BY <1>1, ContentsOfSeq
<1>4. Content(f) \in C
  BY DEF Content, Frame
<1>5. /\ Append(Contents(s), Content(f)) \in Seq(C)
      /\ Len(Append(Contents(s), Content(f))) = Len(s) + 1
      /\ \A i \in 1 .. Len(s) : Append(Contents(s), Content(f))[i] = Content(s[i])
      /\ Append(Contents(s), Content(f))[Len(s) + 1] = Content(f)
  BY <1>2, <1>4, AppendProperties
<1>6. ASSUME NEW i \in 1 .. Len(s) + 1
      PROVE  Contents(Append(s, f))[i] = Append(Contents(s), Content(f))[i]
  BY <1>1, <1>3, <1>5, LenProperties
<1> HIDE DEF C
<1>7. QED
  BY <1>3, <1>5, <1>6, SeqEqual

LEMMA ContentsTail ==
  ASSUME NEW s \in Seq(Frame), s # <<>>
  PROVE  /\ Contents(s) # <<>>
         /\ Contents(Tail(s)) = Tail(Contents(s))
         /\ Content(Head(s)) = Head(Contents(s))
<1> DEFINE C == [id : 2..MaxFrames, intact : BOOLEAN]
<1>1. /\ Tail(s) \in Seq(Frame) /\ Len(Tail(s)) = Len(s) - 1
      /\ \A i \in 1 .. Len(Tail(s)) : Tail(s)[i] = s[i + 1]
      /\ Len(s) \in Nat \ {0}
  BY HeadTailProperties, EmptySeq
<1>2. /\ Contents(s) \in Seq(C) /\ Len(Contents(s)) = Len(s)
      /\ \A i \in 1 .. Len(s) : Contents(s)[i] = Content(s[i])
  BY ContentsOfSeq
<1>3. /\ Contents(Tail(s)) \in Seq(C)
      /\ Len(Contents(Tail(s))) = Len(s) - 1
      /\ \A i \in 1 .. Len(s) - 1 : Contents(Tail(s))[i] = Content(s[i + 1])
  <2>1. /\ Contents(Tail(s)) \in Seq(C)
        /\ Len(Contents(Tail(s))) = Len(Tail(s))
        /\ \A i \in 1 .. Len(Tail(s)) : Contents(Tail(s))[i] = Content(Tail(s)[i])
    BY <1>1, ContentsOfSeq
  <2>2. QED
    BY <1>1, <2>1
<1> HIDE DEF C
<1>4. Contents(s) # <<>>
  BY <1>1, <1>2
<1>5. /\ Tail(Contents(s)) \in Seq(C)
      /\ Len(Tail(Contents(s))) = Len(s) - 1
      /\ \A i \in 1 .. Len(s) - 1 : Tail(Contents(s))[i] = Content(s[i + 1])
  BY <1>1, <1>2, <1>4, HeadTailProperties
<1>6. Contents(Tail(s)) = Tail(Contents(s))
  BY <1>3, <1>5, SeqEqual
<1>7. Content(Head(s)) = Head(Contents(s))
  BY <1>1, <1>2, <1>4
<1>8. QED
  BY <1>4, <1>6, <1>7

LEMMA ExitsAppend ==
  ASSUME NEW sent \in Seq(Sent), NEW r \in Sent
  PROVE  Exits(Append(sent, r)) = Append(Exits(sent), Leaves(r))
<1> DEFINE X == [frame : [id : 2..MaxFrames, intact : BOOLEAN], reached : BOOLEAN]
<1>1. \A q \in Sent : Leaves(q) \in X
  BY DEF Sent, Frame, Content, Leaves
<1> HIDE DEF X
<1>2. ASSUME NEW t \in Seq(Sent)
      PROVE  /\ Exits(t) \in Seq(X) /\ Len(Exits(t)) = Len(t)
             /\ \A i \in 1 .. Len(t) : Exits(t)[i] = Leaves(t[i])
  BY <1>1 DEF Exits
<1>3. /\ Append(sent, r) \in Seq(Sent) /\ Len(Append(sent, r)) = Len(sent) + 1
      /\ \A i \in 1 .. Len(sent) : Append(sent, r)[i] = sent[i]
      /\ Append(sent, r)[Len(sent) + 1] = r
  BY AppendProperties
<1>4. /\ Append(Exits(sent), Leaves(r)) \in Seq(X)
      /\ Len(Append(Exits(sent), Leaves(r))) = Len(sent) + 1
      /\ \A i \in 1 .. Len(sent) :
           Append(Exits(sent), Leaves(r))[i] = Leaves(sent[i])
      /\ Append(Exits(sent), Leaves(r))[Len(sent) + 1] = Leaves(r)
  BY <1>1, <1>2, AppendProperties
<1>5. /\ Exits(Append(sent, r)) \in Seq(X)
      /\ Len(Exits(Append(sent, r))) = Len(sent) + 1
      /\ \A i \in 1 .. Len(sent) + 1 :
           Exits(Append(sent, r))[i] = Leaves(Append(sent, r)[i])
  BY <1>2, <1>3
<1>6. ASSUME NEW i \in 1 .. Len(sent) + 1
      PROVE  Exits(Append(sent, r))[i] = Append(Exits(sent), Leaves(r))[i]
  BY <1>3, <1>4, <1>5, LenProperties
<1>7. QED
  BY <1>4, <1>5, <1>6, SeqEqual
\* Whether the process is still alive after a step that does not abort it.
LEMMA StaysAlive ==
  ASSUME LinkInv, Next, ~Park
  PROVE  (schPc # "aborted") = TRUE /\ (schPc' # "aborted") = TRUE
<1>1. schPc # "aborted"
  BY DEF Next
<1>2. schPc' # "aborted"
  <2>1. CASE PutInFlight
    BY <2>1 DEF PutInFlight, Doze
  <2>2. CASE NothingToPut
    BY <2>2 DEF NothingToPut, Doze
  <2>3. CASE ~PutInFlight /\ ~NothingToPut
    BY <1>1, <2>3
    DEF Next, Scheduler, Forwarder, ReverseForwarder, ReceiveMessage1, CheckSpace,
        Enqueue, ReadClock, SendMessage2, CheckStuff, SpuriousWakeup,
        ReceiveMessage2, SendMessage1, Tick, schVars
  <2>4. QED
    BY <2>1, <2>2, <2>3
<1>3. QED
  BY <1>1, <1>2

\* The emulator implements the abstract lossy FIFO channel: each of its steps
\* is a step of the channel or leaves the channel as it is.
THEOREM LinkImplementsChannel == Spec => Channel!ChanSpec
<1>1. Init => Channel!ChanInit
  <2> SUFFICES ASSUME Init PROVE Channel!ChanInit
    OBVIOUS
  <2>1. FramesOf(<<>>) = <<>> /\ Contents(<<>>) = <<>> /\ Exits(<<>>) = <<>>
        /\ <<>> \o <<>> = <<>>
    BY DEF FramesOf, Contents, Exits
  <2>2. (schPc # "aborted") = TRUE
    BY DEF Init
  <2>3. QED
    BY <2>1, <2>2 DEF Init, Channel!ChanInit
<1>2. LinkInv /\ [Next]_vars => [Channel!ChanNext]_Channel!chanVars
  <2> SUFFICES ASSUME LinkInv, [Next]_vars
               PROVE  [Channel!ChanNext]_Channel!chanVars
    OBVIOUS
  <2> DEFINE B == FramesOf(in_flight)
             Q == FramesOf(in_flight) \o buffer
  <2>1. TypeOK /\ B \in Seq(Frame) /\ buffer \in Seq(Frame) /\ Q \in Seq(Frame)
        /\ sent2 \in Seq(Sent)
    BY QueuesTyped, ConcatProperties DEF LinkInv
  <2>2. CASE Next /\ Enqueue
    <3>1. PICK f \in Frame : buffer' = Append(buffer, f)
                             /\ UNCHANGED <<in_flight, sent2>>
      BY <2>1, <2>2, EnqueueMoves
    <3>2. Contents(FramesOf(in_flight') \o buffer') = Append(Contents(Q), Content(f))
      <4>1. FramesOf(in_flight') \o buffer' = Append(Q, f)
        BY <2>1, <3>1, ConcatAppend
      <4>2. Contents(Append(Q, f)) = Append(Contents(Q), Content(f))
        BY <2>1, ContentsAppend
      <4>3. QED
        BY <4>1, <4>2
    <3>3. Content(f) \in [id : 2..MaxFrames, intact : BOOLEAN]
      BY DEF Content, Frame
    <3>4. (schPc # "aborted") = TRUE /\ (schPc' # "aborted") = TRUE
      BY <2>2, StaysAlive DEF Enqueue, Park
    <3>5. UNCHANGED <<Exits(sent2), link_up2>>
      BY <2>2, <3>1 DEF Enqueue
    <3>6. Channel!Accept(Content(f))
      BY <3>2, <3>4, <3>5 DEF Channel!Accept
    <3>7. QED
      BY <3>3, <3>4, <3>6 DEF Channel!ChanNext
  <2>3. CASE Next /\ PutInFlight
    <3>1. FramesOf(in_flight') \o buffer' = Q /\ UNCHANGED sent2
      BY <2>3, PutInFlightMoves
    <3>2. (schPc # "aborted") = TRUE /\ (schPc' # "aborted") = TRUE
      BY <2>3, StaysAlive DEF PutInFlight, Park
    <3>3. UNCHANGED <<Exits(sent2), link_up2>>
      BY <2>3, <3>1 DEF PutInFlight
    <3>4. QED
      BY <3>1, <3>2, <3>3 DEF Channel!chanVars
  <2>4. CASE Next /\ SendMessage2
    <3> DEFINE mif == Head(in_flight)
               r == [m |-> mif.m, finish |-> mif.finish, at |-> now, up |-> link_up2]
    <3>1. /\ B # <<>> /\ FramesOf(in_flight') = Tail(B) /\ UNCHANGED buffer
      BY <2>1, <2>4, SendMessage2Moves
    <3>2. mif \in InFlight /\ mif.m = Head(B) /\ r \in Sent
      <4>1. in_flight # <<>> /\ mif \in InFlight
        BY <2>4 DEF SendMessage2, Due, LinkInv, TypeOK
      <4>2. mif.m = Head(B)
        BY <2>1, <4>1, QueuesTyped, FramesOfTail
      <4>3. QED
        BY <4>1, <4>2 DEF InFlight, Sent, LinkInv, TypeOK
    <3>3. Q # <<>> /\ Head(Q) = Head(B) /\ Tail(Q) = Tail(B) \o buffer
      BY <2>1, <3>1, HeadTailConcat
    <3>4. /\ Contents(Q) # <<>> /\ Content(Head(B)) = Head(Contents(Q))
          /\ Contents(FramesOf(in_flight') \o buffer') = Tail(Contents(Q))
      BY <2>1, <3>1, <3>3, ContentsTail
    <3>5. Exits(sent2') = Append(Exits(sent2), Leaves(r))
      BY <2>1, <2>4, <3>2, ExitsAppend DEF SendMessage2
    <3>6. Leaves(r) = [frame |-> Head(Contents(Q)), reached |-> link_up2]
      BY <3>2, <3>4 DEF Leaves
    <3>7. (schPc # "aborted") = TRUE /\ (schPc' # "aborted") = TRUE
      BY <2>4, StaysAlive DEF SendMessage2, Park
    <3>8. link_up2' = link_up2
      BY <2>4 DEF SendMessage2
    <3>9. Channel!Exit
      BY <3>4, <3>5, <3>6, <3>7, <3>8 DEF Channel!Exit
    <3>10. QED
      BY <3>7, <3>9 DEF Channel!ChanNext
  <2>5. CASE Next /\ Park
    <3>1. UNCHANGED <<in_flight, buffer, sent2, link_up2>>
      BY <2>5 DEF Park
    <3>2. UNCHANGED <<Contents(Q), Exits(sent2), link_up2>>
      BY <3>1
    <3>3. (schPc # "aborted") = TRUE
      BY <2>5 DEF Next
    <3>4. CASE schPc' = "waiting"
      <4>1. (schPc' # "aborted") = TRUE
        BY <3>4
      <4>2. QED
        BY <3>2, <3>3, <4>1 DEF Channel!chanVars
    <3>5. CASE schPc' = "aborted"
      <4>1. (schPc' # "aborted") = FALSE
        BY <3>5
      <4>2. QED
        BY <3>2, <3>3, <4>1 DEF Channel!ChanNext, Channel!Stop
    <3>6. QED
      BY <2>5, <3>4, <3>5 DEF Park
  <2>6. CASE Next /\ ReceiveMessage2
    <3>1. UNCHANGED <<Contents(Q), Exits(sent2)>> /\ link_up2' = TRUE
      <4>1. UNCHANGED <<in_flight, buffer, sent2>> /\ link_up2' = TRUE
        BY <2>6 DEF ReceiveMessage2, schVars
      <4>2. QED
        BY <4>1
    <3>2. (schPc # "aborted") = TRUE /\ (schPc' # "aborted") = TRUE
      BY <2>6, StaysAlive DEF ReceiveMessage2, Park, schVars
    <3>3. CASE link_up2
      BY <2>1, <3>1, <3>2, <3>3 DEF Channel!chanVars, TypeOK
    <3>4. CASE ~link_up2
      BY <3>1, <3>2, <3>4 DEF Channel!ChanNext, Channel!Register
    <3>5. QED
      BY <3>3, <3>4
  <2>7. CASE /\ Next /\ ~Enqueue /\ ~PutInFlight /\ ~SendMessage2 /\ ~Park
             /\ ~ReceiveMessage2
    <3>1. UNCHANGED <<sent2, in_flight, buffer>>
      BY <2>7, OthersMoveNothing
    <3>2. link_up2' = link_up2
      BY <2>7 DEF Next, Scheduler, Forwarder, ReverseForwarder, ReceiveMessage1,
           CheckSpace, ReadClock, CheckStuff, NothingToPut, SpuriousWakeup,
           SendMessage1, Tick
    <3>3. (schPc # "aborted") = TRUE /\ (schPc' # "aborted") = TRUE
      BY <2>7, StaysAlive
    <3>4. QED
      BY <3>1, <3>2, <3>3 DEF Channel!chanVars
  <2>8. CASE UNCHANGED vars
    BY <2>8 DEF vars, schVars, Channel!chanVars
  <2>9. QED
    BY <2>2, <2>3, <2>4, <2>5, <2>6, <2>7, <2>8
<1>3. QED
  BY <1>1, <1>2, LinkInvariant, PTL DEF Spec, Channel!ChanSpec

-----------------------------------------------------------------------------
\* A set of natural numbers that is not empty has a smallest member.
LEMMA Smallest ==
  ASSUME NEW S \in SUBSET Nat, S # {}
  PROVE  \E f \in S : \A g \in S : f <= g
<1>1. PICK f \in S : \A g \in S : <<g, f>> \notin OpToRel(<, Nat)
  BY NatLessThanWellFounded, WFMin
<1>2. ASSUME NEW g \in S, g < f PROVE FALSE
  BY <1>1, <1>2 DEF OpToRel
<1>3. QED
  BY <1>2

-----------------------------------------------------------------------------
(* The queue in memory.                                                    *)

\* The entries in memory are those of line, each pointing at the next.
InLine(line) ==
  /\ line \in [1 .. size -> Entry]
  /\ \A j, k \in 1 .. size : line[j] = line[k] => j = k
  /\ DOMAIN heap = {line[k] : k \in 1 .. size}
  /\ heap \in [DOMAIN heap -> [crt : Elem, prev : Entry \cup {NULL}]]
  /\ \A k \in 1 .. size : heap[line[k]].prev = IF k < size THEN line[k + 1] ELSE NULL
  /\ last = IF size = 0 THEN NULL ELSE line[1]
  /\ first = IF size = 0 THEN NULL ELSE line[size]

\* The inductive invariant: no pointer dangles, none is lost, and the entries
\* form one line from last to first.
QueueInv == size \in Nat /\ \E line : InLine(line)

USE QueueAssumption DEF QueueAssumption

\* Following the pointers from last meets the entries of the line in turn.
LEMMA ChainIsLine ==
  ASSUME size \in Nat, NEW line, InLine(line)
  PROVE  \A k \in 0 .. size : Chain[k] = IF k < size THEN line[k + 1] ELSE NULL
<1> DEFINE Follow(f, k) == IF k = 0 THEN last
                         ELSE IF f[k - 1] \in DOMAIN heap THEN heap[f[k - 1]].prev ELSE NULL
           w == [k \in 0 .. size |-> IF k < size THEN line[k + 1] ELSE NULL]
<1>1. ASSUME NEW k \in 0 .. size PROVE w[k] = Follow(w, k)
  <2>1. CASE k = 0
    BY <2>1 DEF InLine
  <2>2. CASE k # 0
    <3>1. k \in 1 .. size /\ k - 1 \in 0 .. size /\ k - 1 < size /\ (k - 1) + 1 = k
      BY <2>2
    <3>2. w[k - 1] = line[k]
      BY <3>1
    <3>3. line[k] \in DOMAIN heap
      BY <3>1 DEF InLine
    <3>4. heap[line[k]].prev = w[k]
      BY <3>1 DEF InLine
    <3>5. QED
      BY <2>2, <3>2, <3>3, <3>4
  <2>3. QED
    BY <2>1, <2>2
<1>2. w = [k \in 0 .. size |-> Follow(w, k)]
  BY <1>1
<1>3. Chain = [k \in 0 .. size |-> Follow(Chain, k)]
  BY <1>2 DEF Chain
<1>4. \A k \in 0 .. size : Chain[k] = Follow(Chain, k)
  BY <1>3, Zenon
<1> DEFINE Bad == {k \in 0 .. size : Chain[k] # w[k]}
<1> HIDE DEF w
<1>5. Bad = {}
  <2> SUFFICES ASSUME Bad # {} PROVE FALSE
    OBVIOUS
  <2>1. Bad \in SUBSET Nat
    OBVIOUS
  <2>2. PICK k \in Bad : \A j \in Bad : k <= j
    BY <2>1, Smallest
  <2>3. k \in 0 .. size /\ Chain[k] # w[k]
    BY <2>2
  <2>4. k # 0
    BY <1>1, <1>4, <2>3
  <2>5. k - 1 \in 0 .. size /\ ~(k <= k - 1)
    BY <2>3, <2>4
  <2>6. Chain[k - 1] = w[k - 1]
    BY <2>2, <2>5
  <2>7. QED
    BY <1>1, <1>4, <2>3, <2>4, <2>6
<1>6. QED
  BY <1>5 DEF w

\* So what dequeue will reach is what the line holds.
LEMMA StoredOfLine ==
  size \in Nat => \A line : InLine(line) => Stored = [k \in 1 .. size |-> heap[line[k]].crt]
<1> SUFFICES ASSUME size \in Nat, NEW line, InLine(line)
             PROVE  Stored = [k \in 1 .. size |-> heap[line[k]].crt]
  OBVIOUS
<1>1. ASSUME NEW k \in 1 .. size PROVE Chain[k - 1] = line[k] /\ line[k] \in DOMAIN heap
  <2>1. k - 1 \in 0 .. size /\ k - 1 < size /\ (k - 1) + 1 = k
    OBVIOUS
  <2>2. QED
    BY <2>1, ChainIsLine DEF InLine
<1>2. QED
  BY <1>1 DEF Stored

\* The same of the next state.
LEMMA StoredOfLinePrime ==
  size' \in Nat => \A line : InLine(line)' => Stored' = [k \in 1 .. size' |-> heap'[line[k]].crt]
<1>1. (size \in Nat => \A line : InLine(line) => Stored = [k \in 1 .. size |-> heap[line[k]].crt])'
  BY StoredOfLine, PTL
<1>2. QED
  BY <1>1

\* What a line holds is a sequence of elements.
LEMMA StoredType ==
  ASSUME size \in Nat, NEW line, InLine(line)
  PROVE  /\ Stored \in Seq(Elem) /\ Len(Stored) = size
         /\ \A k \in 1 .. size : Stored[k] = heap[line[k]].crt
<1>1. Stored = [k \in 1 .. size |-> heap[line[k]].crt]
  BY StoredOfLine
<1>2. \A k \in 1 .. size : heap[line[k]].crt \in Elem
  <2>1. \A k \in 1 .. size : line[k] \in DOMAIN heap
    BY DEF InLine
  <2>2. QED
    BY <2>1 DEF InLine
<1>3. [k \in 1 .. size |-> heap[line[k]].crt] \in Seq(Elem)
  BY <1>2
<1>4. QED
  BY <1>1, <1>3

\* In memory an enqueue adds one entry and points the newest at it.
LEMMA EnqueueHeap ==
  ASSUME size \in Nat, NEW line, InLine(line), NEW m \in Elem, NEW t \in Entry \ DOMAIN heap,
         heap' = [a \in DOMAIN heap \cup {t} |->
                    IF a = t THEN [crt |-> m, prev |-> NULL]
                    ELSE IF a = first THEN [heap[a] EXCEPT !.prev = t] ELSE heap[a]],
         last' = IF first = NULL THEN t ELSE last
  PROVE  /\ DOMAIN heap' = DOMAIN heap \cup {t}
         /\ heap' \in [DOMAIN heap' -> [crt : Elem, prev : Entry \cup {NULL}]]
         /\ heap'[t] = [crt |-> m, prev |-> NULL]
         /\ \A a \in DOMAIN heap : heap'[a].crt = heap[a].crt
         /\ \A a \in DOMAIN heap : heap'[a].prev = IF a = first THEN t ELSE heap[a].prev
         /\ last' = IF size = 0 THEN t ELSE last
<1>1. first = NULL <=> size = 0
  <2>1. size # 0 => size \in 1 .. size
    OBVIOUS
  <2>2. QED
    BY <2>1 DEF InLine
<1>2. \A a \in DOMAIN heap : heap[a] \in [crt : Elem, prev : Entry \cup {NULL}]
  BY DEF InLine
<1>3. QED
  BY <1>1, <1>2

\* An enqueued element goes to the end of what the queue holds.
LEMMA EnqueueStep ==
  ASSUME QueueInv, NEW m \in Elem, enqueue(m)
  PROVE  QueueInv' /\ Fifo!Put(m)
<1>1. PICK line : InLine(line)
  BY DEF QueueInv
<1>2. size \in Nat
  BY DEF QueueInv
<1>3. PICK t \in Entry \ DOMAIN heap :
        /\ heap' = [a \in DOMAIN heap \cup {t} |->
                      IF a = t THEN [crt |-> m, prev |-> NULL]
                      ELSE IF a = first THEN [heap[a] EXCEPT !.prev = t] ELSE heap[a]]
        /\ last' = IF first = NULL THEN t ELSE last
        /\ first' = t
        /\ size' = size + 1
        /\ UNCHANGED returned
  BY DEF enqueue
<1>20. PICK longer : longer = [k \in 1 .. size + 1 |-> IF k <= size THEN line[k] ELSE t]
  OBVIOUS
<1>4. /\ DOMAIN heap' = DOMAIN heap \cup {t}
      /\ heap' \in [DOMAIN heap' -> [crt : Elem, prev : Entry \cup {NULL}]]
      /\ heap'[t] = [crt |-> m, prev |-> NULL]
      /\ \A a \in DOMAIN heap : heap'[a].crt = heap[a].crt
      /\ \A a \in DOMAIN heap : heap'[a].prev = IF a = first THEN t ELSE heap[a].prev
      /\ last' = IF size = 0 THEN t ELSE last
  BY <1>1, <1>2, <1>3, EnqueueHeap
<1>5. first' = t /\ size' = size + 1 /\ returned' = returned
  BY <1>3
<1>6. \A k \in 1 .. size : line[k] \in DOMAIN heap /\ line[k] # t
  BY <1>1, <1>3 DEF InLine
<1>7. InLine(longer)'
  <2>1. longer \in [1 .. size + 1 -> Entry]
    BY <1>20, <1>1 DEF InLine
  <2>2. \A j, k \in 1 .. size + 1 : longer[j] = longer[k] => j = k
    BY <1>20, <1>1, <1>2, <1>6 DEF InLine
  <2>3. DOMAIN heap' = {longer[k] : k \in 1 .. size + 1}
    <3>1. {longer[k] : k \in 1 .. size + 1} = {line[k] : k \in 1 .. size} \cup {t}
      BY <1>20, <1>2
    <3>2. QED
      BY <1>20, <1>1, <1>4, <3>1 DEF InLine
  <2>4. \A k \in 1 .. size + 1 :
          heap'[longer[k]].prev = IF k < size + 1 THEN longer[k + 1] ELSE NULL
    <3> SUFFICES ASSUME NEW k \in 1 .. size + 1
                 PROVE  heap'[longer[k]].prev = IF k < size + 1 THEN longer[k + 1] ELSE NULL
      OBVIOUS
    <3>1. CASE k = size + 1
      BY <1>20, <1>2, <1>4, <3>1
    <3>2. CASE k = size
      <4>1. line[k] = first /\ longer[k] = line[k] /\ longer[k + 1] = t /\ k \in 1 .. size
        BY <1>20, <1>1, <1>2, <3>2 DEF InLine
      <4>2. QED
        BY <1>20, <1>2, <1>4, <1>6, <3>2, <4>1
    <3>3. CASE k < size
      <4>1. k \in 1 .. size /\ k + 1 \in 1 .. size /\ longer[k] = line[k]
            /\ longer[k + 1] = line[k + 1] /\ size \in 1 .. size /\ k # size
        BY <1>20, <1>2, <3>3
      <4>2. line[k] # first /\ heap[line[k]].prev = line[k + 1]
        BY <1>20, <1>1, <1>2, <3>3, <4>1 DEF InLine
      <4>3. heap'[line[k]].prev = line[k + 1]
        BY <1>20, <1>4, <1>6, <4>1, <4>2
      <4>4. QED
        BY <1>20, <1>2, <3>3, <4>1, <4>3
    <3>4. QED
      BY <1>20, <1>2, <3>1, <3>2, <3>3
  <2>5. longer[size + 1] = t /\ longer[1] = (IF size = 0 THEN t ELSE line[1])
    BY <1>20, <1>2
  <2>6. last' = longer[1]
    BY <1>20, <1>1, <1>4, <2>5 DEF InLine
  <2>7. QED
    BY <1>2, <1>4, <1>5, <2>1, <2>2, <2>3, <2>4, <2>5, <2>6 DEF InLine
<1>8. size' \in Nat
  BY <1>2, <1>5
<1>9. QueueInv'
  BY <1>7, <1>8 DEF QueueInv
<1>10. Stored' = [k \in 1 .. size + 1 |-> heap'[longer[k]].crt]
  BY <1>5, <1>7, <1>8, StoredOfLinePrime
<1>11. /\ Stored \in Seq(Elem) /\ Len(Stored) = size
       /\ \A k \in 1 .. size : Stored[k] = heap[line[k]].crt
  BY <1>1, <1>2, StoredType
<1>12. Append(Stored, m) = [k \in 1 .. size + 1 |-> IF k = size + 1 THEN m ELSE heap[line[k]].crt]
  <2> DEFINE r == [k \in 1 .. size + 1 |-> IF k = size + 1 THEN m ELSE heap[line[k]].crt]
  <2>1. \A k \in 1 .. size + 1 : k # size + 1 => k \in 1 .. size /\ heap[line[k]].crt \in Elem
    BY <1>1, <1>2, <1>6 DEF InLine
  <2>2. r \in Seq(Elem) /\ Len(r) = size + 1
    BY <1>2, <2>1
  <2>3. /\ Append(Stored, m) \in Seq(Elem) /\ Len(Append(Stored, m)) = size + 1
        /\ \A k \in 1 .. size : Append(Stored, m)[k] = Stored[k]
        /\ Append(Stored, m)[size + 1] = m
    BY <1>11, AppendProperties
  <2>4. \A k \in 1 .. size + 1 : Append(Stored, m)[k] = r[k]
    BY <1>11, <2>1, <2>3
  <2> HIDE DEF r
  <2>5. Append(Stored, m) = r
    BY <2>2, <2>3, <2>4, SeqEqual
  <2>6. QED
    BY <2>5 DEF r
<1>13. ASSUME NEW k \in 1 .. size + 1
       PROVE  heap'[longer[k]].crt = IF k = size + 1 THEN m ELSE heap[line[k]].crt
  <2>1. CASE k = size + 1
    BY <1>20, <1>2, <1>4, <2>1
  <2>2. CASE k # size + 1
    <3>1. k \in 1 .. size /\ longer[k] = line[k]
      BY <1>20, <1>2, <2>2
    <3>2. QED
      BY <1>4, <1>6, <2>2, <3>1
  <2>3. QED
    BY <2>1, <2>2
<1>14. Stored' = Append(Stored, m)
  BY <1>10, <1>12, <1>13
<1>15. QED
  BY <1>5, <1>9, <1>14 DEF Fifo!Put

\* A dequeue takes the element in front, or reports that there is none.
LEMMA DequeueStep ==
  ASSUME QueueInv, dequeue
  PROVE  QueueInv' /\ (Fifo!Take \/ Fifo!TakeNothing)
<1>1. PICK line : InLine(line)
  BY DEF QueueInv
<1>2. size \in Nat
  BY DEF QueueInv
<1>3. /\ Stored \in Seq(Elem) /\ Len(Stored) = size
      /\ \A k \in 1 .. size : Stored[k] = heap[line[k]].crt
  BY <1>1, <1>2, StoredType
<1>4. CASE size = 0
  <2>1. first = NULL /\ Stored = <<>>
    BY <1>1, <1>3, <1>4 DEF InLine
  <2>2. returned' = NULL /\ UNCHANGED <<heap, first, last, size>>
    BY <2>1 DEF dequeue
  <2>3. heap' = heap /\ first' = first /\ last' = last /\ size' = size
    BY <2>2
  <2>4. InLine(line)'
    BY <1>1, <2>3 DEF InLine
  <2>5. QueueInv'
    BY <1>2, <2>3, <2>4 DEF QueueInv
  <2>6. Stored' = [k \in 1 .. size |-> heap[line[k]].crt]
    BY <1>2, <2>3, <2>4, StoredOfLinePrime
  <2>7. Stored = [k \in 1 .. size |-> heap[line[k]].crt]
    BY <1>1, <1>2, StoredOfLine
  <2>8. Fifo!TakeNothing
    BY <2>1, <2>2, <2>6, <2>7 DEF Fifo!TakeNothing
  <2>9. QED
    BY <2>5, <2>8
<1>5. CASE size # 0
  <2>1. /\ 1 \in 1 .. size /\ size \in 1 .. size
        /\ first = line[size] /\ last = line[1] /\ first # NULL /\ last \in DOMAIN heap
    BY <1>1, <1>2, <1>5 DEF InLine
  <2>2. /\ returned' = heap[last].crt
        /\ heap' = [a \in DOMAIN heap \ {last} |-> heap[a]]
        /\ size' = size - 1
        /\ IF first = last THEN first' = NULL /\ last' = NULL
                           ELSE last' = heap[last].prev /\ first' = first
    BY <2>1 DEF dequeue
  <2>3. first = last <=> size = 1
    BY <1>1, <1>2, <2>1 DEF InLine
  <2>4. heap[last].prev = IF size = 1 THEN NULL ELSE line[2]
    BY <1>1, <1>2, <1>5, <2>1 DEF InLine
  <2>20. PICK shorter : shorter = [k \in 1 .. size - 1 |-> line[k + 1]]
    OBVIOUS
  <2>5. \A k \in 1 .. size - 1 :
          k + 1 \in 1 .. size /\ line[k + 1] \in DOMAIN heap \ {last}
    <3>1. \A k \in 1 .. size - 1 : k + 1 \in 1 .. size /\ k + 1 # 1
      BY <1>2
    <3>2. \A k \in 1 .. size - 1 : line[k + 1] \in DOMAIN heap /\ line[k + 1] # line[1]
      BY <1>1, <2>1, <3>1 DEF InLine
    <3>3. QED
      BY <2>1, <3>1, <3>2
  <2>6. InLine(shorter)'
    <3>1. shorter \in [1 .. size - 1 -> Entry]
      BY <2>20, <1>1, <2>5 DEF InLine
    <3>2. \A j, k \in 1 .. size - 1 : shorter[j] = shorter[k] => j = k
      <4> SUFFICES ASSUME NEW j \in 1 .. size - 1, NEW k \in 1 .. size - 1, line[j + 1] = line[k + 1]
                   PROVE  j = k
        BY <2>20
      <4>1. j + 1 = k + 1
        BY <2>20, <1>1, <2>5 DEF InLine
      <4>2. QED
        BY <2>20, <1>2, <4>1
    <3>3. DOMAIN heap' = {shorter[k] : k \in 1 .. size - 1}
      <4>1. ASSUME NEW a \in DOMAIN heap \ {last} PROVE \E k \in 1 .. size - 1 : a = shorter[k]
        <5>1. PICK j \in 1 .. size : a = line[j]
          BY <2>20, <1>1, <4>1 DEF InLine
        <5>2. j # 1
          BY <2>20, <2>1, <4>1, <5>1
        <5>3. j - 1 \in 1 .. size - 1 /\ (j - 1) + 1 = j
          BY <2>20, <1>2, <5>2
        <5>4. a = shorter[j - 1]
          BY <2>20, <5>1, <5>3
        <5>5. QED
          BY <2>20, <5>3, <5>4
      <4>2. DOMAIN heap' = DOMAIN heap \ {last}
        BY <2>20, <2>2
      <4>3. QED
        BY <2>20, <2>5, <4>1, <4>2
    <3>4. heap' \in [DOMAIN heap' -> [crt : Elem, prev : Entry \cup {NULL}]]
      BY <2>20, <1>1, <2>2 DEF InLine
    <3>5. \A k \in 1 .. size - 1 :
            heap'[shorter[k]].prev = IF k < size - 1 THEN shorter[k + 1] ELSE NULL
      <4> SUFFICES ASSUME NEW k \in 1 .. size - 1
                   PROVE  heap'[line[k + 1]].prev = IF k < size - 1 THEN shorter[k + 1] ELSE NULL
        BY <2>20
      <4>1. heap'[line[k + 1]] = heap[line[k + 1]]
        BY <2>20, <2>2, <2>5
      <4>2. heap[line[k + 1]].prev = IF k + 1 < size THEN line[(k + 1) + 1] ELSE NULL
        BY <2>20, <1>1, <2>5 DEF InLine
      <4>3. k + 1 < size <=> k < size - 1
        BY <2>20, <1>2
      <4>4. k < size - 1 => k + 1 \in 1 .. size - 1
        BY <2>20, <1>2
      <4>5. QED
        BY <2>20, <4>1, <4>2, <4>3, <4>4
    <3>6. last' = IF size - 1 = 0 THEN NULL ELSE shorter[1]
      BY <2>20, <1>2, <1>5, <2>2, <2>3, <2>4
    <3>7. first' = IF size - 1 = 0 THEN NULL ELSE shorter[size - 1]
      BY <2>20, <1>2, <1>5, <2>1, <2>2, <2>3
    <3>8. QED
      BY <2>2, <3>1, <3>2, <3>3, <3>4, <3>5, <3>6, <3>7 DEF InLine
  <2>7. size' \in Nat
    BY <1>2, <1>5, <2>2
  <2>8. QueueInv'
    BY <2>6, <2>7 DEF QueueInv
  <2>9. Stored' = [k \in 1 .. size - 1 |-> heap'[shorter[k]].crt]
    BY <2>2, <2>6, <2>7, StoredOfLinePrime
  <2>10. Stored # <<>> /\ Head(Stored) = heap[last].crt
    BY <1>3, <1>5, <2>1
  <2>11. Tail(Stored) = [k \in 1 .. size - 1 |-> Stored[k + 1]]
    <3>1. /\ Tail(Stored) \in Seq(Elem) /\ Len(Tail(Stored)) = size - 1
          /\ \A k \in 1 .. size - 1 : Tail(Stored)[k] = Stored[k + 1]
      BY <1>3, <2>10, HeadTailProperties
    <3> DEFINE r == [k \in 1 .. size - 1 |-> Stored[k + 1]]
    <3>2. \A k \in 1 .. size - 1 : Stored[k + 1] \in Elem
      BY <1>3, <2>5
    <3>3. r \in Seq(Elem) /\ Len(r) = size - 1 /\ \A k \in 1 .. size - 1 : r[k] = Stored[k + 1]
      BY <1>2, <1>5, <3>2
    <3> HIDE DEF r
    <3>4. Tail(Stored) = r
      BY <3>1, <3>3, SeqEqual
    <3>5. QED
      BY <3>4 DEF r
  <2>12. ASSUME NEW k \in 1 .. size - 1 PROVE heap'[shorter[k]].crt = Stored[k + 1]
    <3>1. heap'[line[k + 1]] = heap[line[k + 1]]
      BY <2>2, <2>5
    <3>2. shorter[k] = line[k + 1] /\ Stored[k + 1] = heap[line[k + 1]].crt
      BY <1>3, <2>5, <2>20
    <3>3. QED
      BY <3>1, <3>2
  <2>13. Stored' = Tail(Stored)
    <3>1. [k \in 1 .. size - 1 |-> heap'[shorter[k]].crt] = [k \in 1 .. size - 1 |-> Stored[k + 1]]
      BY <2>12
    <3>2. QED
      BY <2>9, <2>11, <3>1
  <2>14. Fifo!Take
    BY <2>2, <2>10, <2>13 DEF Fifo!Take
  <2>15. QED
    BY <2>8, <2>14
<1>6. QED
  BY <1>4, <1>5

\* The empty queue is an empty sequence.
LEMMA CreateStep == create_queue => QueueInv /\ Fifo!FifoInit
<1> SUFFICES ASSUME create_queue PROVE QueueInv /\ Fifo!FifoInit
  OBVIOUS
<1> DEFINE none == [k \in 1 .. 0 |-> k]
<1>1. size = 0 /\ heap = <<>> /\ first = NULL /\ last = NULL /\ returned = NULL
  BY DEF create_queue
<1>2. InLine(none)
  BY <1>1 DEF InLine
<1>3. Stored \in Seq(Elem) /\ Len(Stored) = 0
  BY <1>1, <1>2, StoredType
<1>4. QED
  BY <1>1, <1>2, <1>3 DEF QueueInv, Fifo!FifoInit

\* Nothing else changes what the queue holds.
LEMMA QueueStutters == QueueInv /\ UNCHANGED queueVars => QueueInv' /\ UNCHANGED <<Stored, returned>>
<1> SUFFICES ASSUME QueueInv, UNCHANGED queueVars
             PROVE  QueueInv' /\ UNCHANGED <<Stored, returned>>
  OBVIOUS
<1>1. heap' = heap /\ first' = first /\ last' = last /\ size' = size /\ returned' = returned
  BY DEF queueVars
<1>2. PICK line : InLine(line)
  BY DEF QueueInv
<1>3. InLine(line)'
  BY <1>1, <1>2 DEF InLine
<1>4. size \in Nat
  BY DEF QueueInv
<1>5. QueueInv'
  BY <1>1, <1>3, <1>4 DEF QueueInv
<1>6. Stored = [k \in 1 .. size |-> heap[line[k]].crt]
  BY <1>2, <1>4, StoredOfLine
<1>7. Stored' = [k \in 1 .. size |-> heap[line[k]].crt]
  BY <1>1, <1>3, <1>4, StoredOfLinePrime
<1>8. QED
  BY <1>1, <1>5, <1>6, <1>7

\* Every step keeps the line and is one of the sequence.
LEMMA QueueStep ==
  QueueInv /\ [QueueNext]_queueVars
    => QueueInv' /\ [Fifo!FifoNext]_<<Stored, returned>>
<1> SUFFICES ASSUME QueueInv, [QueueNext]_queueVars
             PROVE  QueueInv' /\ [Fifo!FifoNext]_<<Stored, returned>>
  OBVIOUS
<1>1. ASSUME NEW m \in Elem, enqueue(m) PROVE QueueInv' /\ Fifo!FifoNext
  BY <1>1, EnqueueStep DEF Fifo!FifoNext
<1>2. ASSUME dequeue PROVE QueueInv' /\ Fifo!FifoNext
  BY <1>2, DequeueStep DEF Fifo!FifoNext
<1>3. CASE UNCHANGED queueVars
  BY <1>3, QueueStutters
<1>4. QED
  BY <1>1, <1>2, <1>3 DEF QueueNext

\* The entries in memory form one line from last to first: none is lost, none
\* is freed while a pointer of queue.c still reaches it.
THEOREM QueueIsOneLine == QueueSpec => []QueueInv
<1>1. create_queue => QueueInv
  BY CreateStep
<1>2. QueueInv /\ [QueueNext]_queueVars => QueueInv'
  BY QueueStep
<1>3. QED
  BY <1>1, <1>2, PTL DEF QueueSpec

\* The linked list of queue.c, whose entries malloc takes from any set of
\* addresses and free gives back, is a first-in first-out sequence: create_queue
\* maps to its initial state, enqueue to Put, dequeue to Take or TakeNothing.
THEOREM LinkQueueIsFifo == QueueSpec => ImplementsFifo
BY CreateStep, QueueStep, PTL DEF QueueSpec, ImplementsFifo, Fifo!FifoSpec

=============================================================================
