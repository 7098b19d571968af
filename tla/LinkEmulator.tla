---------------------------- MODULE LinkEmulator ----------------------------
(***************************************************************************)
(* The link emulator of the labs (3lab/link_emulator/link.c): one process, *)
(* three threads.  run_forwarding takes the frames of host 1 and puts them *)
(* in a bounded buffer; link_scheduler moves them one per serialization    *)
(* delay to the list of frames in flight and sends each to host 2 when its *)
(* propagation delay has passed; run_reverse_forwarding relays the frames  *)
(* of host 2 to host 1 at once.                                            *)
(*                                                                         *)
(* A critical section of buffer_lock is one step, everything between two   *)
(* of them that touches thread-local state is merged with the first, and   *)
(* the clock advances between any two steps.                               *)
(***************************************************************************)
EXTENDS Integers, Sequences

CONSTANTS
  BUFFER_SIZE,          \* link.c:20
  SerializationDelay,   \* serialization_delay, in ticks
  Delay,                \* delay, in ticks
  Loss, Corrupt,        \* percentages
  MaxFrames,            \* bound: datagrams host 1 sends, the first included
  MaxReplies,           \* bound: datagrams host 2 sends, the first included
  MaxSpurious,          \* bound: wakeups of pthread_cond_wait without a signal
  MaxLag                \* bound: ticks one pass of the scheduler may take

ASSUME LinkAssumption ==
  /\ BUFFER_SIZE \in Nat /\ SerializationDelay \in Nat /\ Delay \in Nat
  /\ Loss \in 0..100 /\ Corrupt \in 0..100
  /\ MaxFrames \in Nat /\ MaxReplies \in Nat
  /\ MaxSpurious \in Nat /\ MaxLag \in Nat

VARIABLES
  now,                  \* gettimeofday
  \* link_scheduler
  schPc, crt_time, idle_time, stuff, in_flight, wakeAt, spurious,
  \* run_forwarding
  fwPc, fwMsg, received1,
  \* run_reverse_forwarding
  revMsg, received2,
  \* shared by the threads
  buffer, link_up1, link_up2,
  \* histories: frames enqueued, frames given to send_message2, send_message1
  accepted, sent2, sent1

schVars  == <<schPc, crt_time, idle_time, stuff, in_flight, wakeAt, spurious>>
fwVars   == <<fwPc, fwMsg, received1>>
revVars  == <<revMsg, received2>>
vars == <<now, schVars, fwVars, revVars, buffer, link_up1, link_up2,
          accepted, sent2, sent1>>

Frame    == [id : 2..MaxFrames, intact : BOOLEAN, enq : Nat]
InFlight == [m : Frame, finish : Nat]
Sent     == [m : Frame, finish : Nat, at : Nat, up : BOOLEAN]

NoMsg == 0

\* The outcomes of  rand() % 100 < percent.
Chance(percent) == {b \in BOOLEAN : IF b THEN percent > 0 ELSE percent < 100}

Init ==
  /\ now = 0
  /\ schPc = "asleep" /\ crt_time = 0 /\ idle_time = 0 /\ stuff = FALSE
  /\ in_flight = <<>> /\ wakeAt = 0 /\ spurious = 0
  /\ fwPc = "receive" /\ fwMsg = NoMsg /\ received1 = 0
  /\ revMsg = NoMsg /\ received2 = 0
  /\ buffer = <<>> /\ link_up1 = FALSE /\ link_up2 = FALSE
  /\ accepted = <<>> /\ sent2 = <<>> /\ sent1 = <<>>

-----------------------------------------------------------------------------
(* run_forwarding.                                                         *)

\* receive_message1: the first datagram only registers the peer's address.
ReceiveMessage1 ==
  /\ fwPc = "receive" /\ received1 < MaxFrames
  /\ received1' = received1 + 1
  /\ link_up1' = TRUE
  /\ IF link_up1 THEN fwMsg' = received1' /\ fwPc' = "check"
                 ELSE UNCHANGED <<fwMsg, fwPc>>
  /\ UNCHANGED <<now, schVars, revVars, buffer, link_up2,
                 accepted, sent2, sent1>>

\* Mistake: off by one in the overflow test.
OverflowOffByOne ==
  /\ fwPc = "check"
  /\ fwPc' = IF Len(buffer) > BUFFER_SIZE THEN "receive" ELSE "enqueue"
  /\ UNCHANGED <<now, schVars, fwMsg, received1, revVars, buffer,
                 link_up1, link_up2, accepted, sent2, sent1>>

\* The space check takes and releases the lock; the frame is enqueued later.
CheckSpace ==
  /\ fwPc = "check"
  /\ \E dropped \in Chance(Loss) :
       fwPc' = IF Len(buffer) >= BUFFER_SIZE \/ dropped
                 THEN "receive" ELSE "enqueue"
  /\ UNCHANGED <<now, schVars, fwMsg, received1, revVars, buffer,
                 link_up1, link_up2, accepted, sent2, sent1>>

\* Enqueue and pthread_cond_signal, under the lock.  A signal that finds
\* nobody in pthread_cond_wait is lost.
Enqueue ==
  /\ fwPc = "enqueue"
  /\ \E damaged \in Chance(Corrupt) :
       LET f == [id |-> fwMsg, intact |-> ~damaged, enq |-> now]
       IN /\ buffer' = Append(buffer, f)
          /\ accepted' = Append(accepted, f)
  /\ IF schPc = "waiting" THEN schPc' = "asleep" /\ wakeAt' = now
                          ELSE UNCHANGED <<schPc, wakeAt>>
  /\ fwPc' = "receive"
  /\ UNCHANGED <<now, crt_time, idle_time, stuff, in_flight, spurious, fwMsg, received1,
                 revVars, link_up1, link_up2, sent2, sent1>>

-----------------------------------------------------------------------------
(* link_scheduler.                                                         *)

\* The top of the loop: the clock is read once per pass.
ReadClock ==
  /\ schPc = "asleep" /\ now >= wakeAt
  /\ crt_time' = now
  /\ schPc' = "drain"
  /\ UNCHANGED <<now, idle_time, stuff, in_flight, wakeAt, spurious, fwVars, revVars,
                 buffer, link_up1, link_up2, accepted, sent2, sent1>>

Due == in_flight # <<>> /\ Head(in_flight).finish <= crt_time

\* Mistake: the list of frames in flight is emptied from the wrong end.
SendsYoungest ==
  /\ schPc = "drain" /\ Due
  /\ LET mif == in_flight[Len(in_flight)]
     IN sent2' = Append(sent2, [m |-> mif.m, finish |-> mif.finish,
                                at |-> now, up |-> link_up2])
  /\ in_flight' = SubSeq(in_flight, 1, Len(in_flight) - 1)
  /\ UNCHANGED <<now, schPc, crt_time, idle_time, stuff, wakeAt, spurious,
                 fwVars, revVars, buffer, link_up1, link_up2, accepted, sent1>>

\* Mistake: send_message2 looks at the address of the wrong host.
ChecksWrongPeer ==
  /\ schPc = "drain" /\ Due
  /\ LET mif == Head(in_flight)
     IN sent2' = Append(sent2, [m |-> mif.m, finish |-> mif.finish,
                                at |-> now, up |-> link_up1])
  /\ in_flight' = Tail(in_flight)
  /\ UNCHANGED <<now, schPc, crt_time, idle_time, stuff, wakeAt, spurious,
                 fwVars, revVars, buffer, link_up1, link_up2, accepted, sent1>>

\* send_message2 needs the address host 2 registered.
SendMessage2 ==
  /\ schPc = "drain" /\ Due
  /\ LET mif == Head(in_flight)
     IN sent2' = Append(sent2, [m |-> mif.m, finish |-> mif.finish,
                                at |-> now, up |-> link_up2])
  /\ in_flight' = Tail(in_flight)
  /\ UNCHANGED <<now, schPc, crt_time, idle_time, stuff, wakeAt, spurious, fwVars,
                 revVars, buffer, link_up1, link_up2, accepted, sent1>>

CheckStuff ==
  /\ schPc = "drain" /\ ~Due
  /\ stuff' \in BOOLEAN /\ (stuff' <=> Len(buffer) > 0)
  /\ schPc' = "take"
  /\ UNCHANGED <<now, crt_time, idle_time, in_flight, wakeAt, spurious, fwVars, revVars,
                 buffer, link_up1, link_up2, accepted, sent2, sent1>>

\* The sleep at the bottom of the loop, from the values the pass leaves.
WaitTimeIdle(idle) == idle - crt_time
WaitTimeSend(flight) ==
  IF flight = <<>> THEN 0 ELSE Head(flight).finish - crt_time

WaitTime(idle, flight) ==
  LET w == IF WaitTimeIdle(idle) > 0 THEN WaitTimeIdle(idle) ELSE 0
      s == WaitTimeSend(flight)
  IN IF s > 0 /\ s < w THEN s ELSE w

Doze(idle, flight) ==
  IF WaitTimeIdle(idle) > 0 \/ WaitTimeSend(flight) > 0
    THEN schPc' = "asleep" /\ wakeAt' = now + WaitTime(idle, flight)
    ELSE schPc' = "park" /\ UNCHANGED wakeAt

\* Mistake: the serialization delay is left out of the finish time.
PutsUnserialized ==
  /\ schPc = "take" /\ stuff /\ crt_time >= idle_time
  /\ idle_time' = crt_time + SerializationDelay
  /\ in_flight' = Append(in_flight,
       [m |-> Head(buffer), finish |-> crt_time + Delay])
  /\ buffer' = Tail(buffer)
  /\ Doze(idle_time', in_flight')
  /\ UNCHANGED <<now, crt_time, stuff, spurious, fwVars, revVars, link_up1,
                 link_up2, accepted, sent2, sent1>>

\* Puts one frame on the wire if the wire is idle, then sleeps or parks.
PutInFlight ==
  /\ schPc = "take" /\ stuff /\ crt_time >= idle_time
  /\ idle_time' = crt_time + SerializationDelay
  /\ in_flight' = Append(in_flight,
       [m |-> Head(buffer), finish |-> crt_time + SerializationDelay + Delay])
  /\ buffer' = Tail(buffer)
  /\ Doze(idle_time', in_flight')
  /\ UNCHANGED <<now, crt_time, stuff, spurious, fwVars, revVars, link_up1, link_up2,
                 accepted, sent2, sent1>>

NothingToPut ==
  /\ schPc = "take" /\ ~(stuff /\ crt_time >= idle_time)
  /\ Doze(idle_time, in_flight)
  /\ UNCHANGED <<now, crt_time, idle_time, stuff, in_flight, spurious, fwVars, revVars,
                 buffer, link_up1, link_up2, accepted, sent2, sent1>>

\* Mistake: compiled without the assertion, the scheduler goes to sleep on a
\* frame whose signal it has missed.
ParkUnchecked ==
  /\ schPc = "park" /\ schPc' = "waiting"
  /\ UNCHANGED <<now, crt_time, idle_time, stuff, in_flight, wakeAt, spurious,
                 fwVars, revVars, buffer, link_up1, link_up2, accepted, sent2,
                 sent1>>

\* assert(!buffer->size), then pthread_cond_wait: a failed assertion aborts
\* the whole process.
Park ==
  /\ schPc = "park"
  /\ schPc' = IF buffer = <<>> THEN "waiting" ELSE "aborted"
  /\ UNCHANGED <<now, crt_time, idle_time, stuff, in_flight, wakeAt, spurious, fwVars,
                 revVars, buffer, link_up1, link_up2, accepted, sent2, sent1>>

\* pthread_cond_wait may return without a signal.
SpuriousWakeup ==
  /\ schPc = "waiting" /\ spurious < MaxSpurious
  /\ spurious' = spurious + 1
  /\ schPc' = "asleep" /\ wakeAt' = now
  /\ UNCHANGED <<now, crt_time, idle_time, stuff, in_flight, fwVars, revVars,
                 buffer, link_up1, link_up2, accepted, sent2, sent1>>

-----------------------------------------------------------------------------
(* run_reverse_forwarding: no delay, no loss.                              *)

ReceiveMessage2 ==
  /\ revMsg = NoMsg /\ received2 < MaxReplies
  /\ received2' = received2 + 1
  /\ link_up2' = TRUE
  /\ revMsg' = IF link_up2 THEN received2' ELSE NoMsg
  /\ UNCHANGED <<now, schVars, fwVars, buffer, link_up1, accepted, sent2, sent1>>

SendMessage1 ==
  /\ revMsg # NoMsg
  /\ sent1' = Append(sent1, [id |-> revMsg, up |-> link_up1])
  /\ revMsg' = NoMsg
  /\ UNCHANGED <<now, schVars, fwVars, received2, buffer, link_up1, link_up2,
                 accepted, sent2>>

-----------------------------------------------------------------------------
\* Time passes unless the scheduler is blocked on the condition (nothing is
\* due then) or has already taken MaxLag ticks over its current step.
Tick ==
  /\ schPc # "waiting"
  /\ now < MaxLag + (IF schPc = "asleep" THEN wakeAt ELSE crt_time)
  /\ now' = now + 1
  /\ UNCHANGED <<schVars, fwVars, revVars, buffer, link_up1, link_up2,
                 accepted, sent2, sent1>>

Scheduler == ReadClock \/ SendMessage2 \/ CheckStuff \/ PutInFlight
               \/ NothingToPut \/ Park \/ SpuriousWakeup
Forwarder == ReceiveMessage1 \/ CheckSpace \/ Enqueue
ReverseForwarder == ReceiveMessage2 \/ SendMessage1

Next == schPc # "aborted" /\ (Scheduler \/ Forwarder \/ ReverseForwarder \/ Tick)

Spec == Init /\ [][Next]_vars

\* Each thread is scheduled and the clock runs; a spurious wakeup is never
\* owed to anyone.
FairSpec ==
  /\ Spec
  /\ WF_vars(schPc # "aborted" /\ (ReadClock \/ SendMessage2 \/ CheckStuff
                                     \/ PutInFlight \/ NothingToPut \/ Park))
  /\ WF_vars(schPc # "aborted" /\ (CheckSpace \/ Enqueue))
  /\ WF_vars(schPc # "aborted" /\ SendMessage1)
  /\ WF_vars(schPc # "aborted" /\ Tick)

-----------------------------------------------------------------------------
(* Correctness.                                                            *)

SchPcs == {"asleep", "drain", "take", "park", "waiting", "aborted"}
FwPcs  == {"receive", "check", "enqueue"}

\* Every variable keeps to its domain; the first datagram of a host, which
\* only registers it, is never in the hands of a thread.
TypeOK ==
  /\ now \in Nat /\ crt_time \in Nat /\ idle_time \in Nat /\ wakeAt \in Nat
  /\ spurious \in 0..MaxSpurious
  /\ schPc \in SchPcs /\ stuff \in BOOLEAN
  /\ in_flight \in Seq(InFlight) /\ buffer \in Seq(Frame)
  /\ fwPc \in FwPcs /\ received1 \in 0..MaxFrames
  /\ fwMsg \in {NoMsg} \cup 2..MaxFrames /\ (fwPc # "receive" => fwMsg # NoMsg)
  /\ revMsg \in {NoMsg} \cup 2..MaxReplies /\ received2 \in 0..MaxReplies
  /\ link_up1 \in BOOLEAN /\ (link_up1 <=> received1 > 0)
  /\ link_up2 \in BOOLEAN /\ (link_up2 <=> received2 > 0)
  /\ accepted \in Seq(Frame) /\ sent2 \in Seq(Sent)
  /\ sent1 \in Seq([id : 2..MaxReplies, up : BOOLEAN])

\* The frames of a sequence of records that carry one in field m.
FramesOf(seq) == [i \in DOMAIN seq |-> seq[i].m]

\* Between the three threads no accepted frame is lost, duplicated or
\* overtaken: what was enqueued is, in order, what was given to
\* send_message2, then what is in flight, then what is buffered.
Conservation ==
  accepted = FramesOf(sent2) \o FramesOf(in_flight) \o buffer

\* The overflow check and the enqueue are two critical sections; the buffer
\* keeps to BUFFER_SIZE because nobody else adds a frame in between.
BufferBound ==
  /\ Len(buffer) <= BUFFER_SIZE
  /\ fwPc = "enqueue" => Len(buffer) < BUFFER_SIZE

\* The look at buffer->size and the dequeue are two critical sections; what the
\* first saw is still there for the second, so that assert(mif->m) holds
\* (link.c:242), because only the scheduler takes frames out.
StuffStillThere == schPc = "take" /\ stuff => buffer # <<>>

\* What a thread saw in one critical section holds in the next.
ChecksStillHold == BufferBound /\ StuffStillThere

\* What the scheduler knows of its list at each place of a pass; with it the
\* type invariant is inductive.
SchedulerInv ==
  /\ StuffStillThere
  /\ schPc = "take" /\ in_flight # <<>> => Head(in_flight).finish > crt_time
  /\ schPc \in {"park", "waiting"} /\ SerializationDelay + Delay > 0
       => in_flight = <<>>
  /\ schPc = "waiting" => buffer = <<>>

\* A scheduler blocked in pthread_cond_wait has left nothing behind: no
\* buffered frame whose signal it missed and no frame still to be sent.
ParkedMeansDrained == schPc = "waiting" => buffer = <<>> /\ in_flight = <<>>

\* The link keeps to its speed: finish times of successive frames, sent or in
\* flight, are a serialization delay apart and no frame is sent before its own.
RateLimit ==
  LET wire == [i \in DOMAIN sent2 |-> sent2[i].finish]
                \o [i \in DOMAIN in_flight |-> in_flight[i].finish]
  IN /\ \A i \in DOMAIN wire \ {1} : wire[i] >= wire[i - 1] + SerializationDelay
     /\ \A i \in DOMAIN sent2 : sent2[i].at >= sent2[i].finish

\* A frame leaves at the earliest SerializationDelay + Delay after it was
\* enqueued, less the staleness of the crt_time the scheduler used for it.
NotTooEarly ==
  \A i \in DOMAIN sent2 :
    sent2[i].at + MaxLag >= sent2[i].m.enq + SerializationDelay + Delay

\* The link is neither faster than its speed nor its delay allow.
Timing == RateLimit /\ NotTooEarly

\* The assertion at link.c:272: when the scheduler has nothing to wait for it
\* believes the buffer to be empty.
AssertBufferEmpty == schPc # "aborted"

-----------------------------------------------------------------------------
(* The forward direction implements the abstract channel.                  *)

\* What a host can see of a frame: not when it was enqueued.
Content(f) == [id |-> f.id, intact |-> f.intact]

Contents(seq) == [i \in DOMAIN seq |-> Content(seq[i])]

Leaves(r) == [frame |-> Content(r.m), reached |-> r.up]

Exits(sent) == [i \in DOMAIN sent |-> Leaves(sent[i])]

Channel == INSTANCE LinkChannel WITH
  Frame  <- [id : 2..MaxFrames, intact : BOOLEAN],
  wire   <- Contents(FramesOf(in_flight) \o buffer),
  out    <- Exits(sent2),
  peerUp <- link_up2,
  alive  <- schPc # "aborted"

\* The emulator is a lossy FIFO channel that empties itself while alive.
ImplementsChannel == Channel!ChanFairSpec
=============================================================================
