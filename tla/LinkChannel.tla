---------------------------- MODULE LinkChannel ----------------------------
(***************************************************************************)
(* What the link emulator promises to the two programs it connects, in the *)
(* direction it emulates: a first-in first-out channel that may lose or    *)
(* damage a frame on entry, that never reorders or duplicates, that has    *)
(* nobody to deliver to until the far peer has spoken once, and that may   *)
(* stop for good.                                                          *)
(***************************************************************************)
EXTENDS Sequences

CONSTANT Frame     \* what the channel carries

VARIABLES
  wire,    \* frames accepted and not yet out, oldest first
  out,     \* frames that left, in order, and whether they reached the peer
  peerUp,  \* the far peer's address is known
  alive    \* the emulator has not stopped

chanVars == <<wire, out, peerUp, alive>>

ChanInit == wire = <<>> /\ out = <<>> /\ peerUp = FALSE /\ alive = TRUE

Accept(f) == /\ wire' = Append(wire, f)
             /\ UNCHANGED <<out, peerUp, alive>>

\* A frame that gets to the exit while no peer is registered vanishes there.
Exit == /\ wire # <<>>
        /\ out' = Append(out, [frame |-> Head(wire), reached |-> peerUp])
        /\ wire' = Tail(wire)
        /\ UNCHANGED <<peerUp, alive>>

Register == /\ ~peerUp /\ peerUp' = TRUE
            /\ UNCHANGED <<wire, out, alive>>

Stop == /\ alive' = FALSE
        /\ UNCHANGED <<wire, out, peerUp>>

ChanNext == /\ alive
            /\ \/ \E f \in Frame : Accept(f)
               \/ Exit \/ Register \/ Stop

ChanSpec == ChanInit /\ [][ChanNext]_chanVars

\* As long as it is alive the channel empties itself: an accepted frame
\* does not stay inside for ever.
ChanFairSpec == ChanSpec /\ WF_chanVars(alive /\ Exit)
=============================================================================
