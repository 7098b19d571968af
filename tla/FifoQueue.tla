----------------------------- MODULE FifoQueue -----------------------------
(***************************************************************************)
(* What a queue promises: a sequence, and the last element handed out.     *)
(***************************************************************************)
EXTENDS Sequences

CONSTANTS Elem, None   \* None is no element

VARIABLES q, popped    \* None: nothing handed out yet, or a failed dequeue

FifoInit == q = <<>> /\ popped = None

Put(e) == q' = Append(q, e) /\ UNCHANGED popped

Take == q # <<>> /\ popped' = Head(q) /\ q' = Tail(q)

TakeNothing == q = <<>> /\ popped' = None /\ UNCHANGED q

FifoNext == (\E e \in Elem : Put(e)) \/ Take \/ TakeNothing

FifoSpec == FifoInit /\ [][FifoNext]_<<q, popped>>
=============================================================================
