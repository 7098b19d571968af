----------------------------- MODULE LinkQueue -----------------------------
(***************************************************************************)
(* The queue of the link emulator (3lab/link_emulator/queue.c) as it lies  *)
(* in memory: each entry points at the one enqueued after it (prev); first *)
(* is the end that grows, last the end that is dequeued.  The callers hold *)
(* a lock or own the queue, so an operation is one step.                   *)
(***************************************************************************)
EXTENDS Integers

CONSTANTS
  Elem,      \* the void pointers that are stored
  Entry,     \* bound: the addresses malloc may return
  NULL

ASSUME QueueAssumption == NULL \notin Entry /\ NULL \notin Elem

VARIABLES
  heap,                \* allocated entries: address -> [crt, prev]
  first, last, size,
  returned             \* what dequeue returned last

queueVars == <<heap, first, last, size, returned>>

create_queue ==
  /\ heap = <<>> /\ first = NULL /\ last = NULL /\ size = 0
  /\ returned = NULL

enqueue(m) ==
  \E t \in Entry \ DOMAIN heap :
    /\ heap' = [a \in DOMAIN heap \cup {t} |->
                  IF a = t THEN [crt |-> m, prev |-> NULL]
                  ELSE IF a = first THEN [heap[a] EXCEPT !.prev = t] ELSE heap[a]]
    /\ last' = IF first = NULL THEN t ELSE last
    /\ first' = t
    /\ size' = size + 1
    /\ UNCHANGED returned

\* Mistake: taking the only entry out leaves first pointing at freed memory.
dequeueForgetsFirst ==
  /\ returned' = IF last = NULL THEN NULL ELSE heap[last].crt
  /\ last' = IF last = NULL THEN NULL ELSE heap[last].prev
  /\ heap' = [a \in DOMAIN heap \ {last} |-> heap[a]]
  /\ size' = IF last = NULL THEN size ELSE size - 1
  /\ UNCHANGED first

dequeue ==
  IF first = NULL
    THEN returned' = NULL /\ UNCHANGED <<heap, first, last, size>>
    ELSE /\ IF first = last THEN first' = NULL /\ last' = NULL
                            ELSE last' = heap[last].prev /\ UNCHANGED first
         /\ returned' = heap[last].crt
         /\ heap' = [a \in DOMAIN heap \ {last} |-> heap[a]]
         /\ size' = size - 1

QueueNext == (\E m \in Elem : enqueue(m)) \/ dequeue

QueueSpec == create_queue /\ [][QueueNext]_queueVars

-----------------------------------------------------------------------------
\* The entries in the order in which dequeue will reach them.
Chain ==
  LET at[k \in 0 .. size] ==
        IF k = 0 THEN last
        ELSE IF at[k - 1] \in DOMAIN heap THEN heap[at[k - 1]].prev ELSE NULL
  IN at

\* What they hold; a dangling pointer holds nothing.
Stored ==
  [k \in 1 .. size |->
     IF Chain[k - 1] \in DOMAIN heap THEN heap[Chain[k - 1]].crt ELSE NULL]

Fifo == INSTANCE FifoQueue WITH None <- NULL, q <- Stored, popped <- returned

\* The linked entries behave as a first-in first-out sequence.
ImplementsFifo == Fifo!FifoSpec
=============================================================================
