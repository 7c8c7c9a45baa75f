------------------------------- MODULE JobQueue -------------------------------
(***************************************************************************)
(* What the JAMS queue promises when no job is ever taken from the middle:  *)
(* a bounded first-in first-out queue.  Nothing here knows about a ring, a  *)
(* head, a tail or a lock; RtQueue and Jams are shown to implement it.      *)
(***************************************************************************)
EXTENDS Naturals, Sequences

CONSTANTS Elem,        \* what may be queued
          Capacity     \* the most elements the queue holds

VARIABLE fifo          \* the elements queued, the oldest first

JQInit == fifo = <<>>

Enqueue(e) == /\ Len(fifo) < Capacity
              /\ fifo' = Append(fifo, e)

Dequeue == /\ fifo # <<>>
           /\ fifo' = Tail(fifo)

JQNext == Dequeue \/ \E e \in Elem : Enqueue(e)

JQSpec == JQInit /\ [][JQNext]_fifo
===============================================================================
