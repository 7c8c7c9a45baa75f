-------------------------------- MODULE RtQueue --------------------------------
(***************************************************************************)
(* rtqueue_t: the ring of job pointers the submitter and the workers share, *)
(* and the operations on it.  Every operation runs with pq->mtx held, so    *)
(* each is one step; who holds the mutex is the business of module Jams.    *)
(* A job pointer is an element of Elem, a null pointer is NULL.             *)
(***************************************************************************)
EXTENDS Integers, Sequences

CONSTANTS MAX_SIZE,         \* slots of the ring
          push_drop_size,   \* above this many jobs a push may be dismissed
          Elem,             \* the job pointers that are ever pushed
          NULL              \* the null pointer

ASSUME QueueAssumption == /\ MAX_SIZE \in Nat \ {0}
                          /\ push_drop_size \in Int   \* read with %d, unchecked
                          /\ NULL \notin Elem

VARIABLES elems, head, tail, size

qvars == <<elems, head, tail, size>>

Slots == 0 .. MAX_SIZE - 1

\* The slot of the n-th queued element, counted from 0 at the tail.
Slot(n) == (tail + n) % MAX_SIZE

Queued == {elems[Slot(n)] : n \in 0 .. size - 1}

\* The queued elements, the oldest first.
Contents == [k \in 1 .. size |-> elems[Slot(k - 1)]]

-------------------------------------------------------------------------------
\* q is a global, so elems starts zeroed; rtq_init() clears the three indices.
rtq_init == /\ elems = [s \in Slots |-> NULL]
            /\ head = 0 /\ tail = 0 /\ size = 0

\* The push stores p_elem at the head (rtq_push returns 1).
PushAccepted(p_elem) ==
    /\ size # MAX_SIZE
    /\ elems' = [elems EXCEPT ![head] = p_elem]
    /\ head' = (head + 1) % MAX_SIZE
    /\ size' = size + 1
    /\ UNCHANGED tail

\* A full ring refuses every push (rtq_push returns 0).
PushFull == size = MAX_SIZE /\ UNCHANGED qvars

\* Above push_drop_size the push is dismissed when rand() says so; the
\* probability (size - push_drop_size) / (MAX_SIZE - push_drop_size) is
\* strictly between 0 and 1 here, so either way is possible.
PushDismissed == /\ size # MAX_SIZE
                 /\ size > push_drop_size
                 /\ UNCHANGED qvars

PushRefused == PushFull \/ PushDismissed

rtq_push(p_elem) == PushAccepted(p_elem) \/ PushRefused

-------------------------------------------------------------------------------
rtq_peekn_nosync(n) == IF size <= n THEN NULL ELSE elems[Slot(n)]

\* Faulty: the tail stays where it is.
TailStays == /\ size' = size - 1
             /\ UNCHANGED <<tail, head>>

\* Both pops advance the tail over one slot and forget nothing else.
DropTailSlot == /\ tail' = (tail + 1) % MAX_SIZE
                /\ size' = size - 1
                /\ UNCHANGED head

\* Faulty: the youngest element goes first.
PopYoungest == /\ size # 0
               /\ head' = (head + MAX_SIZE - 1) % MAX_SIZE
               /\ size' = size - 1
               /\ UNCHANGED <<elems, tail>>

\* Take the oldest element; it is elems[tail] before the step.
rtq_pop_nosync == /\ size # 0
                  /\ UNCHANGED elems
                  /\ DropTailSlot

\* Faulty: the copies stop one slot short of the tail.
ShiftedShort(n) ==
    [s \in Slots |-> IF \E k \in 1 .. n - 1 : s = Slot(k) THEN elems[Slot(n)]
                                                          ELSE elems[s]]

\* One pass of popn's loop, elems[(i-1) % MAX_SIZE] = elems[i % MAX_SIZE], on the array a.
CopyDown(a, i) == [a EXCEPT ![(i - 1) % MAX_SIZE] = a[i % MAX_SIZE]]

\* The elements in the slots of positions 0 .. n-1 after popn's loop.  It runs
\* i from tail+n down to tail+1 and copies elems[i] over elems[i-1]: the first
\* copy puts the n-th element over its predecessor and every later copy passes
\* that same element on.
ShiftedOver(n) ==
    [s \in Slots |-> IF \E k \in 0 .. n - 1 : s = Slot(k) THEN elems[Slot(n)]
                                                          ELSE elems[s]]

\* Take the n-th element; it is rtq_peekn_nosync(n) before the step.
rtq_popn_nosync(n) == /\ size > n
                      /\ elems' = ShiftedOver(n)
                      /\ DropTailSlot

-------------------------------------------------------------------------------
\* The queue alone: any client that holds the mutex may do any of these.
QNext == \/ \E p_elem \in Elem : rtq_push(p_elem)
         \/ rtq_pop_nosync
         \/ \E n \in 0 .. MAX_SIZE - 1 : rtq_popn_nosync(n)

QSpec == rtq_init /\ [][QNext]_qvars

\* The queue as it is used when pop_feasible_jobs is 0: only the oldest goes.
QHeadNext == \/ \E p_elem \in Elem : rtq_push(p_elem)
             \/ rtq_pop_nosync

QHeadSpec == rtq_init /\ [][QHeadNext]_qvars

-------------------------------------------------------------------------------
QTypeOK == /\ elems \in [Slots -> Elem \cup {NULL}]
           /\ head \in Slots
           /\ tail \in Slots
           /\ size \in 0 .. MAX_SIZE

\* The three indices agree, and no slot between tail and head is empty: a
\* peek inside the queue never sees the null pointer that rtq_pop_dl_nosync()
\* asserts it does not see (rtqueue.c:197).
RingShape == /\ head = (tail + size) % MAX_SIZE
             /\ \A n \in 0 .. size - 1 : elems[Slot(n)] \in Elem

\* Taking the n-th job leaves the ones behind it where a scan that stays at
\* index n finds them next, in order and across the end of the array
\* (rtqueue.c:155-158, 203-205).
YoungerStay ==
    [][\A n \in Slots : rtq_popn_nosync(n) =>
           \A k \in n + 1 .. size - 1 :
               elems'[(tail' + (k - 1)) % MAX_SIZE] = elems[Slot(k)]]_qvars

\* Used with the oldest element only, the ring is a bounded FIFO queue: nothing
\* is lost, duplicated or overtaken (rtqueue.c:101-149).
Fifo == INSTANCE JobQueue WITH fifo <- Contents, Capacity <- MAX_SIZE
FifoQueue == Fifo!JQSpec
===============================================================================
