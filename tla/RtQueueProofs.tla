----------------------------- MODULE RtQueueProofs -----------------------------
(***************************************************************************)
(* What RtQueue promises, for every size of the ring: its shape, what each   *)
(* operation does to the queued elements, and that it is a FIFO queue as     *)
(* long as only the oldest element is taken.                                 *)
(***************************************************************************)
EXTENDS MCRtQueue, SequenceTheorems, WellFoundedInduction, TLAPS

RingInv == QTypeOK /\ RingShape

-------------------------------------------------------------------------------
(* Folds.  Induction is over a set of numbers, the ones of which the claim holds. *)

LEMMA NatInduct ==
    ASSUME NEW S, 0 \in S, \A n \in Nat : n \in S => n + 1 \in S
    PROVE  Nat \subseteq S
<1> SUFFICES ASSUME Nat \ S # {} PROVE FALSE
  OBVIOUS
<1> DEFINE R == {ss \in Nat \X Nat : ss[1] < ss[2]}
<1>1. IsWellFoundedOn(R, Nat)
  BY NatLessThanWellFounded DEF OpToRel
<1>2. PICK m \in Nat \ S : \A y \in Nat \ S : ~ (<<y, m>> \in R)
  <2> HIDE DEF R
  <2>1. Nat \ S \subseteq Nat
    OBVIOUS
  <2> QED BY <1>1, <2>1, WFMin
<1>3. m # 0 /\ m - 1 \in Nat
  BY <1>2
<1>4. <<m - 1, m>> \in R
  BY <1>3
<1>5. m - 1 \in S
  BY <1>2, <1>3, <1>4
<1>6. (m - 1) + 1 \in S
  BY <1>3, <1>5
<1> QED BY <1>2, <1>3, <1>6

LEMMA MaxOf ==
    ASSUME NEW n \in Nat, NEW s \in SUBSET (1 .. n), s # {}
    PROVE  Max(s) \in s /\ \A y \in s : Max(s) >= y
<1> DEFINE S == {k \in Nat : \A t \in SUBSET (1 .. k) :
                     t # {} => \E x \in t : \A y \in t : x >= y}
<1>1. 0 \in S
  <2>1. 1 .. 0 = {}
    OBVIOUS
  <2> QED BY <2>1
<1>2. ASSUME NEW k \in Nat, k \in S PROVE k + 1 \in S
  <2> SUFFICES ASSUME NEW t \in SUBSET (1 .. k + 1), t # {}
               PROVE  \E x \in t : \A y \in t : x >= y
    OBVIOUS
  <2>1. CASE k + 1 \in t
    <3>1. \A y \in t : k + 1 >= y
      OBVIOUS
    <3> QED BY <2>1, <3>1
  <2>2. CASE k + 1 \notin t
    <3>1. t \in SUBSET (1 .. k)
      BY <2>2
    <3> QED BY <1>2, <3>1
  <2> QED BY <2>1, <2>2
<1>3. n \in S
  <2> HIDE DEF S
  <2> QED BY <1>1, <1>2, NatInduct
<1>4. \E x \in s : \A y \in s : x >= y
  BY <1>3
<1> QED BY <1>4 DEF Max

LEMMA TopOf == ASSUME NEW k \in Nat
               PROVE  Max(1 .. k + 1) = k + 1 /\ (1 .. k + 1) \ {k + 1} = 1 .. k
<1> DEFINE l == k + 1
<1>1. l \in Nat /\ l \in 1 .. l /\ \A x \in 1 .. l : x >= l => x = l
  OBVIOUS
<1>2. (1 .. l) \ {l} = 1 .. k
  OBVIOUS
<1> HIDE DEF l
<1>3. Max(1 .. l) \in 1 .. l /\ \A y \in 1 .. l : Max(1 .. l) >= y
  <2>1. 1 .. l # {}
    BY <1>1
  <2> QED BY <1>1, <2>1, MaxOf
<1> QED BY <1>1, <1>2, <1>3 DEF l

\* A fold over positions 1 .. n, the last one outermost, is defined whatever the
\* step: F[<<i, x>>] is what position i makes of the result x of those below.
IsFold(g, n, V, base, F) ==
    /\ g \in [SUBSET (1 .. n) -> V]
    /\ \A s \in SUBSET (1 .. n) :
           g[s] = IF s = {} THEN base ELSE F[<<Max(s), g[s \ {Max(s)}]>>]

LEMMA FoldExists ==
    ASSUME NEW n \in Nat, NEW V, NEW base \in V, NEW F \in [(1 .. n) \X V -> V]
    PROVE  \E g : IsFold(g, n, V, base, F)
<1> DEFINE Folds(k, g) == \A s \in SUBSET (1 .. k) :
                   g[s] = IF s = {} THEN base ELSE F[<<Max(s), g[s \ {Max(s)}]>>]
           Foldable(k) == \E g \in [SUBSET (1 .. k) -> V] : Folds(k, g)
           S == {k \in Nat : k <= n => Foldable(k)}
<1>1. 0 \in S
  <2> DEFINE g == [s \in SUBSET (1 .. 0) |-> base]
  <2>1. 1 .. 0 = {}
    OBVIOUS
  <2>2. g \in [SUBSET (1 .. 0) -> V] /\ Folds(0, g)
    BY <2>1
  <2> QED BY <2>2
<1>2. ASSUME NEW k \in Nat, k \in S PROVE k + 1 \in S
  <2> DEFINE m == k + 1
  <2> HIDE DEF Folds
  <2> SUFFICES ASSUME m <= n PROVE Foldable(m)
    <3> HIDE DEF Foldable
    <3> QED OBVIOUS
  <2>1. PICK g \in [SUBSET (1 .. k) -> V] : Folds(k, g)
    <3>1. Foldable(k)
      <4> HIDE DEF Foldable
      <4> QED BY <1>2
    <3> QED BY <3>1
  <2>2. m \in Nat /\ 1 .. m = (1 .. k) \cup {m} /\ m \notin 1 .. k /\ m \in 1 .. n
    OBVIOUS
  <2>3. m >= m /\ \A y \in 1 .. m : y >= m => y = m
    OBVIOUS
  <2> HIDE DEF m
  <2> DEFINE h == [s \in SUBSET (1 .. m) |->
                       IF m \in s THEN F[<<m, g[s \ {m}]>>] ELSE g[s]]
  <2>4. \A s \in SUBSET (1 .. m) : /\ s \ {m} \in SUBSET (1 .. k)
                                   /\ m \notin s => s \in SUBSET (1 .. k)
    BY <2>2
  <2>5. \A s \in SUBSET (1 .. k) : s \in SUBSET (1 .. m) /\ h[s] = g[s]
    BY <2>2
  <2>6. h \in [SUBSET (1 .. m) -> V]
    <3>1. \A s \in SUBSET (1 .. m) : F[<<m, g[s \ {m}]>>] \in V
      BY <2>1, <2>2, <2>4
    <3>2. \A s \in SUBSET (1 .. m) : m \notin s => g[s] \in V
      BY <2>1, <2>4
    <3> QED BY <3>1, <3>2
  <2>7. ASSUME NEW s \in SUBSET (1 .. m)
        PROVE  h[s] = IF s = {} THEN base ELSE F[<<Max(s), h[s \ {Max(s)}]>>]
    <3>1. CASE m \in s
      <4>1. Max(s) = m
        <5>1. Max(s) \in s /\ \A y \in s : Max(s) >= y
          BY <2>2, <3>1, MaxOf
        <5> QED BY <2>3, <3>1, <5>1
      <4>2. h[s] = F[<<m, g[s \ {m}]>>]
        BY <3>1
      <4>3. h[s \ {m}] = g[s \ {m}]
        BY <2>4, <2>5
      <4> HIDE DEF h
      <4> QED BY <3>1, <4>1, <4>2, <4>3
    <3>2. CASE m \notin s
      <4>1. s \in SUBSET (1 .. k) /\ s \ {Max(s)} \in SUBSET (1 .. k)
        BY <2>4, <3>2
      <4>2. g[s] = IF s = {} THEN base ELSE F[<<Max(s), g[s \ {Max(s)}]>>]
        BY <2>1, <4>1 DEF Folds
      <4>3. h[s] = g[s] /\ h[s \ {Max(s)}] = g[s \ {Max(s)}]
        <5> HIDE DEF h
        <5> QED BY <2>5, <4>1
      <4> HIDE DEF h
      <4> QED BY <4>2, <4>3
    <3> QED BY <3>1, <3>2
  <2> HIDE DEF h
  <2>8. Folds(m, h)
    BY <2>7 DEF Folds
  <2> QED BY <2>6, <2>8
<1>3. n \in S
  <2> HIDE DEF S
  <2> QED BY <1>1, <1>2, NatInduct
<1>4. Foldable(n)
  <2> HIDE DEF Foldable
  <2> QED BY <1>3
<1> QED BY <1>4 DEF IsFold

-------------------------------------------------------------------------------
(* Indices modulo the size of the ring *)

LEMMA ModBelow == \A a \in 0 .. MAX_SIZE - 1 : a % MAX_SIZE = a
BY QueueAssumption

LEMMA ModWrap == \A a \in MAX_SIZE .. 2 * MAX_SIZE - 1 : a % MAX_SIZE = a - MAX_SIZE
BY QueueAssumption

\* The index that the ring uses, without the remainder.
LEMMA SlotCases ==
    ASSUME tail \in Slots, NEW n \in 0 .. MAX_SIZE
    PROVE  /\ tail + n < MAX_SIZE => Slot(n) = tail + n
           /\ tail + n >= MAX_SIZE => Slot(n) = tail + n - MAX_SIZE
           /\ Slot(n) \in Slots
<1>1. tail \in Int /\ n \in Int /\ MAX_SIZE \in Int /\ MAX_SIZE > 0
  BY QueueAssumption DEF Slots
<1>2. CASE tail + n < MAX_SIZE
  <2>1. tail + n \in 0 .. MAX_SIZE - 1
    BY <1>1, <1>2 DEF Slots
  <2> QED BY <1>1, <1>2, <2>1, ModBelow DEF Slot, Slots
<1>3. CASE tail + n >= MAX_SIZE
  <2>1. tail + n \in MAX_SIZE .. 2 * MAX_SIZE - 1
    BY <1>1, <1>3 DEF Slots
  <2> QED BY <1>1, <1>3, <2>1, ModWrap DEF Slot, Slots
<1> QED BY <1>1, <1>2, <1>3

\* No two positions of the ring share a slot.
LEMMA SlotInjective ==
    ASSUME tail \in Slots,
           NEW m \in 0 .. MAX_SIZE - 1, NEW n \in 0 .. MAX_SIZE - 1,
           Slot(m) = Slot(n)
    PROVE  m = n
<1>1. m \in 0 .. MAX_SIZE /\ n \in 0 .. MAX_SIZE /\ tail \in Int /\ MAX_SIZE \in Int
  BY QueueAssumption DEF Slots
<1>2. /\ tail + m < MAX_SIZE => Slot(m) = tail + m
      /\ tail + m >= MAX_SIZE => Slot(m) = tail + m - MAX_SIZE
  BY <1>1, SlotCases
<1>3. /\ tail + n < MAX_SIZE => Slot(n) = tail + n
      /\ tail + n >= MAX_SIZE => Slot(n) = tail + n - MAX_SIZE
  BY <1>1, SlotCases
<1> QED BY <1>1, <1>2, <1>3 DEF Slots

\* After the tail has moved on, position n is what position n + 1 was.
LEMMA SlotAfterDrop ==
    ASSUME tail \in Slots, NEW n \in 0 .. MAX_SIZE - 1
    PROVE  (((tail + 1) % MAX_SIZE) + n) % MAX_SIZE = Slot(n + 1)
<1>1. tail \in Int /\ n \in Int /\ MAX_SIZE \in Int /\ MAX_SIZE > 0
  BY QueueAssumption DEF Slots
<1>2. CASE tail + 1 < MAX_SIZE
  <2>1. (tail + 1) % MAX_SIZE = tail + 1
    BY <1>1, <1>2, ModBelow DEF Slots
  <2> QED BY <1>1, <2>1 DEF Slot
<1>3. CASE tail + 1 = MAX_SIZE
  <2>1. (tail + 1) % MAX_SIZE = 0
    BY <1>1, <1>3, ModWrap
  <2>2. n % MAX_SIZE = n
    BY ModBelow
  <2>3. tail + (n + 1) \in MAX_SIZE .. 2 * MAX_SIZE - 1
    BY <1>1, <1>3 DEF Slots
  <2>4. (tail + (n + 1)) % MAX_SIZE = n
    BY <1>1, <1>3, <2>3, ModWrap
  <2> QED BY <1>1, <2>1, <2>2, <2>4 DEF Slot
<1> QED BY <1>1, <1>2, <1>3 DEF Slots

-------------------------------------------------------------------------------
(* The operations *)

LEMMA InitRing == rtq_init => RingInv /\ Queued = {}
<1> SUFFICES ASSUME rtq_init PROVE RingInv /\ Queued = {}
  OBVIOUS
<1>1. QTypeOK
  BY QueueAssumption DEF rtq_init, QTypeOK, Slots
<1>2. RingShape
  BY QueueAssumption, ModBelow DEF rtq_init, RingShape, Slots
<1>3. Queued = {}
  BY DEF rtq_init, Queued
<1> QED BY <1>1, <1>2, <1>3 DEF RingInv

\* A push puts its element behind the others and leaves those where they are.
LEMMA PushSlots ==
    ASSUME RingInv, NEW e \in Elem, PushAccepted(e)
    PROVE  /\ RingInv'
           /\ \A n \in 0 .. size - 1 : elems'[Slot(n)] = elems[Slot(n)]
           /\ elems'[Slot(size)] = e
           /\ Queued' = Queued \cup {e}
<1> DEFINE M == MAX_SIZE
<1>1. /\ tail \in Slots /\ head \in Slots /\ size \in 0 .. M - 1 /\ M \in Nat \ {0}
      /\ elems \in [Slots -> Elem \cup {NULL}]
  BY QueueAssumption DEF RingInv, QTypeOK, PushAccepted
<1>2. head = Slot(size)
  BY DEF RingInv, RingShape, Slot
<1>3. elems' = [elems EXCEPT ![head] = e] /\ size' = size + 1 /\ tail' = tail
      /\ head' = (head + 1) % M
  BY DEF PushAccepted
<1>4. \A n \in 0 .. M : Slot(n)' = Slot(n)
  BY <1>3 DEF Slot
<1>5. ASSUME NEW n \in 0 .. size - 1
      PROVE  elems'[Slot(n)] = elems[Slot(n)] /\ n \in 0 .. M - 1 /\ Slot(n) \in Slots
  <2>1. n \in 0 .. M - 1 /\ size \in 0 .. M - 1 /\ n # size
    BY <1>1
  <2>2. Slot(n) # Slot(size)
    BY <1>1, <2>1, SlotInjective
  <2>3. Slot(n) \in Slots
    BY <1>1, <2>1, SlotCases
  <2> QED BY <1>1, <1>2, <1>3, <2>1, <2>2, <2>3
<1>6. elems'[Slot(size)] = e
  BY <1>1, <1>2, <1>3
<1>7. QTypeOK'
  <2>1. elems' \in [Slots -> Elem \cup {NULL}]
    BY <1>1, <1>3
  <2>2. head' \in Slots
    BY <1>1, <1>3 DEF Slots
  <2> QED BY <1>1, <1>3, <2>1, <2>2 DEF QTypeOK
<1>8. RingShape'
  <2>1. head' = (tail' + size') % M
    <3>1. /\ tail + size < M => head = tail + size
          /\ tail + size >= M => head = tail + size - M
      BY <1>1, <1>2, SlotCases
    <3>2. tail + (size + 1) \in 0 .. 2 * M - 1
      BY <1>1 DEF Slots
    <3>3. CASE tail + (size + 1) < M
      <4>1. head + 1 = tail + (size + 1)
        BY <1>1, <3>1, <3>3 DEF Slots
      <4> QED BY <1>3, <4>1
    <3>4. CASE tail + (size + 1) = M
      <4>1. head + 1 = tail + (size + 1)
        BY <1>1, <3>1, <3>4 DEF Slots
      <4> QED BY <1>3, <4>1
    <3>5. CASE tail + (size + 1) > M
      <4>1. head + 1 = tail + (size + 1) - M /\ head + 1 \in 0 .. M - 1
        BY <1>1, <3>1, <3>5 DEF Slots
      <4>2. (head + 1) % M = head + 1
        BY <4>1, ModBelow
      <4>3. tail + (size + 1) \in M .. 2 * M - 1
        BY <1>1, <3>2, <3>5 DEF Slots
      <4>4. (tail + (size + 1)) % M = tail + (size + 1) - M
        BY <1>1, <4>3, ModWrap DEF Slots
      <4> QED BY <1>3, <4>1, <4>2, <4>4
    <3> QED BY <1>1, <3>3, <3>4, <3>5 DEF Slots
  <2>2. ASSUME NEW n \in 0 .. size' - 1 PROVE elems'[Slot(n)'] \in Elem
    <3>1. n \in 0 .. M /\ (n \in 0 .. size - 1 \/ n = size)
      BY <1>1, <1>3
    <3>2. \A k \in 0 .. size - 1 : elems[Slot(k)] \in Elem
      BY DEF RingInv, RingShape
    <3> QED BY <1>4, <1>5, <1>6, <3>1, <3>2
  <2> QED BY <2>1, <2>2 DEF RingShape
<1>9. Queued' = Queued \cup {e}
  <2>1. ASSUME NEW x \in Queued' PROVE x \in Queued \cup {e}
    <3>1. PICK n \in 0 .. size' - 1 : x = elems'[Slot(n)']
      BY DEF Queued
    <3>2. n \in 0 .. M /\ (n \in 0 .. size - 1 \/ n = size)
      BY <1>1, <1>3
    <3> QED BY <1>4, <1>5, <1>6, <3>1, <3>2 DEF Queued
  <2>2. ASSUME NEW x \in Queued PROVE x \in Queued'
    <3>1. PICK n \in 0 .. size - 1 : x = elems[Slot(n)]
      BY DEF Queued
    <3>2. n \in 0 .. size' - 1 /\ n \in 0 .. M
      BY <1>1, <1>3
    <3>3. x = elems'[Slot(n)']
      BY <1>4, <1>5, <3>1, <3>2
    <3> QED BY <3>2, <3>3 DEF Queued
  <2>3. e \in Queued'
    <3>1. size \in 0 .. size' - 1 /\ size \in 0 .. M
      BY <1>1, <1>3
    <3>2. e = elems'[(tail' + size) % M]
      BY <1>3, <1>6 DEF Slot
    <3> QED BY <3>1, <3>2 DEF Queued, Slot
  <2> QED BY <2>1, <2>2, <2>3
<1> QED BY <1>5, <1>6, <1>7, <1>8, <1>9 DEF RingInv

\* Taking the n-th element leaves n copies of it, and the ones behind it.
LEMMA PopnSlots ==
    ASSUME RingInv, NEW n \in Nat, rtq_popn_nosync(n)
    PROVE  /\ RingInv'
           /\ size' = size - 1
           /\ \A k \in 0 .. size' - 1 :
                  elems'[Slot(k)'] = IF k < n THEN elems[Slot(n)] ELSE elems[Slot(k + 1)]
           /\ elems[Slot(n)] \in Queued
           /\ Queued' \subseteq Queued
<1> DEFINE M == MAX_SIZE
<1>1. /\ tail \in Slots /\ head \in Slots /\ size \in 1 .. M /\ M \in Nat \ {0}
      /\ elems \in [Slots -> Elem \cup {NULL}]
      /\ n \in 0 .. size - 1 /\ n \in 0 .. M - 1
  BY QueueAssumption DEF RingInv, QTypeOK, rtq_popn_nosync
<1>2. /\ elems' = ShiftedOver(n) /\ size' = size - 1 /\ head' = head
      /\ tail' = (tail + 1) % M
  BY DEF rtq_popn_nosync, DropTailSlot
<1>3. \A k \in 0 .. M - 1 : Slot(k)' = Slot(k + 1)
  <2> SUFFICES ASSUME NEW k \in 0 .. M - 1 PROVE (tail' + k) % M = Slot(k + 1)
    BY DEF Slot
  <2> QED BY <1>1, <1>2, SlotAfterDrop
<1>4. ASSUME NEW k \in 1 .. M - 1
      PROVE  /\ Slot(k) \in Slots
             /\ elems'[Slot(k)] = IF k - 1 < n THEN elems[Slot(n)] ELSE elems[Slot(k)]
  <2>1. k \in 0 .. M - 1 /\ k \in 0 .. M
    BY <1>1
  <2>2. Slot(k) \in Slots
    BY <1>1, <2>1, SlotCases
  <2>3. elems'[Slot(k)] = IF \E i \in 0 .. n - 1 : Slot(k) = Slot(i)
                             THEN elems[Slot(n)] ELSE elems[Slot(k)]
    BY <1>2, <2>2 DEF ShiftedOver
  <2>4. (\E i \in 0 .. n - 1 : Slot(k) = Slot(i)) <=> k \in 0 .. n - 1
    <3>1. ASSUME NEW i \in 0 .. n - 1, Slot(k) = Slot(i) PROVE k = i
      <4>1. i \in 0 .. M - 1
        BY <1>1
      <4> QED BY <1>1, <2>1, <3>1, <4>1, SlotInjective
    <3> QED BY <3>1
  <2>5. CASE k = n
    BY <1>1, <2>2, <2>3, <2>4, <2>5
  <2>6. CASE k # n
    BY <1>1, <2>2, <2>3, <2>4, <2>6
  <2> QED BY <2>5, <2>6
<1>5. ASSUME NEW k \in 0 .. size' - 1
      PROVE  elems'[Slot(k)'] = IF k < n THEN elems[Slot(n)] ELSE elems[Slot(k + 1)]
  <2>1. k \in 0 .. M - 1 /\ k + 1 \in 1 .. M - 1 /\ (k + 1) - 1 = k
    BY <1>1, <1>2
  <2> QED BY <1>3, <1>4, <2>1
<1>6. \A k \in 0 .. size - 1 : elems[Slot(k)] \in Elem /\ elems[Slot(k)] \in Queued
  BY DEF RingInv, RingShape, Queued
<1>7. QTypeOK'
  <2>1. elems' \in [Slots -> Elem \cup {NULL}]
    BY <1>1, <1>2, <1>6 DEF ShiftedOver
  <2>2. tail' \in Slots
    BY <1>1, <1>2 DEF Slots
  <2> QED BY <1>1, <1>2, <2>1, <2>2 DEF QTypeOK
<1>8. ASSUME NEW k \in 0 .. size' - 1
      PROVE  elems'[Slot(k)'] \in Elem /\ elems'[Slot(k)'] \in Queued
  <2>1. k + 1 \in 0 .. size - 1
    BY <1>1, <1>2
  <2> QED BY <1>1, <1>5, <1>6, <2>1
<1>9. head' = (tail' + size') % M
  <2>1. size - 1 \in 0 .. M - 1 /\ (size - 1) + 1 = size
    BY <1>1
  <2>2. (((tail + 1) % M) + (size - 1)) % M = Slot(size)
    BY <1>1, <2>1, SlotAfterDrop
  <2> QED BY <1>2, <2>2 DEF RingInv, RingShape, Slot
<1>10. Queued' \subseteq Queued
  BY <1>8 DEF Queued
<1> QED BY <1>1, <1>2, <1>5, <1>6, <1>7, <1>8, <1>9, <1>10 DEF RingInv, RingShape

\* Taking the oldest element is taking the one at position 0: the loop of popn
\* does not run.
LEMMA PopIsPopnZero ==
    ASSUME RingInv, rtq_pop_nosync
    PROVE  rtq_popn_nosync(0)
<1>1. ShiftedOver(0) = elems
  <2>1. \A s \in Slots : ~ \E k \in 0 .. 0 - 1 : s = Slot(k)
    OBVIOUS
  <2> QED BY <2>1 DEF ShiftedOver, RingInv, QTypeOK
<1> QED BY <1>1, QueueAssumption DEF rtq_pop_nosync, rtq_popn_nosync, RingInv, QTypeOK

-------------------------------------------------------------------------------
(* The loop of popn, pass by pass *)

\* The ring when the passes for the positions n down to k + 1 have been made.
CopiedDownTo(n, k) ==
    [s \in Slots |-> IF \E m \in k .. n - 1 : s = Slot(m) THEN elems[Slot(n)]
                                                          ELSE elems[s]]

\* A pass hands the n-th element on to the next position below.
LEMMA PassCopies ==
    ASSUME RingInv, NEW n \in Nat, n < size, NEW k \in 1 .. n
    PROVE  CopyDown(CopiedDownTo(n, k), tail + k) = CopiedDownTo(n, k - 1)
<1> DEFINE a == CopiedDownTo(n, k)
<1>1. size \in 0 .. MAX_SIZE /\ MAX_SIZE \in Nat \ {0} /\ tail \in Slots /\ tail \in Int
  BY QueueAssumption DEF RingInv, QTypeOK, Slots
<1>2. (tail + k) % MAX_SIZE = Slot(k) /\ ((tail + k) - 1) % MAX_SIZE = Slot(k - 1)
  <2>1. (tail + k) - 1 = tail + (k - 1)
    BY <1>1
  <2> QED BY <2>1 DEF Slot
<1>3. Slot(k) \in Slots /\ Slot(k - 1) \in Slots
  <2>1. k \in 0 .. MAX_SIZE /\ k - 1 \in 0 .. MAX_SIZE
    BY <1>1
  <2> DEFINE l == k - 1
  <2>2. l \in 0 .. MAX_SIZE
    BY <2>1
  <2> HIDE DEF l
  <2>3. Slot(k) \in Slots /\ Slot(l) \in Slots
    BY <1>1, <2>1, <2>2, SlotCases
  <2> QED BY <2>3 DEF l
<1>4. a[Slot(k)] = elems[Slot(n)]
  <2>1. CASE k = n
    BY <1>3, <2>1 DEF CopiedDownTo
  <2>2. CASE k # n
    <3>1. k \in k .. n - 1
      BY <2>2
    <3> QED BY <1>3, <3>1 DEF CopiedDownTo
  <2> QED BY <2>1, <2>2
<1>5. CopyDown(a, tail + k) = [a EXCEPT ![Slot(k - 1)] = elems[Slot(n)]]
  BY <1>2, <1>4 DEF CopyDown
<1>6. \A s \in Slots : (\E m \in (k - 1) .. n - 1 : s = Slot(m))
                           <=> s = Slot(k - 1) \/ \E m \in k .. n - 1 : s = Slot(m)
  <2>1. (k - 1) .. n - 1 = {k - 1} \cup (k .. n - 1)
    OBVIOUS
  <2> QED BY <2>1
<1>7. [a EXCEPT ![Slot(k - 1)] = elems[Slot(n)]] = CopiedDownTo(n, k - 1)
  <2>1. a = [s \in Slots |-> IF \E m \in k .. n - 1 : s = Slot(m) THEN elems[Slot(n)]
                                                                  ELSE elems[s]]
    BY DEF CopiedDownTo
  <2> HIDE DEF a
  <2>2. [a EXCEPT ![Slot(k - 1)] = elems[Slot(n)]]
            = [s \in Slots |-> IF s = Slot(k - 1) THEN elems[Slot(n)] ELSE a[s]]
    BY <2>1
  <2>3. \A s \in Slots :
            (IF s = Slot(k - 1) THEN elems[Slot(n)] ELSE a[s])
                = IF \E m \in (k - 1) .. n - 1 : s = Slot(m) THEN elems[Slot(n)]
                                                             ELSE elems[s]
    BY <1>6, <2>1
  <2> QED BY <2>2, <2>3 DEF CopiedDownTo
<1> QED BY <1>5, <1>7

\* The result of the first k passes, for every k up to n, is that of the fold over
\* the first k positions.
LEMMA LoopShifts == ASSUME RingInv, NEW n \in Nat, n < size
                    PROVE  PopnLoop(n) = ShiftedOver(n)
<1> DEFINE V == [Slots -> Elem \cup {NULL}]
           at == [k \in 1 .. n |-> tail + n + 1 - k]
           Unfolds(it) == it = [s \in SUBSET DOMAIN at |->
                               IF s = {} THEN elems
                               ELSE CopyDown(it[s \ {Max(s)}], at[Max(s)])]
           loop == CHOOSE it : Unfolds(it)
           F == [p \in (1 .. n) \X V |-> CopyDown(p[2], at[p[1]])]
<1>1. MAX_SIZE \in Nat \ {0} /\ tail \in Slots /\ tail \in Int /\ elems \in V
  BY QueueAssumption DEF RingInv, QTypeOK, Slots
<1>2. DOMAIN at = 1 .. n /\ \A k \in 1 .. n : at[k] = tail + n + 1 - k /\ at[k] \in Int
  BY <1>1
<1>3. F \in [(1 .. n) \X V -> V]
  <2> SUFFICES ASSUME NEW k \in 1 .. n, NEW a \in V PROVE CopyDown(a, at[k]) \in V
    OBVIOUS
  <2>1. at[k] % MAX_SIZE \in Slots
    BY <1>1, <1>2 DEF Slots
  <2> HIDE DEF at
  <2> QED BY <2>1 DEF CopyDown
<1>4. Unfolds(loop)
  <2>1. PICK g : IsFold(g, n, V, elems, F)
    <3> HIDE DEF F, V
    <3> QED BY <1>1, <1>3, FoldExists
  <2>2. ASSUME NEW s \in SUBSET (1 .. n), s # {}
        PROVE  g[s] = CopyDown(g[s \ {Max(s)}], at[Max(s)])
    <3>1. Max(s) \in 1 .. n
      BY <2>2, MaxOf
    <3>2. g[s \ {Max(s)}] \in V /\ g[s] = F[<<Max(s), g[s \ {Max(s)}]>>]
      <4> HIDE DEF F, V
      <4> QED BY <2>1, <2>2 DEF IsFold
    <3> HIDE DEF at, V
    <3> QED BY <3>1, <3>2
  <2>3. g = [s \in SUBSET (1 .. n) |->
                 IF s = {} THEN elems ELSE CopyDown(g[s \ {Max(s)}], at[Max(s)])]
    <3> HIDE DEF F, V, at
    <3> QED BY <2>1, <2>2 DEF IsFold
  <2>4. Unfolds(g)
    BY <1>2, <2>3
  <2> HIDE DEF Unfolds
  <2> QED BY <2>4
<1> DEFINE Done == {k \in Nat : k <= n => loop[1 .. k] = CopiedDownTo(n, n - k)}
<1>5. 0 \in Done
  <2>1. loop[{}] = elems
    <3> HIDE DEF loop
    <3> QED BY <1>4
  <2>2. 1 .. 0 = {} /\ n - 0 = n /\ n .. n - 1 = {}
    OBVIOUS
  <2>3. CopiedDownTo(n, n) = elems
    BY <1>1, <2>2 DEF CopiedDownTo
  <2> HIDE DEF loop
  <2> QED BY <2>1, <2>2, <2>3
<1>6. ASSUME NEW k \in Nat, k \in Done PROVE k + 1 \in Done
  <2> SUFFICES ASSUME k + 1 <= n
               PROVE  loop[1 .. k + 1] = CopiedDownTo(n, n - (k + 1))
    OBVIOUS
  <2> DEFINE m == n - k
  <2>1. m \in 1 .. n /\ m - 1 = n - (k + 1) /\ k + 1 \in 1 .. n /\ tail + n + 1 - (k + 1) = tail + m
    BY <1>1
  <2>2. loop[1 .. k] = CopiedDownTo(n, m)
    BY <1>6
  <2>3. Max(1 .. k + 1) = k + 1 /\ (1 .. k + 1) \ {k + 1} = 1 .. k
    BY TopOf
  <2>4. 1 .. k + 1 \in SUBSET (1 .. n) /\ 1 .. k + 1 # {}
    BY <2>1
  <2>5. loop[1 .. k + 1] = CopyDown(loop[(1 .. k + 1) \ {Max(1 .. k + 1)}], at[Max(1 .. k + 1)])
    <3> HIDE DEF loop, at
    <3> QED BY <1>2, <1>4, <2>4
  <2>6. at[k + 1] = tail + m
    BY <1>2, <2>1
  <2> HIDE DEF loop, at, m
  <2>7. loop[1 .. k + 1] = CopyDown(CopiedDownTo(n, m), tail + m)
    BY <2>2, <2>3, <2>5, <2>6
  <2>8. CopyDown(CopiedDownTo(n, m), tail + m) = CopiedDownTo(n, m - 1)
    BY <2>1, PassCopies
  <2> QED BY <2>1, <2>7, <2>8
<1>7. loop[1 .. n] = CopiedDownTo(n, 0)
  <2>1. n \in Done
    <3> HIDE DEF Done
    <3> QED BY <1>5, <1>6, NatInduct
  <2> QED BY <2>1
<1>8. PopnLoop(n) = loop[DOMAIN at]
  BY DEF PopnLoop, FoldLeft, MapThenFoldSet
<1>9. CopiedDownTo(n, 0) = ShiftedOver(n)
  BY DEF CopiedDownTo, ShiftedOver
<1> HIDE DEF loop, at
<1> QED BY <1>2, <1>7, <1>8, <1>9

-------------------------------------------------------------------------------
(* The shape of the ring *)

LEMMA RingStep == RingInv /\ [QNext]_qvars => RingInv'
<1> SUFFICES ASSUME RingInv, [QNext]_qvars PROVE RingInv'
  OBVIOUS
<1>1. CASE UNCHANGED qvars
  BY <1>1 DEF RingInv, QTypeOK, RingShape, Slot, qvars
<1>2. ASSUME NEW e \in Elem, rtq_push(e) PROVE RingInv'
  <2>1. CASE PushAccepted(e)
    BY <2>1, PushSlots
  <2>2. CASE PushRefused
    BY <1>1, <2>2 DEF PushRefused, PushFull, PushDismissed
  <2> QED BY <1>2, <2>1, <2>2 DEF rtq_push
<1>3. CASE rtq_pop_nosync
  <2>1. rtq_popn_nosync(0)
    BY <1>3, PopIsPopnZero
  <2> QED BY <2>1, PopnSlots
<1>4. ASSUME NEW n \in 0 .. MAX_SIZE - 1, rtq_popn_nosync(n) PROVE RingInv'
  <2>1. n \in Nat
    BY QueueAssumption
  <2> QED BY <1>4, <2>1, PopnSlots
<1> QED BY <1>1, <1>2, <1>3, <1>4 DEF QNext

\* Whatever its size, the ring keeps its shape under any legal use of its
\* operations: no slot in use is empty, and head, tail and size agree
\* (rtqueue.c:101-161, the assertion at 197).
THEOREM RingIsShaped == QSpec => [](QTypeOK /\ RingShape)
<1>1. rtq_init => RingInv
  BY InitRing
<1>2. RingInv => QTypeOK /\ RingShape
  BY DEF RingInv
<1> QED BY <1>1, <1>2, RingStep, PTL DEF QSpec

\* Whatever the size of the ring, what it holds and where its tail is, popn's loop
\* leaves the array that ShiftedOver describes: its copies do not overrun one
\* another where the ring wraps (rtqueue.c:155-156).
THEOREM PopnLoopShifts == QSpec => []PopnLoopAgrees
<1>1. rtq_init => RingInv
  BY InitRing
<1>2. RingInv => PopnLoopAgrees
  <2> SUFFICES ASSUME RingInv, NEW n \in 0 .. size - 1
               PROVE  PopnLoop(n) = ShiftedOver(n)
    BY DEF PopnLoopAgrees
  <2>1. n \in Nat /\ n < size
    BY DEF RingInv, QTypeOK
  <2> QED BY <2>1, LoopShifts
<1> QED BY <1>1, <1>2, RingStep, PTL DEF QSpec

\* Whatever the ring holds, taking the n-th element leaves the ones behind it
\* at the positions where the scan goes on (rtqueue.c:155-158, 203-205).
THEOREM YoungerElementsStay == QSpec => YoungerStay
<1> DEFINE A == \A n \in Slots : rtq_popn_nosync(n) =>
                    \A k \in n + 1 .. size - 1 :
                        elems'[(tail' + (k - 1)) % MAX_SIZE] = elems[Slot(k)]
<1>1. rtq_init => RingInv
  BY InitRing
<1>2. RingInv => A
  <2> SUFFICES ASSUME RingInv, NEW n \in Slots, rtq_popn_nosync(n),
                      NEW k \in n + 1 .. size - 1
               PROVE  elems'[(tail' + (k - 1)) % MAX_SIZE] = elems[Slot(k)]
    OBVIOUS
  <2>1. n \in Nat /\ size \in Nat
    BY QueueAssumption DEF Slots, RingInv, QTypeOK
  <2>2. /\ size' = size - 1
        /\ \A i \in 0 .. size' - 1 :
               elems'[Slot(i)'] = IF i < n THEN elems[Slot(n)] ELSE elems[Slot(i + 1)]
    BY <2>1, PopnSlots
  <2>3. k - 1 \in 0 .. size' - 1 /\ ~(k - 1 < n) /\ (k - 1) + 1 = k
    BY <2>1, <2>2
  <2> DEFINE i == k - 1
  <2>4. elems'[Slot(i)'] = elems[Slot(i + 1)]
    <3> HIDE DEF i
    <3>1. i \in 0 .. size' - 1 /\ ~(i < n)
      BY <2>3 DEF i
    <3> QED BY <2>2, <3>1
  <2> QED BY <2>3, <2>4 DEF Slot
<1>3. RingInv /\ [QNext]_qvars => [A]_qvars
  BY <1>2
<1> QED BY <1>1, <1>3, RingStep, PTL DEF QSpec, YoungerStay

-------------------------------------------------------------------------------
(* The ring implements the FIFO queue *)

LEMMA ContentsType ==
    ASSUME RingInv
    PROVE  Contents \in Seq(Elem) /\ Len(Contents) = size /\ size \in Nat
<1>1. size \in Nat
  BY QueueAssumption DEF RingInv, QTypeOK
<1>2. \A k \in 1 .. size : elems[Slot(k - 1)] \in Elem
  <2> SUFFICES ASSUME NEW k \in 1 .. size PROVE elems[Slot(k - 1)] \in Elem
    OBVIOUS
  <2>1. k - 1 \in 0 .. size - 1
    BY <1>1
  <2> QED BY <2>1 DEF RingInv, RingShape
<1> QED BY <1>1, <1>2 DEF Contents

LEMMA PushEnqueues ==
    ASSUME RingInv, NEW e \in Elem, PushAccepted(e)
    PROVE  Fifo!Enqueue(e)
<1>1. /\ size' = size + 1 /\ tail' = tail /\ size \in 0 .. MAX_SIZE - 1
      /\ MAX_SIZE \in Nat
  BY QueueAssumption DEF PushAccepted, RingInv, QTypeOK
<1>2. Contents' = Append(Contents, e)
  <2>1. \A k \in 1 .. size + 1 :
            elems'[Slot(k - 1)] = IF k <= size THEN elems[Slot(k - 1)] ELSE e
    <3> SUFFICES ASSUME NEW k \in 1 .. size + 1
                 PROVE elems'[Slot(k - 1)] = IF k <= size THEN elems[Slot(k - 1)] ELSE e
      OBVIOUS
    <3>1. CASE k <= size
      <4>1. k - 1 \in 0 .. size - 1
        BY <1>1, <3>1
      <4> QED BY <3>1, <4>1, PushSlots
    <3>2. CASE k = size + 1
      <4>1. k - 1 = size /\ ~(k <= size)
        BY <1>1, <3>2
      <4> QED BY <4>1, PushSlots
    <3> QED BY <1>1, <3>1, <3>2
  <2>2. Contents' = [k \in 1 .. size + 1 |-> elems'[Slot(k - 1)]]
    BY <1>1 DEF Contents, Slot
  <2>3. \A k \in 1 .. size : Contents[k] = elems[Slot(k - 1)] /\ Contents[k] \in Elem
    BY ContentsType, ElementOfSeq DEF Contents
  <2>4. \A k \in 1 .. size + 1 :
            /\ Contents'[k] = IF k <= size THEN Contents[k] ELSE e
            /\ elems'[Slot(k - 1)] \in Elem
    BY <1>1, <2>1, <2>2, <2>3
  <2>5. Contents' \in Seq(Elem) /\ Len(Contents') = size + 1
    <3>1. size + 1 \in Nat /\ \A k \in 1 .. size + 1 : elems'[Slot(k - 1)] \in Elem
      BY <1>1, <2>4
    <3> QED BY <2>2, <3>1
  <2>6. /\ Append(Contents, e) \in Seq(Elem)
        /\ Len(Append(Contents, e)) = size + 1
        /\ \A k \in 1 .. size : Append(Contents, e)[k] = Contents[k]
        /\ Append(Contents, e)[size + 1] = e
    BY ContentsType, AppendProperties
  <2>7. \A k \in 1 .. size + 1 : Contents'[k] = Append(Contents, e)[k]
    BY <1>1, <2>4, <2>6
  <2> QED BY <2>5, <2>6, <2>7, SeqEqual
<1>3. Len(Contents) < MAX_SIZE
  BY <1>1, ContentsType
<1> QED BY <1>2, <1>3 DEF Fifo!Enqueue

LEMMA PopDequeues ==
    ASSUME RingInv, rtq_pop_nosync
    PROVE  Fifo!Dequeue
<1>1. rtq_popn_nosync(0) /\ size # 0 /\ 0 \in Nat
  BY PopIsPopnZero DEF rtq_pop_nosync
<1>2. /\ size' = size - 1 /\ RingInv'
      /\ \A k \in 0 .. size' - 1 : elems'[Slot(k)'] = elems[Slot(k + 1)]
  <2>1. \A k \in 0 .. size' - 1 :
            elems'[Slot(k)'] = IF k < 0 THEN elems[Slot(0)] ELSE elems[Slot(k + 1)]
    BY <1>1, PopnSlots
  <2>2. \A k \in 0 .. size' - 1 : ~(k < 0)
    OBVIOUS
  <2> QED BY <1>1, <2>1, <2>2, PopnSlots
<1>3. size \in Nat \ {0} /\ Contents \in Seq(Elem) /\ Len(Contents) = size
  BY <1>1, ContentsType
<1>4. Contents # <<>>
  BY <1>3
<1>5. Contents' = Tail(Contents)
  <2>1. \A k \in 1 .. size - 1 : elems'[Slot(k - 1)'] = elems[Slot((k + 1) - 1)]
    <3> SUFFICES ASSUME NEW k \in 1 .. size - 1
                 PROVE  elems'[Slot(k - 1)'] = elems[Slot((k + 1) - 1)]
      OBVIOUS
    <3>1. k - 1 \in 0 .. size' - 1 /\ (k - 1) + 1 = (k + 1) - 1
      BY <1>2, <1>3
    <3> DEFINE i == k - 1
    <3>2. elems'[Slot(i)'] = elems[Slot(i + 1)]
      <4> HIDE DEF i
      <4>1. i \in 0 .. size' - 1
        BY <3>1 DEF i
      <4> QED BY <1>2, <4>1
    <3> QED BY <3>1, <3>2
  <2>2. Contents' = [k \in 1 .. size - 1 |-> elems'[Slot(k - 1)']]
    BY <1>2 DEF Contents
  <2>3. \A k \in 1 .. size - 1 : /\ Contents[k + 1] = elems[Slot((k + 1) - 1)]
                                 /\ Contents[k + 1] \in Elem
    <3>1. \A k \in 1 .. size - 1 : k + 1 \in 1 .. size
      BY <1>3
    <3> QED BY <1>3, <3>1, ElementOfSeq DEF Contents
  <2>4. \A k \in 1 .. size - 1 : /\ Contents'[k] = Contents[k + 1]
                                 /\ elems'[Slot(k - 1)'] \in Elem
    BY <2>1, <2>2, <2>3
  <2>5. Contents' \in Seq(Elem) /\ Len(Contents') = size - 1
    BY <1>3, <2>2, <2>4
  <2>6. /\ Tail(Contents) \in Seq(Elem)
        /\ Len(Tail(Contents)) = size - 1
        /\ \A k \in 1 .. size - 1 : Tail(Contents)[k] = Contents[k + 1]
    BY <1>3, <1>4, HeadTailProperties
  <2> QED BY <2>4, <2>5, <2>6, SeqEqual
<1> QED BY <1>4, <1>5 DEF Fifo!Dequeue

LEMMA ContentsStutter == UNCHANGED qvars => UNCHANGED Contents
BY DEF Contents, Slot, qvars

\* Used with the oldest element only, the ring of any size is the bounded FIFO
\* queue that JobQueue describes (rtqueue.c:101-149).
THEOREM RingIsFifo == QHeadSpec => FifoQueue
<1>1. rtq_init => RingInv /\ Fifo!JQInit
  BY InitRing DEF rtq_init, Fifo!JQInit, Contents
<1>2. QHeadNext => QNext
  BY DEF QHeadNext, QNext
<1>3. RingInv /\ [QHeadNext]_qvars => [Fifo!JQNext]_Contents
  <2> SUFFICES ASSUME RingInv, [QHeadNext]_qvars PROVE [Fifo!JQNext]_Contents
    OBVIOUS
  <2>1. CASE UNCHANGED qvars
    BY <2>1, ContentsStutter
  <2>2. ASSUME NEW e \in Elem, rtq_push(e) PROVE [Fifo!JQNext]_Contents
    <3>1. CASE PushAccepted(e)
      BY <3>1, PushEnqueues DEF Fifo!JQNext
    <3>2. CASE PushRefused
      BY <2>1, <3>2 DEF PushRefused, PushFull, PushDismissed
    <3> QED BY <2>2, <3>1, <3>2 DEF rtq_push
  <2>3. CASE rtq_pop_nosync
    BY <2>3, PopDequeues DEF Fifo!JQNext
  <2> QED BY <2>1, <2>2, <2>3 DEF QHeadNext
<1>4. RingInv /\ [QHeadNext]_qvars => RingInv'
  BY <1>2, RingStep
<1> QED BY <1>1, <1>3, <1>4, PTL DEF QHeadSpec, FifoQueue, Fifo!JQSpec
===============================================================================
