------------------------------ MODULE JamsProofs ------------------------------
(***************************************************************************)
(* The safety of the JAMS program for every number of jobs and workers, size *)
(* of the ring and choice of policy: IInv holds initially, every step        *)
(* preserves it, and it implies the properties that the runs check.          *)
(***************************************************************************)
EXTENDS MCJams, RtQueueProofs, FiniteSetTheorems

-------------------------------------------------------------------------------
(* Facts about the constants and about steps that leave the ring alone *)

LEMMA Constants ==
    /\ num_reqs \in Nat \ {0} /\ num_child \in Nat \ {0} /\ MAX_SIZE \in Nat \ {0}
    /\ Jobs \subseteq Elem /\ dummy \in Elem /\ dummy \notin Jobs
    /\ NULL \notin Jobs /\ NULL # dummy /\ Nobody \notin Workers
<1>1. num_child \in Nat
  BY JamsAssumption, FS_CardinalityType DEF num_child
<1> QED BY <1>1, JamsAssumption, QueueAssumption DEF Jobs, dummy

LEMMA RingAlone ==
    ASSUME UNCHANGED qvars
    PROVE  /\ Queued' = Queued
           /\ QTypeOK => QTypeOK'
           /\ RingShape => RingShape'
BY DEF qvars, Queued, QTypeOK, RingShape, Slot

LEMMA Initially == Init => IInv
<1> SUFFICES ASSUME Init PROVE IInv
  OBVIOUS
<1>1. QTypeOK /\ RingShape /\ Queued = {} /\ size = 0
  BY InitRing DEF Init, RingInv, rtq_init
<1>2. TypeOK
  <2>1. mutex \in Workers \cup {Nobody} /\ exiting \in BOOLEAN /\ pushed \in BOOLEAN
        /\ aborted \in BOOLEAN
    BY DEF Init
  <2>2. main = "boot" /\ j \in 1 .. num_reqs + 1 /\ poisoned \in 0 .. num_child
        /\ scan_n \in 0 .. MAX_SIZE /\ nowLate \subseteq Jobs /\ late \subseteq Jobs
    BY Constants DEF Init
  <2>3. held \in [Workers -> Elem \cup {NULL}] /\ popNum \in [Workers -> Nat]
    BY DEF Init
  <2>4. elapsed \in [Jobs -> -1 .. 1]
    BY DEF Init
  <2>5. fate \in [Jobs -> SUBSET {"refused", "dropped", "dismissed", "finished"}]
    BY DEF Init
  <2> QED BY <1>1, <2>1, <2>2, <2>3, <2>4, <2>5 DEF Init, TypeOK
<1>3. NoStrandedWorker /\ MainInv
  BY Constants DEF Init, NoStrandedWorker, MainInv, Jobs
<1>4. LockInv /\ HeldInv /\ PopInv /\ RecordInv
  BY <1>1, Constants DEF Init, LockInv, HeldInv, PopInv, RecordInv, Processing
<1>5. ASSUME NEW i \in Jobs PROVE JobInv(i)
  BY <1>1, <1>5, Constants DEF Init, JobInv, Absent, Processing, Jobs
<1> QED BY <1>1, <1>2, <1>3, <1>4, <1>5 DEF IInv

-------------------------------------------------------------------------------
(* What main() and a worker can change *)

LEMMA MainFrame ==
    ASSUME TypeOK, MainStep
    PROVE  /\ UNCHANGED <<mutex, held, scan_n, nowLate, late, popNum, aborted>>
           /\ pc' \in [Workers -> {"boot", "barrier", "top", "lock", "test", "look",
                                   "scan", "waiting", "consume", "record", "assert",
                                   "done"}]
           /\ \A w \in Workers : pc'[w] = pc[w] \/ (pc[w] = "waiting" /\ pc'[w] = "lock")
<1>1. UNCHANGED <<mutex, held, scan_n, nowLate, late, popNum, aborted>>
  BY DEF MainStep, MainArrive, MainLeave, SubmitAccepted, SubmitRefused, Mark, Drain,
         Drained, Stop, PoisonAccepted, PoisonRefused, Join, MainOnly, scanVars
<1>2. pc' = pc \/ Broadcast
  BY DEF MainStep, MainArrive, MainLeave, SubmitAccepted, SubmitRefused, Mark, Drain,
         Drained, Stop, PoisonAccepted, PoisonRefused, Join
<1>3. CASE pc' = pc
  BY <1>3, <1>1 DEF TypeOK
<1>4. CASE Broadcast
  BY <1>4, <1>1 DEF TypeOK, Broadcast
<1> QED BY <1>2, <1>3, <1>4

\* Where a worker goes from where it is, whoever it is.
Follows(a, b) ==
    \/ a = "boot" /\ b = "barrier"
    \/ a = "barrier" /\ b = "top"
    \/ a = "top" /\ b \in {"lock", "done"}
    \/ a = "lock" /\ b = "test"
    \/ a = "test" /\ b \in {"look", "done"}
    \/ a = "look" /\ b \in {"scan", "waiting", "consume", "done"}
    \/ a = "scan" /\ b \in {"scan", "waiting", "consume", "done"}
    \/ a = "waiting" /\ b = "lock"
    \/ a = "consume" /\ b \in {"record", "top"}
    \/ a = "record" /\ b = "assert"
    \/ a = "assert" /\ b \in {"assert", "top"}

LEMMA WorkerFrame ==
    ASSUME TypeOK, NEW w \in Workers, WorkerStep(w) \/ SpuriousWakeup(w)
    PROVE  /\ UNCHANGED <<main, j, pushed, poisoned, exiting, late>>
           /\ pc' = [pc EXCEPT ![w] = pc'[w]]
           /\ Follows(pc[w], pc'[w])
           /\ held' = [held EXCEPT ![w] = held'[w]]
           /\ popNum' = [popNum EXCEPT ![w] = popNum'[w]]
<1>1. UNCHANGED <<main, j, pushed, poisoned, exiting, late>>
  BY DEF WorkerStep, SpuriousWakeup, Boot, Leave, Top, PopLock, PopTest, PopOldest, Wait,
         ScanStart, ScanDrop, ScanTake, ScanLeave, Finish, Dismiss, Record,
         CheckAssertion, WorkerOnly
<1>2. /\ pc' = [pc EXCEPT ![w] = pc'[w]]
      /\ Follows(pc[w], pc'[w])
  BY DEF TypeOK, WorkerStep, SpuriousWakeup, Boot, Leave, Top, PopLock, PopTest, PopOldest, Wait,
         ScanStart, ScanDrop, ScanTake, ScanLeave, Finish, Dismiss, Record,
         CheckAssertion, PopReturn, Goto, Follows
<1>3. held' = [held EXCEPT ![w] = held'[w]]
  BY DEF TypeOK, WorkerStep, SpuriousWakeup, Boot, Leave, Top, PopLock, PopTest, PopOldest, Wait,
         ScanStart, ScanDrop, ScanTake, ScanLeave, Finish, Dismiss, Record,
         CheckAssertion, PopReturn
<1>4. popNum' = [popNum EXCEPT ![w] = popNum'[w]]
  BY DEF TypeOK, WorkerStep, SpuriousWakeup, Boot, Leave, Top, PopLock, PopTest, PopOldest, Wait,
         ScanStart, ScanDrop, ScanTake, ScanLeave, Finish, Dismiss, Record,
         CheckAssertion, PopReturn
<1> QED BY <1>1, <1>2, <1>3, <1>4


-------------------------------------------------------------------------------
(* What each step does to the ring *)

LEMMA RingOfIInv == IInv => RingInv
BY DEF IInv, TypeOK, RingInv

\* Every element queued was pushed.
LEMMA QueuedType == RingInv => Queued \subseteq Elem
BY DEF RingInv, RingShape, Queued

LEMMA SubmitAcceptedRing ==
    ASSUME IInv, SubmitAccepted
    PROVE  RingInv' /\ Queued' = Queued \cup {j} /\ size' = size + 1 /\ j \in Jobs
<1>1. j \in Jobs /\ j \in Elem
  BY Constants DEF IInv, MainInv, SubmitAccepted
<1> QED BY <1>1, RingOfIInv, PushSlots DEF SubmitAccepted, PushAccepted

LEMMA PoisonAcceptedRing ==
    ASSUME IInv, PoisonAccepted
    PROVE  RingInv' /\ Queued' = Queued \cup {dummy} /\ size' = size + 1
BY RingOfIInv, PushSlots, Constants DEF PoisonAccepted, PushAccepted

\* The rest of main() leaves the ring as it is.
LEMMA MainRing ==
    ASSUME MainStep, ~SubmitAccepted, ~PoisonAccepted
    PROVE  UNCHANGED qvars
BY DEF MainStep, MainArrive, MainLeave, SubmitRefused, Mark, Drain, Drained, Stop,
       PoisonRefused, Join, PushRefused, PushFull, PushDismissed

\* A worker gets an element that was queued.
LEMMA TakeRing ==
    ASSUME IInv, NEW w \in Workers, PopOldest(w) \/ ScanTake(w)
    PROVE  /\ RingInv' /\ Queued' \subseteq Queued /\ size' = size - 1
           /\ held'[w] \in Queued
           /\ pc'[w] = IF held'[w] \in {NULL, dummy} THEN "done" ELSE "consume"
           /\ size > 0
<1>1. RingInv /\ size \in Nat /\ scan_n \in Nat /\ held \in [Workers -> Elem \cup {NULL}]
      /\ w \in DOMAIN pc /\ 0 \in Nat
  BY RingOfIInv, Constants DEF IInv, TypeOK, QTypeOK
<1>2. CASE PopOldest(w)
  <2>1. rtq_pop_nosync /\ PopReturn(w, rtq_peekn_nosync(0)) /\ size # 0
    BY <1>2 DEF PopOldest, rtq_pop_nosync
  <2>2. rtq_popn_nosync(0)
    BY <1>1, <2>1, PopIsPopnZero
  <2>3. rtq_peekn_nosync(0) = elems[Slot(0)]
    BY <1>1, <2>1 DEF rtq_peekn_nosync
  <2>4. /\ RingInv' /\ Queued' \subseteq Queued /\ size' = size - 1
        /\ elems[Slot(0)] \in Queued
    BY <1>1, <2>2, PopnSlots
  <2> QED BY <1>1, <2>1, <2>3, <2>4 DEF PopReturn, Goto
<1>3. CASE ScanTake(w)
  <2>1. rtq_popn_nosync(scan_n) /\ PopReturn(w, Scanned) /\ scan_n < size
    BY <1>3 DEF ScanTake
  <2>2. Scanned = elems[Slot(scan_n)]
    BY <1>1, <2>1 DEF Scanned, rtq_peekn_nosync
  <2>3. /\ RingInv' /\ Queued' \subseteq Queued /\ size' = size - 1
        /\ elems[Slot(scan_n)] \in Queued
    BY <1>1, <2>1, PopnSlots
  <2> QED BY <1>1, <2>1, <2>2, <2>3 DEF PopReturn, Goto
<1> QED BY <1>2, <1>3

LEMMA DropRing ==
    ASSUME IInv, NEW w \in Workers, ScanDrop(w)
    PROVE  RingInv' /\ Queued' \subseteq Queued /\ size' = size - 1 /\ Scanned \in Queued
<1>1. RingInv /\ size \in Nat /\ scan_n \in Nat
  BY RingOfIInv, Constants DEF IInv, TypeOK, QTypeOK
<1>2. rtq_popn_nosync(scan_n) /\ scan_n < size
  BY DEF ScanDrop
<1>3. Scanned = elems[Slot(scan_n)]
  BY <1>1, <1>2 DEF Scanned, rtq_peekn_nosync
<1> QED BY <1>1, <1>2, <1>3, PopnSlots

\* The rest of a worker leaves the ring as it is.
LEMMA WorkerRing ==
    ASSUME NEW w \in Workers, WorkerStep(w) \/ SpuriousWakeup(w),
           ~PopOldest(w), ~ScanTake(w), ~ScanDrop(w)
    PROVE  UNCHANGED qvars
BY DEF WorkerStep, SpuriousWakeup, Boot, Leave, Top, PopLock, PopTest, Wait, ScanStart,
       ScanLeave, Finish, Dismiss, Record, CheckAssertion

\* Every step ends in a ring of the right shape, and changes what is queued as a
\* push or a pop does or not at all.
LEMMA RingKeeps ==
    ASSUME IInv, [Next]_vars
    PROVE  RingInv' /\ Queued' \subseteq Queued \cup {j, dummy}
<1>1. ASSUME UNCHANGED qvars PROVE RingInv' /\ Queued' = Queued
  BY <1>1, RingOfIInv, RingAlone DEF RingInv
<1>2. CASE MainStep
  BY <1>1, <1>2, SubmitAcceptedRing, PoisonAcceptedRing, MainRing
<1>3. ASSUME NEW w \in Workers, WorkerStep(w) \/ SpuriousWakeup(w)
      PROVE  RingInv' /\ Queued' \subseteq Queued
  BY <1>1, <1>3, TakeRing, DropRing, WorkerRing
<1>4. ASSUME NEW i \in Jobs, Expire(i) PROVE UNCHANGED qvars
  BY <1>4 DEF Expire
<1>5. CASE UNCHANGED vars
  BY <1>1, <1>5 DEF vars
<1> QED BY <1>1, <1>2, <1>3, <1>4, <1>5 DEF Next, Terminated

-------------------------------------------------------------------------------
(* Each part of IInv survives each step *)

LEMMA TypeKeeps == ASSUME IInv, [Next]_vars PROVE TypeOK'
<1>1. TypeOK /\ MainInv /\ HeldInv
  BY DEF IInv
<1>2. QTypeOK'
  BY RingKeeps DEF RingInv
<1>3. CASE MainStep
  <2>1. exiting' \in BOOLEAN /\ pushed' \in BOOLEAN
        /\ main' \in {"boot", "barrier", "submit", "mark", "drain", "stop",
                      "poison", "join", "report"}
    BY <1>1, <1>3 DEF TypeOK, MainStep, MainArrive, MainLeave, SubmitAccepted,
       SubmitRefused, Mark, Drain, Drained, Stop, PoisonAccepted, PoisonRefused, Join
  <2>2. j' \in 1 .. num_reqs + 1
    <3>1. CASE Mark
      BY <1>1, <3>1, Constants DEF TypeOK, MainInv, Mark, Jobs
    <3>2. CASE ~Mark
      BY <1>1, <1>3, <3>2 DEF TypeOK, MainStep, MainArrive, MainLeave, SubmitAccepted,
         SubmitRefused, Drain, Drained, Stop, PoisonAccepted, PoisonRefused, Join
    <3> QED BY <3>1, <3>2
  <2>3. poisoned' \in 0 .. num_child
    <3>1. CASE PoisonAccepted
      BY <1>1, <3>1, Constants DEF TypeOK, MainInv, PoisonAccepted
    <3>2. CASE ~PoisonAccepted
      BY <1>1, <1>3, <3>2 DEF TypeOK, MainStep, MainArrive, MainLeave, SubmitAccepted,
         SubmitRefused, Mark, Drain, Drained, Stop, PoisonRefused, Join
    <3> QED BY <3>1, <3>2
  <2>4. elapsed' \in [Jobs -> -1 .. 1]
    BY <1>1, <1>3 DEF TypeOK, MainStep, MainArrive, MainLeave, SubmitAccepted,
       SubmitRefused, Mark, Drain, Drained, Stop, PoisonAccepted, PoisonRefused, Join
  <2>5. fate' \in [Jobs -> SUBSET {"refused", "dropped", "dismissed", "finished"}]
    <3>1. fate' = fate \/ Befalls(j, "refused")
      BY <1>3 DEF MainStep, MainArrive, MainLeave, SubmitAccepted,
         SubmitRefused, Mark, Drain, Drained, Stop, PoisonAccepted, PoisonRefused, Join
    <3> QED BY <1>1, <3>1 DEF TypeOK, Befalls
  <2> QED BY <1>1, <1>2, <1>3, <2>1, <2>2, <2>3, <2>4, <2>5, MainFrame DEF TypeOK
<1>4. ASSUME NEW w \in Workers, WorkerStep(w) \/ SpuriousWakeup(w) PROVE TypeOK'
  <2>1. pc' \in [Workers -> {"boot", "barrier", "top", "lock", "test", "look", "scan",
                             "waiting", "consume", "record", "assert", "done"}]
    BY <1>1, <1>4, WorkerFrame DEF TypeOK, Follows
  <2>2. held' \in [Workers -> Elem \cup {NULL}]
    <3>1. CASE PopOldest(w) \/ ScanTake(w)
      BY <1>1, <3>1, <1>4, TakeRing, QueuedType, RingOfIInv, WorkerFrame DEF TypeOK
    <3>2. CASE ~PopOldest(w) /\ ~ScanTake(w)
      <4>1. held' = held \/ held' = [held EXCEPT ![w] = NULL]
        BY <1>4, <3>2 DEF WorkerStep, SpuriousWakeup, Boot, Leave, Top, PopLock, PopTest,
           Wait, ScanStart, ScanDrop, ScanLeave, Finish, Dismiss, Record, CheckAssertion,
           PopReturn
      <4> QED BY <1>1, <4>1 DEF TypeOK
    <3> QED BY <3>1, <3>2
  <2>3. popNum' \in [Workers -> Nat]
    <3>1. popNum' = popNum \/ popNum' = [popNum EXCEPT ![w] = @ + 1]
      BY <1>4 DEF WorkerStep, SpuriousWakeup, Boot, Leave, Top, PopLock, PopTest, PopOldest,
         Wait, ScanStart, ScanDrop, ScanTake, ScanLeave, Finish, Dismiss, Record,
         CheckAssertion, PopReturn
    <3> QED BY <1>1, <3>1 DEF TypeOK
  <2>4. scan_n' \in 0 .. MAX_SIZE /\ nowLate' \subseteq Jobs
    <3>1. \/ UNCHANGED <<scan_n, nowLate>>
          \/ scan_n' = 0 /\ nowLate' \in {{}, late}
          \/ scan_n < size /\ scan_n' = scan_n + 1 /\ nowLate' = nowLate
      BY <1>4 DEF WorkerStep, SpuriousWakeup, Boot, Leave, Top, PopLock, PopTest, PopOldest,
         Wait, ScanStart, ScanDrop, ScanTake, ScanLeave, Finish, Dismiss, Record,
         CheckAssertion, PopReturn, scanVars
    <3> QED BY <1>1, <3>1, Constants DEF TypeOK, QTypeOK
  <2>5. mutex' \in Workers \cup {Nobody}
    BY <1>1, <1>4 DEF TypeOK, WorkerStep, SpuriousWakeup, Boot, Leave, Top, PopLock, PopTest,
       PopOldest, Wait, ScanStart, ScanDrop, ScanTake, ScanLeave, Finish, Dismiss, Record,
       CheckAssertion, PopReturn
  <2>6. elapsed' \in [Jobs -> -1 .. 1]
    BY <1>1, <1>4 DEF TypeOK, WorkerStep, SpuriousWakeup, Boot, Leave, Top, PopLock, PopTest,
       PopOldest, Wait, ScanStart, ScanDrop, ScanTake, ScanLeave, Finish, Dismiss, Record,
       CheckAssertion
  <2>7. aborted' \in BOOLEAN
    BY <1>1, <1>4 DEF TypeOK, WorkerStep, SpuriousWakeup, Boot, Leave, Top, PopLock, PopTest,
       PopOldest, Wait, ScanStart, ScanDrop, ScanTake, ScanLeave, Finish, Dismiss, Record,
       CheckAssertion
  <2>8. fate' \in [Jobs -> SUBSET {"refused", "dropped", "dismissed", "finished"}]
    <3>1. \/ fate' = fate \/ Befalls(Scanned, "dropped")
          \/ Befalls(held[w], "finished") \/ Befalls(held[w], "dismissed")
      BY <1>4 DEF WorkerStep, SpuriousWakeup, Boot, Leave, Top, PopLock, PopTest, PopOldest,
         Wait, ScanStart, ScanDrop, ScanTake, ScanLeave, Finish, Dismiss, Record,
         CheckAssertion
    <3> QED BY <1>1, <3>1 DEF TypeOK, Befalls
  <2> QED BY <1>1, <1>2, <1>4, <2>1, <2>2, <2>3, <2>4, <2>5, <2>6, <2>7, <2>8, WorkerFrame
          DEF TypeOK
<1>5. ASSUME NEW i \in Jobs, Expire(i) PROVE TypeOK'
  BY <1>1, <1>2, <1>5 DEF Expire, TypeOK, scanVars
<1>6. CASE UNCHANGED vars
  BY <1>1, <1>2, <1>6 DEF vars, TypeOK, scanVars
<1> QED BY <1>3, <1>4, <1>5, <1>6 DEF Next, Terminated

LEMMA MainInvKeeps == ASSUME IInv, [Next]_vars PROVE MainInv'
<1>1. TypeOK /\ MainInv
  BY DEF IInv
<1>2. CASE Mark
  BY <1>1, <1>2, Constants DEF TypeOK, MainInv, Mark, Jobs
<1>3. CASE PoisonAccepted
  BY <1>1, <1>3, Constants DEF TypeOK, MainInv, PoisonAccepted
<1>4. CASE Stop
  BY <1>1, <1>4, Constants DEF TypeOK, MainInv, Stop
<1>5. CASE MainStep /\ ~Mark /\ ~PoisonAccepted /\ ~Stop
  <2>1. UNCHANGED <<exiting, j, poisoned>>
    BY <1>5 DEF MainStep, MainArrive, MainLeave, SubmitAccepted, SubmitRefused, Drain,
       Drained, PoisonRefused, Join
  <2>2. \/ main' = main
        \/ main = "boot" /\ main' = "barrier"
        \/ main = "barrier" /\ main' = "submit"
        \/ main = "submit" /\ main' = "mark"
        \/ main = "drain" /\ main' = "stop"
        \/ main = "join" /\ main' = "report"
    BY <1>5 DEF MainStep, MainArrive, MainLeave, SubmitAccepted, SubmitRefused, Drain,
       Drained, PoisonRefused, Join
  <2> QED BY <1>1, <2>1, <2>2 DEF MainInv
<1>6. ASSUME NEW w \in Workers, WorkerStep(w) \/ SpuriousWakeup(w) PROVE MainInv'
  BY <1>1, <1>6, WorkerFrame DEF MainInv
<1>7. ASSUME NEW i \in Jobs, Expire(i) PROVE MainInv'
  BY <1>1, <1>7 DEF MainInv, Expire
<1>8. CASE UNCHANGED vars
  BY <1>1, <1>8 DEF MainInv, vars
<1> QED BY <1>2, <1>3, <1>4, <1>5, <1>6, <1>7, <1>8 DEF Next, Terminated

LEMMA LockKeeps == ASSUME IInv, [Next]_vars PROVE LockInv'
<1>1. TypeOK /\ LockInv
  BY DEF IInv
<1>2. CASE MainStep
  BY <1>1, <1>2, MainFrame DEF LockInv
<1>3. ASSUME NEW w \in Workers, WorkerStep(w) \/ SpuriousWakeup(w) PROVE LockInv'
  <2>1. \A v \in Workers \ {w} : pc'[v] = pc[v]
    BY <1>1, <1>3, WorkerFrame DEF TypeOK
  <2>2. \/ /\ mutex' = mutex
           /\ pc[w] \in {"test", "look", "scan"} <=> pc'[w] \in {"test", "look", "scan"}
        \/ mutex = Nobody /\ mutex' = w /\ pc'[w] = "test"
        \/ /\ mutex' = Nobody /\ pc[w] \in {"test", "look", "scan"}
           /\ pc'[w] \notin {"test", "look", "scan"}
    BY <1>1, <1>3 DEF TypeOK, WorkerStep, SpuriousWakeup, Boot, Leave, Top, PopLock, PopTest,
       PopOldest, Wait, ScanStart, ScanDrop, ScanTake, ScanLeave, Finish, Dismiss, Record,
       CheckAssertion, PopReturn, Goto
  <2> QED BY <1>1, <2>1, <2>2, Constants DEF LockInv
<1>4. ASSUME NEW i \in Jobs, Expire(i) PROVE LockInv'
  BY <1>1, <1>4 DEF LockInv, Expire
<1>5. CASE UNCHANGED vars
  BY <1>1, <1>5 DEF LockInv, vars
<1> QED BY <1>2, <1>3, <1>4, <1>5 DEF Next, Terminated

\* The first dummy is pushed while no worker holds the mutex, so none is between
\* its test of exiting and its wait; those asleep are woken; and exiting, set
\* before, keeps every worker from getting there again.
LEMMA StrandedKeeps == ASSUME IInv, [Next]_vars PROVE NoStrandedWorker'
<1>1. TypeOK /\ NoStrandedWorker /\ MainInv /\ LockInv
  BY DEF IInv
<1>2. CASE PoisonAccepted
  <2>1. \A w \in Workers : pc[w] \notin {"look", "scan"}
    BY <1>1, <1>2, Constants DEF LockInv, PoisonAccepted
  <2>2. \A w \in Workers : pc'[w] = IF pc[w] = "waiting" THEN "lock" ELSE pc[w]
    BY <1>2 DEF PoisonAccepted, Broadcast
  <2> QED BY <2>1, <2>2 DEF NoStrandedWorker
<1>3. CASE MainStep /\ ~PoisonAccepted
  <2>1. poisoned' = poisoned
    BY <1>3 DEF MainStep, MainArrive, MainLeave, SubmitAccepted, SubmitRefused, Mark,
       Drain, Drained, Stop, PoisonRefused, Join
  <2> QED BY <1>1, <1>3, <2>1, MainFrame DEF NoStrandedWorker
<1>4. ASSUME NEW w \in Workers, WorkerStep(w) \/ SpuriousWakeup(w) PROVE NoStrandedWorker'
  <2>1. poisoned' = poisoned /\ \A v \in Workers \ {w} : pc'[v] = pc[v]
    BY <1>1, <1>4, WorkerFrame DEF TypeOK
  <2>2. ASSUME poisoned > 0 PROVE pc'[w] \notin {"look", "scan", "waiting"}
    <3>1. exiting
      BY <1>1, <2>2 DEF MainInv
    <3>2. pc[w] \notin {"look", "scan", "waiting"}
      BY <1>1, <2>2 DEF NoStrandedWorker
    <3>3. CASE PopTest(w)
      BY <1>1, <3>1, <3>3 DEF TypeOK, PopTest, PopReturn, Goto
    <3>4. CASE ~PopTest(w)
      <4>1. pc[w] # "test"
        BY <1>4, <3>4 DEF WorkerStep, SpuriousWakeup, Boot, Leave, Top, PopLock, PopOldest,
           Wait, ScanStart, ScanDrop, ScanTake, ScanLeave, Finish, Dismiss, Record,
           CheckAssertion
      <4> QED BY <1>1, <1>4, <3>2, <4>1, WorkerFrame DEF Follows
    <3> QED BY <3>3, <3>4
  <2> QED BY <1>1, <2>1, <2>2 DEF NoStrandedWorker
<1>5. ASSUME NEW i \in Jobs, Expire(i) PROVE NoStrandedWorker'
  BY <1>1, <1>5 DEF NoStrandedWorker, Expire
<1>6. CASE UNCHANGED vars
  BY <1>1, <1>6 DEF NoStrandedWorker, vars
<1> QED BY <1>2, <1>3, <1>4, <1>5, <1>6 DEF Next, Terminated

\* A job in a worker's hands was queued; before the first dummy only jobs are.
LEMMA HeldKeeps == ASSUME IInv, [Next]_vars PROVE HeldInv'
<1>1. TypeOK /\ HeldInv /\ MainInv /\ NoStrandedWorker /\ Queued \subseteq Elem
  BY RingOfIInv, QueuedType DEF IInv
<1>2. Elem = Jobs \cup {dummy} /\ j # dummy /\ NULL \notin Elem
  BY <1>1, Constants, JamsAssumption, QueueAssumption DEF TypeOK, dummy
<1>3. poisoned' = 0 => dummy \notin Queued'
  <2>1. CASE PoisonAccepted
    BY <1>1, <2>1, Constants DEF TypeOK, PoisonAccepted
  <2>2. CASE ~PoisonAccepted
    <3>1. poisoned' = poisoned
      BY <2>2, WorkerFrame, <1>1 DEF Next, MainStep, MainArrive, MainLeave, SubmitAccepted,
         SubmitRefused, Mark, Drain, Drained, Stop, PoisonRefused, Join, Expire,
         Terminated, vars
    <3>2. dummy \notin Queued => dummy \notin Queued'
      <4>1. ASSUME UNCHANGED qvars PROVE Queued' = Queued
        BY <4>1, RingAlone
      <4>2. CASE MainStep
        BY <1>2, <2>2, <4>1, <4>2, SubmitAcceptedRing, MainRing
      <4>3. ASSUME NEW w \in Workers, WorkerStep(w) \/ SpuriousWakeup(w)
            PROVE  Queued' \subseteq Queued
        BY <4>1, <4>3, TakeRing, DropRing, WorkerRing
      <4>4. ASSUME NEW i \in Jobs, Expire(i) PROVE UNCHANGED qvars
        BY <4>4 DEF Expire
      <4> QED BY <4>1, <4>2, <4>3, <4>4 DEF Next, Terminated, vars
    <3> QED BY <1>1, <3>1, <3>2 DEF HeldInv
  <2> QED BY <2>1, <2>2
<1>4. CASE MainStep
  <2>1. held' = held /\ \A w \in Workers : Processing(w)' = Processing(w)
    BY <1>1, <1>4, MainFrame DEF Processing
  <2> QED BY <1>1, <1>3, <2>1 DEF HeldInv
<1>5. ASSUME NEW w \in Workers, WorkerStep(w) \/ SpuriousWakeup(w) PROVE HeldInv'
  <2>1. \A v \in Workers \ {w} : held'[v] = held[v] /\ pc'[v] = pc[v]
    BY <1>1, <1>5, WorkerFrame DEF TypeOK
  <2>2. held'[w] \in Jobs \cup {NULL} /\ Processing(w)' \subseteq Jobs
    <3>1. CASE PopOldest(w) \/ ScanTake(w)
      <4>1. pc[w] \in {"look", "scan"}
        BY <3>1 DEF PopOldest, ScanTake
      <4>2. dummy \notin Queued
        BY <1>1, <4>1 DEF NoStrandedWorker, HeldInv, TypeOK
      <4>3. held'[w] \in Queued
        BY <3>1, TakeRing
      <4> QED BY <1>1, <1>2, <4>2, <4>3 DEF Processing
    <3>2. CASE ~PopOldest(w) /\ ~ScanTake(w)
      <4>1. \/ held' = held
            \/ /\ held' = [held EXCEPT ![w] = NULL]
               /\ pc'[w] \in {"done", "lock"}
        BY <1>1, <1>5, <3>2 DEF TypeOK, WorkerStep, SpuriousWakeup, Boot, Leave, Top, PopLock,
           PopTest, Wait, ScanStart, ScanDrop, ScanLeave, Finish, Dismiss, Record,
           CheckAssertion, PopReturn, Goto
      <4>2. CASE held' = held
        <5>1. pc'[w] \in {"consume", "record", "assert"}
                  => pc[w] \in {"consume", "record", "assert"}
          BY <1>1, <1>5, <3>2 DEF TypeOK, WorkerStep, SpuriousWakeup, Boot, Leave, Top,
             PopLock, PopTest, Wait, ScanStart, ScanDrop, ScanLeave, Finish, Dismiss,
             Record, CheckAssertion, PopReturn, Goto
        <5> QED BY <1>1, <4>2, <5>1 DEF HeldInv, Processing
      <4>3. CASE held' = [held EXCEPT ![w] = NULL] /\ pc'[w] \in {"done", "lock"}
        BY <1>1, <4>3 DEF TypeOK, Processing
      <4> QED BY <4>1, <4>2, <4>3
    <3> QED BY <3>1, <3>2
  <2> QED BY <1>1, <1>3, <2>1, <2>2 DEF HeldInv, Processing
<1>6. ASSUME NEW i \in Jobs, Expire(i) PROVE HeldInv'
  BY <1>1, <1>3, <1>6 DEF Expire, HeldInv, Processing
<1>7. CASE UNCHANGED vars
  BY <1>1, <1>3, <1>7 DEF vars, HeldInv, Processing
<1> QED BY <1>4, <1>5, <1>6, <1>7 DEF Next, Terminated

LEMMA RecordKeeps == ASSUME IInv, [Next]_vars PROVE RecordInv'
<1>1. TypeOK /\ RecordInv /\ HeldInv
  BY DEF IInv
<1>2. \A i \in Jobs : fate[i] \subseteq fate'[i]
  <2>1. fate' = fate \/ \E i \in Jobs \cup {j, Scanned} \cup {held[w] : w \in Workers},
                           what \in {"refused", "dropped", "dismissed", "finished"} :
                            Befalls(i, what)
    BY DEF Next, MainStep, MainArrive, MainLeave, SubmitAccepted, SubmitRefused, Mark,
       Drain, Drained, Stop, PoisonAccepted, PoisonRefused, Join, WorkerStep,
       SpuriousWakeup, Boot, Leave, Top, PopLock, PopTest, PopOldest, Wait, ScanStart,
       ScanDrop, ScanTake, ScanLeave, Finish, Dismiss, Record, CheckAssertion, Expire,
       Terminated, vars
  <2> QED BY <1>1, <2>1 DEF TypeOK, Befalls
<1>3. CASE MainStep
  BY <1>1, <1>2, <1>3, MainFrame DEF RecordInv, HeldInv, Processing
<1>4. ASSUME NEW w \in Workers, WorkerStep(w) \/ SpuriousWakeup(w) PROVE RecordInv'
  <2>1. \A v \in Workers \ {w} : held'[v] = held[v] /\ pc'[v] = pc[v]
    BY <1>1, <1>4, WorkerFrame DEF TypeOK
  <2>2. \A v \in Workers : pc[v] = "record" => held[v] \in Jobs
    BY <1>1 DEF HeldInv, Processing
  <2>3. CASE Finish(w)
    <3>1. held[w] \in Jobs /\ held' = held /\ Befalls(held[w], "finished")
      BY <1>1, <2>3 DEF Finish, HeldInv, Processing
    <3>2. "finished" \in fate'[held'[w]]
      BY <1>1, <3>1 DEF TypeOK, Befalls
    <3> QED BY <1>1, <1>2, <2>1, <2>2, <3>2 DEF RecordInv
  <2>4. CASE ~Finish(w)
    <3>1. pc'[w] # "record"
      BY <1>1, <1>4, <2>4 DEF TypeOK, WorkerStep, SpuriousWakeup, Boot, Leave, Top, PopLock,
         PopTest, PopOldest, Wait, ScanStart, ScanDrop, ScanTake, ScanLeave, Dismiss,
         Record, CheckAssertion, PopReturn, Goto
    <3> QED BY <1>1, <1>2, <2>1, <2>2, <3>1 DEF RecordInv
  <2> QED BY <2>3, <2>4
<1>5. ASSUME NEW i \in Jobs, Expire(i) PROVE RecordInv'
  BY <1>1, <1>5 DEF Expire, RecordInv
<1>6. CASE UNCHANGED vars
  BY <1>1, <1>6 DEF vars, RecordInv
<1> QED BY <1>3, <1>4, <1>5, <1>6 DEF Next, Terminated

\* A worker that logs a pop has made the queue one shorter, or leaves its loop.
LEMMA PopKeeps == ASSUME IInv, [Next]_vars PROVE PopInv'
<1>1. TypeOK /\ PopInv /\ MainInv /\ NoStrandedWorker /\ HeldInv
  BY DEF IInv
<1>2. size \in Nat /\ j \in Nat /\ poisoned \in Nat /\ \A w \in Workers : popNum[w] \in Nat
  BY <1>1, Constants DEF TypeOK, QTypeOK
<1>3. CASE MainStep
  <2>1. popNum' = popNum /\ \A w \in Workers : pc'[w] = "done" <=> pc[w] = "done"
    BY <1>1, <1>3, MainFrame
  <2>2. CASE SubmitAccepted
    <3>1. main = "submit" /\ main' = "mark" /\ j' = j /\ poisoned' = poisoned
          /\ size' = size + 1
      BY <2>2, SubmitAcceptedRing DEF SubmitAccepted
    <3> QED BY <1>1, <1>2, <2>1, <3>1 DEF PopInv
  <2>3. CASE PoisonAccepted
    <3>1. poisoned' = poisoned + 1 /\ j' = j /\ main = "poison" /\ main' # "mark"
      BY <2>3 DEF PoisonAccepted
    <3> QED BY <1>1, <1>2, <2>1, <3>1 DEF PopInv
  <2>4. CASE ~SubmitAccepted /\ ~PoisonAccepted
    <3>1. size' = size /\ poisoned' = poisoned
      BY <1>3, <2>4, MainRing DEF qvars, MainStep, MainArrive, MainLeave, SubmitRefused, Mark,
         Drain, Drained, Stop, PoisonRefused, Join
    <3>2. \/ main = "mark" /\ main' # "mark" /\ j' = j + 1
          \/ main # "mark" /\ j' = j
      BY <1>3, <2>4 DEF MainStep, MainArrive, MainLeave, SubmitRefused, Mark,
         Drain, Drained, Stop, PoisonRefused, Join
    <3> QED BY <1>1, <1>2, <2>1, <3>1, <3>2 DEF PopInv
  <2> QED BY <2>2, <2>3, <2>4
<1>4. ASSUME NEW w \in Workers, WorkerStep(w) \/ SpuriousWakeup(w) PROVE PopInv'
  <2>1. /\ UNCHANGED <<main, j, poisoned>>
        /\ \A v \in Workers \ {w} : popNum'[v] = popNum[v] /\ pc'[v] = pc[v]
        /\ pc[w] # "done"
    BY <1>1, <1>4, WorkerFrame DEF TypeOK, Follows
  <2>2. CASE PopOldest(w) \/ ScanTake(w)
    <3>1. size' = size - 1 /\ popNum'[w] \in {popNum[w], popNum[w] + 1}
      BY <1>1, <2>2, TakeRing DEF TypeOK, PopOldest, ScanTake, PopReturn
    <3>2. poisoned = 0
      BY <1>1, <1>2, <2>2 DEF NoStrandedWorker, PopOldest, ScanTake
    <3> QED BY <1>1, <1>2, <2>1, <3>1, <3>2 DEF PopInv
  <2>3. CASE PopTest(w)
    <3>1. size' = size
      BY <2>3 DEF PopTest, qvars
    <3>2. popNum'[w] = popNum[w] \/ (popNum'[w] = popNum[w] + 1 /\ pc'[w] = "done")
      BY <1>1, <2>3 DEF TypeOK, PopTest, PopReturn, Goto
    <3> QED BY <1>1, <1>2, <2>1, <3>1, <3>2 DEF PopInv
  <2>4. CASE ~PopOldest(w) /\ ~ScanTake(w) /\ ~PopTest(w)
    <3>1. popNum' = popNum
      BY <1>4, <2>4 DEF WorkerStep, SpuriousWakeup, Boot, Leave, Top, PopLock, Wait, ScanStart,
         ScanDrop, ScanLeave, Finish, Dismiss, Record, CheckAssertion
    <3>2. size' = size \/ size' = size - 1
      BY <1>4, <2>4, DropRing, WorkerRing DEF qvars
    <3> QED BY <1>1, <1>2, <2>1, <3>1, <3>2 DEF PopInv
  <2> QED BY <2>2, <2>3, <2>4
<1>5. ASSUME NEW i \in Jobs, Expire(i) PROVE PopInv'
  BY <1>1, <1>5 DEF Expire, PopInv, qvars
<1>6. CASE UNCHANGED vars
  BY <1>1, <1>6 DEF vars, PopInv, qvars
<1> QED BY <1>3, <1>4, <1>5, <1>6 DEF Next, Terminated

\* A worker touches only jobs that are queued or in its hands, and never calls
\* one of them refused.
LEMMA WorkerTouches ==
    ASSUME IInv, NEW w \in Workers, WorkerStep(w) \/ SpuriousWakeup(w), NEW i \in Jobs
    PROVE  /\ Absent(i) => Absent(i)' /\ fate'[i] = fate[i] /\ elapsed'[i] = elapsed[i]
           /\ fate[i] \subseteq fate'[i]
           /\ "refused" \in fate'[i] => "refused" \in fate[i]
           /\ elapsed'[i] = -1 => elapsed[i] = -1
           /\ elapsed'[i] = 1 => elapsed[i] = 1 \/ "finished" \in fate[i]
<1>1. TypeOK /\ HeldInv /\ RecordInv
  BY DEF IInv
<1>2. Queued' \subseteq Queued
  <2>1. ASSUME UNCHANGED qvars PROVE Queued' = Queued
    BY <2>1, RingAlone
  <2> QED BY <2>1, TakeRing, DropRing, WorkerRing
<1>3. Processing(w)' \subseteq Queued \cup Processing(w)
  <2>1. CASE PopOldest(w) \/ ScanTake(w)
    BY <2>1, TakeRing DEF Processing
  <2>2. CASE ~PopOldest(w) /\ ~ScanTake(w)
    <3>1. pc'[w] \in {"consume", "record", "assert"}
              => held' = held /\ pc[w] \in {"consume", "record", "assert"}
      BY <1>1, <2>2 DEF TypeOK, WorkerStep, SpuriousWakeup, Boot, Leave, Top,
         PopLock, PopTest, Wait, ScanStart, ScanDrop, ScanLeave, Finish, Dismiss,
         Record, CheckAssertion, PopReturn, Goto
    <3> QED BY <3>1 DEF Processing
  <2> QED BY <2>1, <2>2
<1>4. \A v \in Workers \ {w} : Processing(v)' = Processing(v)
  <2>1. \A v \in Workers \ {w} : held'[v] = held[v] /\ pc'[v] = pc[v]
    BY <1>1, WorkerFrame DEF TypeOK
  <2> QED BY <2>1 DEF Processing
<1>5. Absent(i) => Absent(i)'
  BY <1>2, <1>3, <1>4 DEF Absent
<1>6. CASE ScanDrop(w)
  <2>1. Scanned \in Queued /\ elapsed' = elapsed
        /\ (fate' = fate \/ Befalls(Scanned, "dropped"))
    BY <1>6, DropRing DEF ScanDrop
  <2> QED BY <1>1, <1>5, <2>1 DEF TypeOK, Befalls, Absent
<1>7. CASE Finish(w) \/ Dismiss(w) \/ Record(w)
  <2>1. held[w] \in Jobs /\ held[w] \in Processing(w)
    BY <1>1, <1>7 DEF Finish, Dismiss, Record, Processing, HeldInv
  <2>2. CASE Finish(w)
    BY <1>1, <1>5, <2>1, <2>2 DEF TypeOK, Finish, Befalls, Absent
  <2>3. CASE Dismiss(w)
    BY <1>1, <1>5, <2>1, <2>3 DEF TypeOK, Dismiss, Befalls, Absent
  <2>4. CASE Record(w)
    <3>1. "finished" \in fate[held[w]] /\ fate' = fate
          /\ elapsed' = [elapsed EXCEPT ![held[w]] = 1]
      BY <1>1, <2>4 DEF Record, RecordInv
    <3> QED BY <1>1, <1>5, <2>1, <3>1 DEF TypeOK, Absent
  <2> QED BY <1>7, <2>2, <2>3, <2>4
<1>8. CASE ~ScanDrop(w) /\ ~Finish(w) /\ ~Dismiss(w) /\ ~Record(w)
  <2>1. fate' = fate /\ elapsed' = elapsed
    BY <1>8 DEF WorkerStep, SpuriousWakeup, Boot, Leave, Top, PopLock, PopTest, PopOldest,
       Wait, ScanStart, ScanTake, ScanLeave, CheckAssertion
  <2> QED BY <1>5, <2>1
<1> QED BY <1>6, <1>7, <1>8

LEMMA JobKeeps == ASSUME IInv, [Next]_vars, NEW i \in Jobs PROVE JobInv(i)'
<1>1. TypeOK /\ MainInv /\ JobInv(i)
  BY DEF IInv
<1>2. i \in Nat /\ j \in Nat /\ i # dummy
  BY <1>1, Constants DEF TypeOK, Jobs
<1>3. CASE MainStep
  <2>1. \A w \in Workers : Processing(w)' = Processing(w)
    BY <1>1, <1>3, MainFrame DEF Processing
  <2>2. CASE SubmitAccepted
    <3>1. Queued' = Queued \cup {j} /\ main = "submit" /\ main' = "mark" /\ pushed'
          /\ UNCHANGED <<j, fate, elapsed>>
      BY <2>2, SubmitAcceptedRing DEF SubmitAccepted
    <3> QED BY <1>1, <1>2, <2>1, <3>1 DEF JobInv, Absent
  <2>3. CASE SubmitRefused
    <3>1. /\ UNCHANGED qvars /\ main = "submit" /\ main' = "mark" /\ ~pushed'
          /\ UNCHANGED <<j, elapsed>>
          /\ fate' = [fate EXCEPT ![j] = @ \cup {"refused"}]
      BY <2>3 DEF SubmitRefused, PushRefused, PushFull, PushDismissed, Befalls
    <3>2. Queued' = Queued
      BY <3>1, RingAlone
    <3> QED BY <1>1, <1>2, <2>1, <3>1, <3>2 DEF JobInv, Absent, TypeOK
  <2>4. CASE Mark
    <3>1. /\ UNCHANGED <<qvars, fate, pushed>> /\ main = "mark" /\ main' # "mark" /\ j' = j + 1
          /\ elapsed' = [elapsed EXCEPT ![j] = IF pushed THEN 0 ELSE -1]
      BY <2>4 DEF Mark
    <3>2. Queued' = Queued
      BY <3>1, RingAlone
    <3> QED BY <1>1, <1>2, <2>1, <3>1, <3>2 DEF JobInv, Absent, TypeOK
  <2>5. CASE ~SubmitAccepted /\ ~SubmitRefused /\ ~Mark
    <3>1. /\ UNCHANGED <<j, fate, elapsed, pushed>> /\ main # "mark" /\ main' # "mark"
      BY <1>3, <2>5 DEF MainStep, MainArrive, MainLeave, Drain, Drained, Stop,
         PoisonAccepted, PoisonRefused, Join
    <3>2. Queued' \subseteq Queued \cup {dummy}
      <4>1. ASSUME UNCHANGED qvars PROVE Queued' = Queued
        BY <4>1, RingAlone
      <4> QED BY <1>3, <2>5, <4>1, PoisonAcceptedRing, MainRing
    <3> QED BY <1>1, <1>2, <2>1, <3>1, <3>2 DEF JobInv, Absent
  <2> QED BY <2>2, <2>3, <2>4, <2>5
<1>4. ASSUME NEW w \in Workers, WorkerStep(w) \/ SpuriousWakeup(w) PROVE JobInv(i)'
  <2>1. UNCHANGED <<main, j, pushed>>
    BY <1>1, <1>4, WorkerFrame
  <2>2. /\ Absent(i) => Absent(i)' /\ fate'[i] = fate[i] /\ elapsed'[i] = elapsed[i]
        /\ fate[i] \subseteq fate'[i]
        /\ "refused" \in fate'[i] => "refused" \in fate[i]
        /\ elapsed'[i] = -1 => elapsed[i] = -1
        /\ elapsed'[i] = 1 => elapsed[i] = 1 \/ "finished" \in fate[i]
    BY <1>4, WorkerTouches
  <2> QED BY <1>1, <2>1, <2>2 DEF JobInv
<1>5. ASSUME UNCHANGED <<qvars, main, j, pushed, pc, held, fate, elapsed>> PROVE JobInv(i)'
  <2>1. Queued' = Queued /\ \A w \in Workers : Processing(w)' = Processing(w)
    BY <1>5, RingAlone DEF Processing
  <2> QED BY <1>1, <1>5, <2>1 DEF JobInv, Absent
<1> QED BY <1>3, <1>4, <1>5 DEF Next, Expire, Terminated, vars

-------------------------------------------------------------------------------
(* The invariant and what it implies *)

LEMMA StepKeeps == IInv /\ [Next]_vars => IInv'
<1> SUFFICES ASSUME IInv, [Next]_vars PROVE IInv'
  OBVIOUS
<1>1. RingShape'
  BY RingKeeps DEF RingInv
<1> QED BY <1>1, TypeKeeps, StrandedKeeps, MainInvKeeps, LockKeeps, HeldKeeps, PopKeeps,
       RecordKeeps, JobKeeps DEF IInv

\* For any number of jobs and workers, ring size and policy, IInv holds in every
\* reachable state: each variable has its type, the ring its shape, and the mutex
\* is with the one worker inside rtq_pop() (rtqueue.c, whole program).
THEOREM Invariance == Spec => []IInv
BY Initially, StepKeeps, PTL DEF Spec

\* The type invariant of the whole program.
THEOREM TypeCorrect == Spec => []TypeOK
<1>1. IInv => TypeOK
  BY DEF IInv
<1> QED BY <1>1, Invariance, PTL

\* However many workers there are and however main()'s write of exiting falls
\* between a worker's test and its wait, no worker is left asleep
\* (rtqueue.c:310-322, 616-626).
THEOREM NobodyStranded == Spec => []NoStrandedWorker
<1>1. IInv => NoStrandedWorker
  BY DEF IInv
<1> QED BY <1>1, Invariance, PTL

\* No worker ever gets a dummy: the dummies wake workers, they are never what
\* makes one leave (rtqueue.c:61, 310, 618).
THEOREM NoDummyPopped == Spec => []DummyNeverPopped
<1>1. IInv => DummyNeverPopped
  <2> SUFFICES ASSUME IInv PROVE DummyNeverPopped
    OBVIOUS
  <2> QED BY Constants DEF IInv, HeldInv, DummyNeverPopped
<1> QED BY <1>1, Invariance, PTL

\* The assertion at rtqueue.c:383 never fails: num_reqs jobs and one null pointer
\* fit in a worker's log because num_reqs < MAX_NUM_REQS.
THEOREM LogSuffices == Spec => []PopLogFits
<1>1. IInv => PopLogFits
  <2> SUFFICES ASSUME IInv, NEW w \in Workers PROVE popNum[w] <= MAX_NUM_REQS
    BY DEF PopLogFits
  <2>1. popNum[w] \in Nat /\ size \in Nat /\ j \in 1 .. num_reqs + 1 /\ num_reqs \in Nat
        /\ MAX_NUM_REQS \in Nat /\ num_reqs < MAX_NUM_REQS
    BY Constants, JamsAssumption DEF IInv, TypeOK, QTypeOK
  <2>2. main = "mark" => j <= num_reqs
    BY <2>1 DEF IInv, MainInv, Jobs
  <2> QED BY <2>1, <2>2 DEF IInv, PopInv
<1> QED BY <1>1, Invariance, PTL

\* What the report says of a job is never better than what happened to it, under
\* every interleaving of main()'s late write with the workers' (rtqueue.c:591-594, 632).
THEOREM ReportIsTrue == Spec => []ReportTruth
<1>1. IInv => ReportTruth
  <2> SUFFICES ASSUME IInv, main = "report", NEW i \in Jobs
               PROVE  /\ elapsed[i] = -1 <=> fate[i] = {"refused"}
                      /\ elapsed[i] = 1 => "finished" \in fate[i]
    BY DEF ReportTruth
  <2>1. j \notin Jobs /\ j \in 1 .. num_reqs + 1 /\ num_reqs \in Nat
    BY Constants DEF IInv, MainInv, TypeOK
  <2>2. i < j
    BY <2>1 DEF Jobs
  <2> QED BY <2>2 DEF IInv, JobInv
<1> QED BY <1>1, Invariance, PTL

\* The program reaches the ring through its operations only: it implements the
\* queue of module RtQueue (rtqueue.c:101-161).
THEOREM UsesTheRing == Spec => QSpec
<1>1. Init => rtq_init
  BY DEF Init
<1>2. IInv /\ [Next]_vars => [QNext]_qvars
  <2> SUFFICES ASSUME IInv, [Next]_vars PROVE [QNext]_qvars
    OBVIOUS
  <2>1. CASE MainStep
    <3>1. CASE SubmitAccepted
      BY <3>1, SubmitAcceptedRing, Constants DEF SubmitAccepted, QNext, rtq_push
    <3>2. CASE PoisonAccepted
      BY <3>2, Constants DEF PoisonAccepted, QNext, rtq_push
    <3> QED BY <2>1, <3>1, <3>2, MainRing
  <2>2. ASSUME NEW w \in Workers, WorkerStep(w) \/ SpuriousWakeup(w) PROVE [QNext]_qvars
    <3>1. CASE PopOldest(w)
      BY <3>1 DEF PopOldest, QNext
    <3>2. CASE ScanTake(w) \/ ScanDrop(w)
      <4>1. rtq_popn_nosync(scan_n) /\ scan_n < size
        BY <3>2 DEF ScanTake, ScanDrop
      <4>2. scan_n \in 0 .. MAX_SIZE - 1
        BY <4>1, Constants DEF IInv, TypeOK, QTypeOK
      <4> QED BY <4>1, <4>2 DEF QNext
    <3> QED BY <2>2, <3>1, <3>2, WorkerRing
  <2>3. ASSUME NEW i \in Jobs, Expire(i) PROVE UNCHANGED qvars
    BY <2>3 DEF Expire
  <2>4. CASE UNCHANGED vars
    BY <2>4 DEF vars
  <2> QED BY <2>1, <2>2, <2>3, <2>4 DEF Next, Terminated
<1> QED BY <1>1, <1>2, Invariance, PTL DEF Spec, QSpec

-------------------------------------------------------------------------------
(* With pop_feasible_jobs at 0: nobody scans, and each job is in one place *)

NoScan == \A w \in Workers : pc[w] # "scan"

OnceQueued ==
    \A m, n \in 0 .. size - 1 :
        elems[Slot(m)] \in Jobs /\ elems[Slot(m)] = elems[Slot(n)] => m = n

\* rtq_push() has returned for job i.
Submitted(i) == i < j \/ (i = j /\ main = "mark")

\* A job is queued, with one worker, or has met its one fate.
OwnInv(i) ==
    /\ \A v, w \in Workers : i \in Processing(v) /\ i \in Processing(w) => v = w
    /\ \A w \in Workers : i \in Processing(w) =>
           i \notin Queued /\ (fate[i] = {} <=> pc[w] = "consume")
    /\ i \in Queued => fate[i] = {}
    /\ Submitted(i) =>
           \/ i \in Queued
           \/ \E w \in Workers : pc[w] = "consume" /\ i \in Processing(w)
           \/ \E what \in {"refused", "dismissed", "finished"} : fate[i] = {what}

\* main() goes on only when no job is queued, and joins every worker.
DrainedInv ==
    /\ main \in {"stop", "poison", "join", "report"} => Queued \cap Jobs = {}
    /\ main = "report" => \A w \in Workers : pc[w] = "done"

PlainInv == /\ IInv /\ NoScan /\ OnceQueued /\ DrainedInv
            /\ \A i \in Jobs : OwnInv(i)

LEMMA PlainInitially == Init => PlainInv
<1> SUFFICES ASSUME Init PROVE PlainInv
  OBVIOUS
<1>1. size = 0 /\ Queued = {}
  BY InitRing DEF Init, rtq_init
<1>2. NoScan /\ OnceQueued /\ DrainedInv
  BY <1>1 DEF Init, NoScan, OnceQueued, DrainedInv
<1>3. ASSUME NEW i \in Jobs PROVE OwnInv(i)
  BY <1>1, <1>3, Constants DEF Init, OwnInv, Processing, Submitted, Jobs
<1> QED BY <1>2, <1>3, Initially DEF PlainInv

LEMMA NoScanKeeps ==
    ASSUME ~pop_feasible_jobs, TypeOK, NoScan, [Next]_vars
    PROVE  NoScan'
<1>1. CASE MainStep
  BY <1>1, MainFrame DEF NoScan
<1>2. ASSUME NEW w \in Workers, WorkerStep(w) \/ SpuriousWakeup(w) PROVE NoScan'
  <2>1. \A v \in Workers \ {w} : pc'[v] = pc[v]
    BY <1>2, WorkerFrame DEF TypeOK
  <2>2. pc'[w] # "scan"
    BY <1>2 DEF NoScan, TypeOK, WorkerStep, SpuriousWakeup, Boot, Leave, Top, PopLock,
       PopTest, PopOldest, Wait, ScanStart, ScanDrop, ScanTake, ScanLeave, Finish, Dismiss,
       Record, CheckAssertion, PopReturn, Goto
  <2> QED BY <2>1, <2>2 DEF NoScan
<1>3. ASSUME NEW i \in Jobs, Expire(i) PROVE NoScan'
  BY <1>3 DEF Expire, NoScan
<1>4. CASE UNCHANGED vars
  BY <1>4 DEF vars, NoScan
<1> QED BY <1>1, <1>2, <1>3, <1>4 DEF Next, Terminated

\* With no scan under way a worker reaches the ring through rtq_pop_nosync() only.
LEMMA PlainWorkerRing ==
    ASSUME NoScan, NEW w \in Workers, WorkerStep(w) \/ SpuriousWakeup(w), ~PopOldest(w)
    PROVE  UNCHANGED qvars
BY WorkerRing DEF NoScan, ScanTake, ScanDrop

\* The oldest job leaves the queue to worker w, and the others stay.
LEMMA PopOldestRing ==
    ASSUME PlainInv, NEW w \in Workers, PopOldest(w)
    PROVE  /\ OnceQueued'
           /\ \A i \in Jobs : i \in Queued' => i \in Queued /\ i # held'[w]
           /\ \A i \in Jobs : i \in Queued => i \in Queued' \/ i = held'[w]
           /\ held'[w] \in Queued
<1>1. RingInv /\ size \in Nat /\ held \in [Workers -> Elem \cup {NULL}] /\ 0 \in Nat
  BY RingOfIInv, Constants DEF PlainInv, IInv, TypeOK, QTypeOK
<1>2. rtq_pop_nosync /\ held'[w] = rtq_peekn_nosync(0) /\ size # 0
  BY <1>1 DEF PopOldest, rtq_pop_nosync, PopReturn
<1>3. held'[w] = elems[Slot(0)]
  BY <1>1, <1>2 DEF rtq_peekn_nosync
<1>4. rtq_popn_nosync(0)
  BY <1>1, <1>2, PopIsPopnZero
<1>5. /\ size' = size - 1 /\ elems[Slot(0)] \in Queued /\ Queued' \subseteq Queued
      /\ \A k \in 0 .. size' - 1 : elems'[Slot(k)'] = elems[Slot(k + 1)]
  <2>1. \A k \in 0 .. size' - 1 :
            elems'[Slot(k)'] = IF k < 0 THEN elems[Slot(0)] ELSE elems[Slot(k + 1)]
    BY <1>1, <1>4, PopnSlots
  <2>2. \A k \in 0 .. size' - 1 : ~(k < 0)
    OBVIOUS
  <2> QED BY <1>1, <1>4, <2>1, <2>2, PopnSlots
<1>6. \A k \in 0 .. size' - 1 : k + 1 \in 0 .. size - 1 /\ k + 1 # 0
  BY <1>1, <1>2, <1>5
<1>7. OnceQueued'
  <2> SUFFICES ASSUME NEW m \in 0 .. size' - 1, NEW n \in 0 .. size' - 1,
                      elems'[Slot(m)'] \in Jobs, elems'[Slot(m)'] = elems'[Slot(n)']
               PROVE  m = n
    BY DEF OnceQueued
  <2>1. elems[Slot(m + 1)] \in Jobs /\ elems[Slot(m + 1)] = elems[Slot(n + 1)]
    BY <1>5
  <2>2. m + 1 = n + 1
    BY <1>6, <2>1 DEF PlainInv, OnceQueued
  <2> QED BY <2>2
<1>8. ASSUME NEW i \in Jobs, i \in Queued' PROVE i \in Queued /\ i # held'[w]
  <2>1. PICK k \in 0 .. size' - 1 : i = elems'[Slot(k)']
    BY <1>8 DEF Queued
  <2>2. i = elems[Slot(k + 1)] /\ k + 1 \in 0 .. size - 1 /\ k + 1 # 0 /\ 0 \in 0 .. size - 1
    BY <1>1, <1>2, <1>5, <1>6, <2>1
  <2>3. elems[Slot(k + 1)] # elems[Slot(0)]
    BY <1>8, <2>2 DEF PlainInv, OnceQueued
  <2> QED BY <1>3, <1>5, <1>8, <2>2, <2>3
<1>9. ASSUME NEW i \in Jobs, i \in Queued, i # held'[w] PROVE i \in Queued'
  <2>1. PICK n \in 0 .. size - 1 : i = elems[Slot(n)]
    BY <1>9 DEF Queued
  <2>2. n # 0
    BY <1>3, <1>9, <2>1
  <2>3. n - 1 \in 0 .. size' - 1 /\ (n - 1) + 1 = n
    BY <1>1, <1>5, <2>2
  <2> DEFINE k == n - 1
  <2>4. elems'[Slot(k)'] = i /\ k \in 0 .. size' - 1
    <3>1. k \in 0 .. size' - 1 /\ k + 1 = n
      BY <2>3
    <3> HIDE DEF k
    <3> QED BY <1>5, <2>1, <3>1
  <2> HIDE DEF k
  <2> QED BY <2>4 DEF Queued
<1> QED BY <1>3, <1>5, <1>7, <1>8, <1>9

LEMMA OnceKeeps ==
    ASSUME ~pop_feasible_jobs, PlainInv, [Next]_vars
    PROVE  OnceQueued'
<1>1. IInv /\ TypeOK /\ OnceQueued /\ NoScan /\ RingInv
  BY RingOfIInv DEF PlainInv, IInv
<1>2. ASSUME UNCHANGED qvars PROVE OnceQueued'
  BY <1>1, <1>2 DEF OnceQueued, qvars, Slot
<1>3. ASSUME NEW e \in Elem, PushAccepted(e), e \in Jobs => e \notin Queued
      PROVE  OnceQueued'
  <2>1. /\ \A n \in 0 .. size - 1 : elems'[Slot(n)] = elems[Slot(n)] /\ elems[Slot(n)] \in Queued
        /\ elems'[Slot(size)] = e
    BY <1>1, <1>3, PushSlots DEF Queued
  <2>2. size \in Nat /\ size' = size + 1 /\ tail' = tail
    BY <1>1, <1>3, Constants DEF TypeOK, QTypeOK, PushAccepted
  <2>3. \A n \in 0 .. size' - 1 : n = size \/ n \in 0 .. size - 1
    BY <2>2
  <2>4. \A n \in 0 .. size' - 1 : elems'[Slot(n)'] = elems'[Slot(n)]
    BY <2>2 DEF Slot
  <2> QED BY <1>1, <1>3, <2>1, <2>3, <2>4 DEF OnceQueued
<1>4. CASE SubmitAccepted
  <2>1. j \in Jobs /\ main # "mark" /\ PushAccepted(j)
    BY <1>1, <1>4, SubmitAcceptedRing DEF SubmitAccepted
  <2>2. j \notin Queued /\ j \in Elem
    BY <1>1, <2>1, Constants DEF IInv, JobInv, Absent
  <2> QED BY <1>3, <2>1, <2>2
<1>5. CASE PoisonAccepted
  BY <1>3, <1>5, Constants DEF PoisonAccepted
<1>6. CASE MainStep
  BY <1>2, <1>4, <1>5, <1>6, MainRing
<1>7. ASSUME NEW w \in Workers, WorkerStep(w) \/ SpuriousWakeup(w) PROVE OnceQueued'
  BY <1>1, <1>2, <1>7, PopOldestRing, PlainWorkerRing
<1> QED BY <1>2, <1>6, <1>7 DEF Next, Expire, Terminated, vars

\* The workers that take no step have in hand what they had.
LEMMA OthersHands ==
    ASSUME TypeOK, NEW w \in Workers, WorkerStep(w) \/ SpuriousWakeup(w)
    PROVE  \A v \in Workers \ {w} : Processing(v)' = Processing(v) /\ pc'[v] = pc[v]
<1>1. \A v \in Workers \ {w} : held'[v] = held[v] /\ pc'[v] = pc[v]
  BY WorkerFrame DEF TypeOK
<1> QED BY <1>1 DEF Processing

LEMMA OwnKeepsWorker ==
    ASSUME PlainInv, NEW w \in Workers, WorkerStep(w) \/ SpuriousWakeup(w), NEW i \in Jobs
    PROVE  OwnInv(i)'
<1>1. IInv /\ TypeOK /\ HeldInv /\ NoScan /\ OwnInv(i)
  BY DEF PlainInv, IInv
<1>2. \A v \in Workers \ {w} : Processing(v)' = Processing(v) /\ pc'[v] = pc[v]
  BY <1>1, OthersHands
<1>3. Submitted(i)' <=> Submitted(i)
  BY <1>1, WorkerFrame DEF Submitted
<1>4. CASE PopOldest(w)
  <2>1. /\ i \in Queued' => i \in Queued /\ i # held'[w]
        /\ i \in Queued => i \in Queued' \/ i = held'[w]
        /\ held'[w] \in Queued
    BY <1>4, PopOldestRing
  <2>2. fate' = fate /\ pc[w] = "look"
        /\ pc'[w] = IF held'[w] \in {NULL, dummy} THEN "done" ELSE "consume"
    BY <1>1, <1>4, TakeRing DEF PopOldest
  <2>3. Processing(w) = {} /\ Processing(w)' = IF held'[w] \in {NULL, dummy} THEN {}
                                                                            ELSE {held'[w]}
    BY <2>2 DEF Processing
  <2>4. i \notin {NULL, dummy}
    BY Constants
  <2>5. i = held'[w] => /\ i \in Queued /\ i \notin Queued' /\ fate[i] = {} /\ pc'[w] = "consume"
                        /\ Processing(w)' = {i} /\ \A v \in Workers : i \notin Processing(v)
    BY <1>1, <2>1, <2>2, <2>3, <2>4 DEF OwnInv
  <2>6. CASE i = held'[w]
    <3>1. \A v \in Workers : i \in Processing(v)' => v = w
      BY <1>2, <2>5, <2>6
    <3> QED BY <2>2, <2>5, <2>6, <3>1 DEF OwnInv
  <2>7. CASE i # held'[w]
    <3>1. i \notin Processing(w) /\ i \notin Processing(w)' /\ (i \in Queued <=> i \in Queued')
      BY <2>1, <2>3, <2>7
    <3> QED BY <1>1, <1>2, <1>3, <2>2, <3>1 DEF OwnInv
  <2> QED BY <2>6, <2>7
<1>5. CASE Finish(w) \/ Dismiss(w)
  <2>1. Queued' = Queued
    BY <1>5, RingAlone DEF Finish, Dismiss
  <2>2. /\ pc[w] = "consume" /\ held' = held
        /\ \/ pc'[w] = "record" /\ Befalls(held[w], "finished")
           \/ pc'[w] = "top" /\ Befalls(held[w], "dismissed")
    BY <1>1, <1>5 DEF TypeOK, Finish, Dismiss, Goto
  <2>3. Processing(w) = {held[w]} /\ Processing(w)' \subseteq Processing(w) /\ held[w] \in Jobs
    BY <1>1, <2>2 DEF Processing, HeldInv
  <2>4. CASE held[w] = i
    <3>1. \A v \in Workers \ {w} : i \notin Processing(v)
      BY <1>1, <2>3, <2>4 DEF OwnInv
    <3>2. i \notin Queued /\ fate[i] = {}
      BY <1>1, <2>2, <2>3, <2>4 DEF OwnInv
    <3>3. fate'[i] = {"finished"} \/ fate'[i] = {"dismissed"}
      BY <1>1, <2>2, <2>4, <3>2 DEF TypeOK, Befalls
    <3>4. \A v \in Workers : i \in Processing(v)' => v = w
      BY <1>2, <3>1
    <3> QED BY <2>1, <2>2, <3>2, <3>3, <3>4 DEF OwnInv
  <2>5. CASE held[w] # i
    <3>1. fate'[i] = fate[i] /\ i \notin Processing(w) /\ i \notin Processing(w)'
      BY <1>1, <2>2, <2>3, <2>5 DEF TypeOK, Befalls
    <3> QED BY <1>1, <1>2, <1>3, <2>1, <3>1 DEF OwnInv
  <2> QED BY <2>4, <2>5
<1>6. CASE ~PopOldest(w) /\ ~Finish(w) /\ ~Dismiss(w)
  <2>1. Queued' = Queued
    BY <1>1, <1>6, PlainWorkerRing, RingAlone
  <2>2. /\ fate' = fate /\ pc[w] # "consume" /\ pc'[w] # "consume"
        /\ pc'[w] \in {"record", "assert"}
               => held' = held /\ pc[w] \in {"record", "assert"}
    BY <1>1, <1>6 DEF NoScan, TypeOK, WorkerStep, SpuriousWakeup, Boot, Leave, Top, PopLock,
       PopTest, Wait, ScanStart, ScanDrop, ScanTake, ScanLeave, Record, CheckAssertion,
       PopReturn, Goto
  <2>3. Processing(w)' \subseteq Processing(w)
    BY <2>2 DEF Processing
  <2> QED BY <1>1, <1>2, <1>3, <2>1, <2>2, <2>3 DEF OwnInv
<1> QED BY <1>4, <1>5, <1>6

LEMMA OwnKeepsMain ==
    ASSUME PlainInv, MainStep, NEW i \in Jobs
    PROVE  OwnInv(i)'
<1>1. IInv /\ TypeOK /\ OwnInv(i) /\ JobInv(i) /\ i # dummy /\ i \in Nat /\ j \in Nat
  BY Constants DEF PlainInv, IInv, TypeOK, Jobs
<1>2. /\ \A w \in Workers : Processing(w)' = Processing(w)
      /\ \A w \in Workers : pc'[w] = "consume" <=> pc[w] = "consume"
  <2>1. held' = held /\ \A w \in Workers : pc'[w] = pc[w] \/ (pc[w] = "waiting" /\ pc'[w] = "lock")
    BY <1>1, MainFrame
  <2> QED BY <2>1 DEF Processing
<1>3. CASE SubmitAccepted
  <2>1. /\ Queued' = Queued \cup {j} /\ main = "submit" /\ main' = "mark"
        /\ UNCHANGED <<j, fate>>
    BY <1>1, <1>3, SubmitAcceptedRing DEF SubmitAccepted
  <2>2. CASE i = j
    <3>1. Absent(i) /\ fate[i] = {}
      BY <1>1, <2>1, <2>2 DEF JobInv
    <3> QED BY <1>2, <2>1, <2>2, <3>1 DEF OwnInv, Absent
  <2>3. CASE i # j
    <3>1. (Submitted(i)' <=> Submitted(i)) /\ (i \in Queued' <=> i \in Queued)
      BY <2>1, <2>3 DEF Submitted
    <3> QED BY <1>1, <1>2, <2>1, <3>1 DEF OwnInv
  <2> QED BY <2>2, <2>3
<1>4. CASE SubmitRefused
  <2>1. /\ UNCHANGED qvars /\ main = "submit" /\ main' = "mark" /\ j' = j
        /\ fate' = [fate EXCEPT ![j] = @ \cup {"refused"}]
    BY <1>4 DEF SubmitRefused, PushRefused, PushFull, PushDismissed, Befalls
  <2>2. Queued' = Queued
    BY <2>1, RingAlone
  <2>3. CASE i = j
    <3>1. Absent(i) /\ fate[i] = {}
      BY <1>1, <2>1, <2>3 DEF JobInv
    <3>2. fate'[i] = {"refused"}
      BY <1>1, <2>1, <2>3, <3>1 DEF TypeOK
    <3> QED BY <1>2, <2>2, <3>1, <3>2 DEF OwnInv, Absent
  <2>4. CASE i # j
    <3>1. (Submitted(i)' <=> Submitted(i)) /\ fate'[i] = fate[i]
      BY <1>1, <2>1, <2>4 DEF Submitted, TypeOK
    <3> QED BY <1>1, <1>2, <2>2, <3>1 DEF OwnInv
  <2> QED BY <2>3, <2>4
<1>5. CASE ~SubmitAccepted /\ ~SubmitRefused
  <2>1. fate' = fate
    BY <1>5 DEF MainStep, MainArrive, MainLeave, Mark, Drain, Drained, Stop, PoisonAccepted,
       PoisonRefused, Join
  <2>2. i \in Queued' <=> i \in Queued
    <3>1. ASSUME UNCHANGED qvars PROVE Queued' = Queued
      BY <3>1, RingAlone
    <3> QED BY <1>1, <1>5, <3>1, PoisonAcceptedRing, MainRing
  <2>3. Submitted(i)' <=> Submitted(i)
    <3>1. CASE Mark
      <4>1. main = "mark" /\ main' # "mark" /\ j' = j + 1
        BY <3>1 DEF Mark
      <4> QED BY <1>1, <4>1 DEF Submitted
    <3>2. CASE ~Mark
      <4>1. main # "mark" /\ main' # "mark" /\ j' = j
        BY <1>5, <3>2 DEF MainStep, MainArrive, MainLeave, Drain, Drained, Stop,
           PoisonAccepted, PoisonRefused, Join
      <4> QED BY <4>1 DEF Submitted
    <3> QED BY <3>1, <3>2
  <2> QED BY <1>1, <1>2, <2>1, <2>2, <2>3 DEF OwnInv
<1> QED BY <1>3, <1>4, <1>5

LEMMA OwnKeeps ==
    ASSUME PlainInv, [Next]_vars, NEW i \in Jobs
    PROVE  OwnInv(i)'
<1>1. ASSUME UNCHANGED <<qvars, main, j, pc, held, fate>> PROVE OwnInv(i)'
  <2>1. /\ Queued' = Queued /\ (Submitted(i)' <=> Submitted(i))
        /\ \A w \in Workers : Processing(w)' = Processing(w)
    BY <1>1, RingAlone DEF Processing, Submitted
  <2> QED BY <1>1, <2>1 DEF PlainInv, OwnInv
<1> QED BY <1>1, OwnKeepsMain, OwnKeepsWorker DEF Next, Expire, Terminated, vars

LEMMA DrainedKeeps ==
    ASSUME PlainInv, [Next]_vars
    PROVE  DrainedInv'
<1>1. IInv /\ TypeOK /\ DrainedInv /\ NoScan
  BY DEF PlainInv, IInv
<1>2. ASSUME UNCHANGED qvars PROVE Queued' = Queued
  BY <1>2, RingAlone
<1>3. CASE Drained
  <2>1. Queued = {} /\ main' = "stop" /\ UNCHANGED qvars
    BY <1>3 DEF Drained, Queued
  <2> QED BY <1>2, <2>1 DEF DrainedInv
<1>4. CASE PoisonAccepted
  <2>1. Queued' = Queued \cup {dummy} /\ main = "poison" /\ main' \in {"poison", "join"}
    BY <1>1, <1>4, PoisonAcceptedRing DEF PoisonAccepted
  <2> QED BY <1>1, <2>1, Constants DEF DrainedInv
<1>5. CASE Join
  BY <1>1, <1>2, <1>5 DEF DrainedInv, Join
<1>6. CASE MainStep /\ ~Drained /\ ~PoisonAccepted /\ ~Join
  <2>1. CASE SubmitAccepted
    BY <2>1 DEF SubmitAccepted, DrainedInv
  <2>2. CASE ~SubmitAccepted
    <3>1. Queued' = Queued
      BY <1>2, <1>6, <2>2, MainRing
    <3>2. \/ main' \in {"barrier", "submit", "mark", "drain"}
          \/ main = "stop" /\ main' = "poison"
          \/ main = "poison" /\ main' = "poison"
      BY <1>6, <2>2 DEF MainStep, MainArrive, MainLeave, SubmitRefused, Mark, Drain, Stop,
         PoisonRefused
    <3> QED BY <1>1, <3>1, <3>2 DEF DrainedInv
  <2> QED BY <2>1, <2>2
<1>7. ASSUME NEW w \in Workers, WorkerStep(w) \/ SpuriousWakeup(w) PROVE DrainedInv'
  <2>1. Queued' \subseteq Queued
    BY <1>1, <1>2, <1>7, TakeRing, PlainWorkerRing
  <2>2. main' = main
    BY <1>1, <1>7, WorkerFrame
  <2>3. main = "report" => \A v \in Workers : pc'[v] = "done"
    <3>1. Follows(pc[w], pc'[w]) => pc[w] # "done"
      BY DEF Follows
    <3> QED BY <1>1, <1>7, <3>1, WorkerFrame DEF DrainedInv
  <2> QED BY <1>1, <2>1, <2>2, <2>3 DEF DrainedInv
<1>8. ASSUME NEW i \in Jobs, Expire(i) PROVE DrainedInv'
  BY <1>1, <1>2, <1>8 DEF Expire, DrainedInv
<1>9. CASE UNCHANGED vars
  BY <1>1, <1>2, <1>9 DEF vars, DrainedInv
<1> QED BY <1>3, <1>4, <1>5, <1>6, <1>7, <1>8, <1>9 DEF Next, Terminated

\* With pop_feasible_jobs at 0, every job is in one place: queued once, with one
\* worker, or gone by one fate; and main() goes on after rtq_wait_until_empty()
\* only when no job is queued (rtqueue.c:141-149, 331, 373-408).
THEOREM PlainInvariance ==
    ASSUME ~pop_feasible_jobs
    PROVE  Spec => []PlainInv
<1>1. PlainInv /\ [Next]_vars => PlainInv'
  <2> SUFFICES ASSUME PlainInv, [Next]_vars PROVE PlainInv'
    OBVIOUS
  <2>1. IInv /\ TypeOK /\ NoScan
    BY DEF PlainInv, IInv
  <2>2. IInv' /\ NoScan' /\ OnceQueued' /\ DrainedInv'
    BY <2>1, StepKeeps, NoScanKeeps, OnceKeeps, DrainedKeeps
  <2>3. \A i \in Jobs : OwnInv(i)'
    BY OwnKeeps
  <2> QED BY <2>2, <2>3 DEF PlainInv
<1> QED BY <1>1, PlainInitially, PTL DEF Spec

\* Popping the oldest job only, no job is in two hands and none is processed
\* twice, however many workers pull and main() pushes (rtqueue.c:141-149, 378-408).
THEOREM EachJobHasOneOwner ==
    ASSUME ~pop_feasible_jobs
    PROVE  Spec => []OneOwner
<1>1. PlainInv => OneOwner
  BY DEF PlainInv, OneOwner, OwnInv, OnceQueued
<1> QED BY <1>1, PlainInvariance, PTL

\* Popping the oldest job only, the report covers every job: each has been
\* refused, dismissed or finished, although the workers are stopped while jobs
\* are in their hands (rtqueue.c:331, 373, 616).
THEOREM NoJobForgotten ==
    ASSUME ~pop_feasible_jobs
    PROVE  Spec => []NoneForgotten
<1>1. PlainInv => NoneForgotten
  <2> SUFFICES ASSUME PlainInv, main = "report"
               PROVE  /\ \A i \in Jobs : Cardinality(fate[i]) = 1
                      /\ Queued \subseteq {dummy}
    BY DEF NoneForgotten
  <2>1. Queued \subseteq Elem /\ Queued \cap Jobs = {} /\ \A w \in Workers : pc[w] = "done"
    BY RingOfIInv, QueuedType DEF PlainInv, DrainedInv
  <2>2. ASSUME NEW i \in Jobs PROVE Cardinality(fate[i]) = 1
    <3>1. j \notin Jobs /\ j \in 1 .. num_reqs + 1 /\ num_reqs \in Nat
      BY Constants DEF PlainInv, IInv, MainInv, TypeOK
    <3>2. Submitted(i)
      BY <3>1 DEF Submitted, Jobs
    <3>3. PICK what \in {"refused", "dismissed", "finished"} : fate[i] = {what}
      BY <2>1, <3>2 DEF PlainInv, OwnInv
    <3> QED BY <3>3, FS_Singleton
  <2> QED BY <2>1, <2>2, JamsAssumption
<1> QED BY <1>1, PlainInvariance, PTL

\* With pop_feasible_jobs at 0 the program, with its interleaved pushes and pops of
\* any number of workers, implements the FIFO queue: jobs are taken in the order
\* of submission and none is lost or taken twice (rtqueue.c:101-149, 315).
THEOREM PlainIsFifo ==
    ASSUME ~pop_feasible_jobs
    PROVE  Spec => FifoQueue
<1>1. Init => rtq_init /\ NoScan
  BY DEF Init, NoScan
<1>2. TypeOK /\ NoScan /\ [Next]_vars => NoScan'
  BY NoScanKeeps
<1>3. IInv /\ NoScan /\ [Next]_vars => [QHeadNext]_qvars
  <2> SUFFICES ASSUME IInv, NoScan, [Next]_vars PROVE [QHeadNext]_qvars
    OBVIOUS
  <2>1. CASE SubmitAccepted
    BY <2>1, SubmitAcceptedRing, Constants DEF SubmitAccepted, QHeadNext, rtq_push
  <2>2. CASE PoisonAccepted
    BY <2>2, Constants DEF PoisonAccepted, QHeadNext, rtq_push
  <2>3. CASE MainStep
    BY <2>1, <2>2, <2>3, MainRing
  <2>4. ASSUME NEW w \in Workers, WorkerStep(w) \/ SpuriousWakeup(w)
        PROVE  [QHeadNext]_qvars
    <3>1. CASE PopOldest(w)
      BY <3>1 DEF PopOldest, QHeadNext
    <3> QED BY <2>4, <3>1, PlainWorkerRing
  <2>5. ASSUME NEW i \in Jobs, Expire(i) PROVE UNCHANGED qvars
    BY <2>5 DEF Expire
  <2>6. CASE UNCHANGED vars
    BY <2>6 DEF vars
  <2> QED BY <2>3, <2>4, <2>5, <2>6 DEF Next, Terminated
<1>4. IInv => TypeOK
  BY DEF IInv
<1>5. Spec => QHeadSpec
  BY <1>1, <1>2, <1>3, <1>4, Invariance, PTL DEF Spec, QHeadSpec
<1> QED BY <1>5, RingIsFifo, PTL

-------------------------------------------------------------------------------
(* With deadlines in the order of submission: what a scan leaves behind *)

\* Until the dummies come the queue holds jobs in the order of submission, copies
\* of one job next to each other.
SortedQueue ==
    poisoned = 0 =>
        \A m, n \in 0 .. size - 1 : m <= n => elems[Slot(m)] <= elems[Slot(n)]

\* With a job every older one is late.
OlderToo(S) == \A i \in S : 1 .. i - 1 \subseteq S

\* Nothing that lies before the index of the scan under way is late.
Passed ==
    \A w \in Workers : pc[w] = "scan" =>
        \A m \in 0 .. size - 1 : m < scan_n => elems[Slot(m)] \notin nowLate

ScanInv == IInv /\ SortedQueue /\ OlderToo(late) /\ OlderToo(nowLate) /\ Passed

\* Before the first dummy what is queued are jobs that main() has stamped, or is
\* about to mark.
LEMMA JobsQueued ==
    ASSUME IInv, poisoned = 0
    PROVE  \A m \in 0 .. size - 1 :
               /\ elems[Slot(m)] \in Jobs /\ elems[Slot(m)] \in Queued
               /\ elems[Slot(m)] \in Nat /\ j \in Nat
               /\ elems[Slot(m)] <= j /\ (main = "submit" => elems[Slot(m)] < j)
<1> SUFFICES ASSUME NEW m \in 0 .. size - 1
             PROVE  /\ elems[Slot(m)] \in Jobs /\ elems[Slot(m)] \in Queued
                    /\ elems[Slot(m)] \in Nat /\ j \in Nat
                    /\ elems[Slot(m)] <= j /\ (main = "submit" => elems[Slot(m)] < j)
  OBVIOUS
<1>1. elems[Slot(m)] \in Queued
  BY DEF Queued
<1>2. elems[Slot(m)] \in Jobs
  BY <1>1, RingOfIInv, QueuedType, JamsAssumption DEF IInv, HeldInv
<1>3. elems[Slot(m)] \in Nat /\ j \in Nat
  BY <1>2 DEF Jobs, IInv, TypeOK
<1>4. JobInv(elems[Slot(m)]) /\ ~Absent(elems[Slot(m)])
  BY <1>1, <1>2 DEF IInv, Absent
<1> QED BY <1>1, <1>2, <1>3, <1>4 DEF JobInv

\* A pop, wherever it takes its element from, leaves the queue in order.
LEMMA PopKeepsOrder ==
    ASSUME ScanInv, poisoned = 0, NEW n \in Nat, rtq_popn_nosync(n)
    PROVE  \A k, m \in 0 .. size' - 1 : k <= m => elems'[Slot(k)'] <= elems'[Slot(m)']
<1>1. RingInv /\ size \in Nat /\ size > n
  BY RingOfIInv, Constants DEF ScanInv, IInv, TypeOK, QTypeOK, rtq_popn_nosync
<1>2. /\ size' = size - 1
      /\ \A k \in 0 .. size' - 1 :
             elems'[Slot(k)'] = IF k < n THEN elems[Slot(n)] ELSE elems[Slot(k + 1)]
  BY <1>1, PopnSlots
<1> SUFFICES ASSUME NEW k \in 0 .. size' - 1, NEW m \in 0 .. size' - 1, k <= m
             PROVE  elems'[Slot(k)'] <= elems'[Slot(m)']
  OBVIOUS
<1>3. k + 1 \in 0 .. size - 1 /\ m + 1 \in 0 .. size - 1 /\ n \in 0 .. size - 1
  BY <1>1, <1>2
<1>4. /\ elems[Slot(k + 1)] <= elems[Slot(m + 1)]
      /\ n <= m => elems[Slot(n)] <= elems[Slot(m + 1)]
      /\ elems[Slot(n)] <= elems[Slot(n)]
  BY <1>1, <1>3 DEF ScanInv, SortedQueue
<1> QED BY <1>1, <1>2, <1>3, <1>4

\* Whoever scans has the mutex: what another thread does leaves the ring, the index
\* and the jobs late at its start alone.
LEMMA ScanUndisturbed ==
    ASSUME IInv, NEW w \in Workers, pc[w] = "scan", [Next]_vars, ~WorkerStep(w)
    PROVE  UNCHANGED <<qvars, scan_n, nowLate>>
<1>1. mutex = w /\ w # Nobody /\ \A v \in Workers : pc[v] \in {"test", "look", "scan"} => v = w
  BY JamsAssumption DEF IInv, LockInv
<1>2. CASE MainStep
  <2>1. ~SubmitAccepted /\ ~PoisonAccepted
    BY <1>1 DEF SubmitAccepted, PoisonAccepted
  <2> QED BY <1>2, <2>1, MainRing, MainFrame DEF IInv
<1>3. ASSUME NEW v \in Workers, WorkerStep(v) \/ SpuriousWakeup(v)
      PROVE  UNCHANGED <<qvars, scan_n, nowLate>>
  <2>1. SpuriousWakeup(v) \/ pc[v] \notin {"test", "look", "scan"}
    BY <1>1, <1>3
  <2> QED BY <1>3, <2>1 DEF WorkerStep, SpuriousWakeup, Boot, Leave, Top, PopLock, PopTest,
         PopOldest, Wait, ScanStart, ScanDrop, ScanTake, ScanLeave, Finish, Dismiss, Record,
         CheckAssertion, scanVars
<1> QED BY <1>2, <1>3 DEF Next, Expire, Terminated, vars, scanVars

\* A late job is found at the head of the queue only: those before it are as late.
LEMMA DropsAtHead ==
    ASSUME ScanInv, NEW w \in Workers, ScanDrop(w)
    PROVE  scan_n = 0
<1>1. pc[w] = "scan" /\ scan_n < size /\ ScannedIsLate
  BY DEF ScanDrop
<1>2. poisoned = 0 /\ scan_n \in Nat /\ size \in Nat
  BY <1>1, Constants DEF ScanInv, IInv, NoStrandedWorker, TypeOK, QTypeOK
<1>3. scan_n \in 0 .. size - 1 /\ 0 \in 0 .. size - 1
  BY <1>1, <1>2
<1>4. /\ elems[Slot(scan_n)] \in Jobs /\ elems[Slot(0)] \in Jobs
      /\ elems[Slot(0)] <= elems[Slot(scan_n)]
  BY <1>2, <1>3, JobsQueued DEF ScanInv, SortedQueue
<1>5. elems[Slot(scan_n)] \in nowLate
  BY <1>1, <1>2, <1>4, Constants DEF ScannedIsLate, Scanned, rtq_peekn_nosync
<1>6. elems[Slot(0)] \in nowLate
  BY <1>4, <1>5 DEF ScanInv, OlderToo, Jobs
<1> QED BY <1>1, <1>2, <1>3, <1>6 DEF ScanInv, Passed

LEMMA SortedKeeps == ASSUME ScanInv, [Next]_vars PROVE SortedQueue'
<1>1. IInv /\ TypeOK /\ SortedQueue /\ RingInv
  BY RingOfIInv DEF ScanInv, IInv
<1>2. ASSUME UNCHANGED <<qvars, poisoned>> PROVE SortedQueue'
  BY <1>1, <1>2 DEF SortedQueue, qvars, Slot
<1>3. CASE SubmitAccepted
  <2> SUFFICES ASSUME poisoned = 0 PROVE SortedQueue'
    BY <1>3 DEF SubmitAccepted, SortedQueue
  <2>1. j \in Jobs /\ j \in Elem /\ main = "submit" /\ PushAccepted(j)
    BY <1>1, <1>3, SubmitAcceptedRing, Constants DEF SubmitAccepted
  <2>2. /\ \A n \in 0 .. size - 1 : elems'[Slot(n)] = elems[Slot(n)]
        /\ elems'[Slot(size)] = j
    BY <1>1, <2>1, PushSlots
  <2>3. size \in Nat /\ size' = size + 1 /\ tail' = tail /\ j \in Nat
    BY <1>1, <2>1, Constants DEF TypeOK, QTypeOK, PushAccepted
  <2>4. \A n \in 0 .. size' - 1 : elems'[Slot(n)'] = elems'[Slot(n)]
    BY <2>3 DEF Slot
  <2> SUFFICES ASSUME NEW m \in 0 .. size' - 1, NEW n \in 0 .. size' - 1, m <= n
               PROVE  elems'[Slot(m)] <= elems'[Slot(n)]
    BY <2>4 DEF SortedQueue
  <2>5. CASE n \in 0 .. size - 1
    <3>1. m \in 0 .. size - 1
      BY <2>3, <2>5
    <3> QED BY <1>1, <2>2, <2>5, <3>1 DEF SortedQueue
  <2>6. CASE n = size /\ m \in 0 .. size - 1
    <3>1. elems[Slot(m)] \in Nat /\ elems[Slot(m)] < j
      BY <1>1, <2>1, <2>6, JobsQueued
    <3> QED BY <2>2, <2>3, <2>6, <3>1
  <2>7. CASE n = size /\ m = size
    BY <2>2, <2>3, <2>7
  <2> QED BY <2>3, <2>5, <2>6, <2>7
<1>4. CASE PoisonAccepted
  <2>1. poisoned \in Nat /\ poisoned' = poisoned + 1
    BY <1>1, <1>4, Constants DEF TypeOK, PoisonAccepted
  <2> QED BY <2>1 DEF SortedQueue
<1>5. CASE MainStep /\ ~SubmitAccepted /\ ~PoisonAccepted
  <2>1. poisoned' = poisoned
    BY <1>5 DEF MainStep, MainArrive, MainLeave, SubmitRefused, Mark, Drain, Drained, Stop,
       PoisonRefused, Join
  <2> QED BY <1>2, <1>5, <2>1, MainRing
<1>6. ASSUME NEW w \in Workers, WorkerStep(w) \/ SpuriousWakeup(w) PROVE SortedQueue'
  <2>1. poisoned' = poisoned
    BY <1>1, <1>6, WorkerFrame
  <2>2. CASE PopOldest(w) \/ ScanTake(w) \/ ScanDrop(w)
    <3>1. PICK n \in Nat : rtq_popn_nosync(n)
      <4>1. scan_n \in Nat /\ 0 \in Nat
        BY <1>1, Constants DEF TypeOK
      <4> QED BY <1>1, <2>2, <4>1, PopIsPopnZero DEF PopOldest, ScanTake, ScanDrop
    <3> QED BY <2>1, <3>1, PopKeepsOrder DEF SortedQueue
  <2>3. CASE ~PopOldest(w) /\ ~ScanTake(w) /\ ~ScanDrop(w)
    BY <1>2, <1>6, <2>1, <2>3, WorkerRing
  <2> QED BY <2>2, <2>3
<1> QED BY <1>2, <1>3, <1>4, <1>5, <1>6 DEF Next, Expire, Terminated, vars

LEMMA LateKeeps ==
    ASSUME FifoDeadlines, ScanInv, [Next]_vars
    PROVE  OlderToo(late)' /\ OlderToo(nowLate)'
<1>1. TypeOK /\ OlderToo(late) /\ OlderToo(nowLate)
  BY DEF ScanInv, IInv
<1>2. CASE MainStep
  <2>1. late' = late /\ nowLate' = nowLate
    BY <1>1, <1>2, MainFrame
  <2> QED BY <1>1, <2>1 DEF OlderToo
<1>3. ASSUME NEW w \in Workers, WorkerStep(w) \/ SpuriousWakeup(w)
      PROVE  OlderToo(late)' /\ OlderToo(nowLate)'
  <2>1. late' = late /\ nowLate' \in {{}, late, nowLate}
    BY <1>1, <1>3, WorkerFrame DEF WorkerStep, SpuriousWakeup, Boot, Leave, Top, PopLock,
       PopTest, PopOldest, Wait, ScanStart, ScanDrop, ScanTake, ScanLeave, Finish, Dismiss,
       Record, CheckAssertion, PopReturn, scanVars
  <2> QED BY <1>1, <2>1 DEF OlderToo
<1>4. ASSUME NEW i \in Jobs, Expire(i) PROVE OlderToo(late)' /\ OlderToo(nowLate)'
  <2>1. late' = late \cup {i} /\ 1 .. i - 1 \subseteq late /\ nowLate' = nowLate
    BY <1>4 DEF Expire, scanVars
  <2> QED BY <1>1, <2>1 DEF OlderToo
<1>5. CASE UNCHANGED vars
  BY <1>1, <1>5 DEF vars, scanVars, OlderToo
<1> QED BY <1>2, <1>3, <1>4, <1>5 DEF Next, Terminated

LEMMA PassedKeeps == ASSUME ScanInv, [Next]_vars PROVE Passed'
<1>1. IInv /\ TypeOK /\ Passed /\ scan_n \in Nat /\ size \in Nat
  BY Constants DEF ScanInv, IInv, TypeOK, QTypeOK
<1> SUFFICES ASSUME NEW w \in Workers, pc'[w] = "scan",
                    NEW m \in 0 .. size' - 1, m < scan_n'
             PROVE  elems'[Slot(m)'] \notin nowLate'
  BY DEF Passed
<1>2. CASE WorkerStep(w)
  <2>1. ScanStart(w) \/ ScanDrop(w) \/ ScanLeave(w)
    BY <1>1, <1>2 DEF TypeOK, WorkerStep, Boot, Leave, Top, PopLock, PopTest, PopOldest, Wait,
       ScanTake, Finish, Dismiss, Record, CheckAssertion, PopReturn, Goto
  <2>2. CASE ScanStart(w)
    BY <2>2 DEF ScanStart
  <2>3. CASE ScanDrop(w)
    BY <2>3, DropsAtHead DEF ScanDrop, scanVars
  <2>4. CASE ScanLeave(w)
    <3>1. /\ pc[w] = "scan" /\ scan_n < size /\ scan_n' = scan_n + 1
          /\ elems[Slot(scan_n)] \notin nowLate
      BY <1>1, <2>4 DEF ScanLeave, ScannedIsLate, Scanned, rtq_peekn_nosync
    <3>2. UNCHANGED <<elems, tail, size, nowLate>>
      BY <2>4 DEF ScanLeave, qvars
    <3>3. m = scan_n \/ m < scan_n
      BY <1>1, <3>1
    <3> QED BY <1>1, <3>1, <3>2, <3>3 DEF Passed, Slot
  <2> QED BY <2>1, <2>2, <2>3, <2>4
<1>3. CASE ~WorkerStep(w)
  <2>1. pc[w] = "scan"
    <3>1. CASE MainStep
      BY <1>1, <3>1, MainFrame
    <3>2. ASSUME NEW v \in Workers, WorkerStep(v) \/ SpuriousWakeup(v) PROVE pc[w] = "scan"
      <4>1. CASE v = w
        BY <1>1, <1>3, <3>2, <4>1 DEF SpuriousWakeup, Goto, TypeOK
      <4>2. CASE v # w
        BY <1>1, <3>2, <4>2, WorkerFrame DEF TypeOK
      <4> QED BY <4>1, <4>2
    <3> QED BY <3>1, <3>2 DEF Next, Expire, Terminated, vars
  <2>2. UNCHANGED <<elems, tail, size, scan_n, nowLate>>
    BY <1>1, <1>3, <2>1, ScanUndisturbed DEF qvars
  <2> QED BY <1>1, <2>1, <2>2 DEF Passed, Slot
<1> QED BY <1>2, <1>3

\* When deadlines pass in the order of submission, a scan that finds nothing to
\* run has dropped every job that was late when it began, for any number of jobs
\* and workers and at any state of the ring (rtqueue.c:155-158, 201-206).
THEOREM ScanDropsAllLate ==
    ASSUME FifoDeadlines
    PROVE  Spec => ScanPurgesLate
<1>1. Init => ScanInv
  <2> SUFFICES ASSUME Init PROVE ScanInv
    OBVIOUS
  <2>1. SortedQueue /\ OlderToo(late) /\ OlderToo(nowLate) /\ Passed
    BY DEF Init, rtq_init, SortedQueue, OlderToo, Passed
  <2> QED BY <2>1, Initially DEF ScanInv
<1>2. ScanInv /\ [Next]_vars => ScanInv'
  <2> SUFFICES ASSUME ScanInv, [Next]_vars PROVE ScanInv'
    OBVIOUS
  <2>1. IInv'
    BY StepKeeps DEF ScanInv
  <2> QED BY <2>1, SortedKeeps, LateKeeps, PassedKeeps DEF ScanInv
<1>3. ScanInv /\ [Next]_vars
          => [\A w \in Workers : pc[w] = "scan" /\ pc'[w] = "waiting"
                                    => Queued \cap nowLate = {}]_vars
  <2> SUFFICES ASSUME ScanInv, [Next]_vars, NEW w \in Workers,
                      pc[w] = "scan", pc'[w] = "waiting"
               PROVE  Queued \cap nowLate = {}
    OBVIOUS
  <2>1. TypeOK /\ scan_n \in Nat /\ size \in Nat
    BY Constants DEF ScanInv, IInv, TypeOK, QTypeOK
  <2>2. Wait(w)
    <3>1. CASE MainStep
      BY <2>1, <3>1, MainFrame
    <3>2. ASSUME NEW v \in Workers, WorkerStep(v) \/ SpuriousWakeup(v) PROVE v = w
      BY <2>1, <3>2, WorkerFrame DEF TypeOK
    <3>3. CASE WorkerStep(w) \/ SpuriousWakeup(w)
      BY <2>1, <3>3 DEF TypeOK, WorkerStep, SpuriousWakeup, Boot, Leave, Top, PopLock,
         PopTest, PopOldest, ScanStart, ScanDrop, ScanTake, ScanLeave, Finish, Dismiss,
         Record, CheckAssertion, PopReturn, Goto
    <3> QED BY <3>1, <3>2, <3>3 DEF Next, Expire, Terminated, vars
  <2>3. scan_n >= size
    BY <2>2 DEF Wait
  <2>4. \A m \in 0 .. size - 1 : elems[Slot(m)] \notin nowLate
    <3>1. \A m \in 0 .. size - 1 : m < scan_n
      BY <2>1, <2>3
    <3> QED BY <3>1 DEF ScanInv, Passed
  <2> QED BY <2>4 DEF Queued
<1> QED BY <1>1, <1>2, <1>3, PTL DEF Spec, ScanPurgesLate

-------------------------------------------------------------------------------
(* The histogram of a report *)

\* The runs of the first r values.
EndsUpTo(values, thr, r) == Ends(values, thr) \cap (1 .. r)

SpreadUpTo(values, thr, r) ==
    LET Length(i) == Cardinality(RunBefore(values, thr, i))
    IN  [n \in 0 .. SZ - 1 |->
            Cardinality({i \in EndsUpTo(values, thr, r) :
                            IF n < SZ - 1 THEN Length(i) = n ELSE Length(i) >= n})]

LEMMA RunIsFinite ==
    ASSUME NEW values, NEW thr, NEW i \in Nat
    PROVE  /\ IsFiniteSet(RunBefore(values, thr, i))
           /\ Cardinality(RunBefore(values, thr, i)) \in Nat
<1>1. IsFiniteSet(1 .. i - 1)
  BY FS_Interval
<1>2. RunBefore(values, thr, i) \subseteq 1 .. i - 1
  BY DEF RunBefore
<1>3. IsFiniteSet(RunBefore(values, thr, i))
  BY <1>1, <1>2, FS_Subset
<1> QED BY <1>3, FS_CardinalityType

LEMMA RunGoesOn ==
    ASSUME NEW values, NEW thr, NEW i \in Nat \ {0},
           i \notin Ends(values, thr)
    PROVE  Cardinality(RunBefore(values, thr, i + 1))
               = Cardinality(RunBefore(values, thr, i)) + 1
<1>1. RunBefore(values, thr, i + 1) = RunBefore(values, thr, i) \cup {i}
  <2>1. ASSUME NEW k \in 1 .. i - 1
        PROVE  (\A m \in k .. (i + 1) - 1 : m \notin Ends(values, thr))
                   <=> \A m \in k .. i - 1 : m \notin Ends(values, thr)
    <3>1. k .. (i + 1) - 1 = (k .. i - 1) \cup {i}
      OBVIOUS
    <3> QED BY <3>1
  <2>2. 1 .. (i + 1) - 1 = (1 .. i - 1) \cup {i} /\ i .. (i + 1) - 1 = {i}
    OBVIOUS
  <2> QED BY <2>1, <2>2 DEF RunBefore
<1>2. i \notin RunBefore(values, thr, i)
  BY DEF RunBefore
<1>3. IsFiniteSet(RunBefore(values, thr, i))
  BY RunIsFinite
<1> QED BY <1>1, <1>2, <1>3, FS_AddElement

LEMMA RunIsEnded ==
    ASSUME NEW values, NEW thr, NEW i \in Nat \ {0}, i \in Ends(values, thr)
    PROVE  Cardinality(RunBefore(values, thr, i + 1)) = 0
<1>1. \A k \in 1 .. (i + 1) - 1 : i \in k .. (i + 1) - 1
  OBVIOUS
<1>2. RunBefore(values, thr, i + 1) = {}
  BY <1>1 DEF RunBefore
<1> QED BY <1>2, FS_EmptySet

\* The run that the value after the first r ends is one more in its bin, and no
\* more in any other.
LEMMA RunIsBinned ==
    ASSUME NEW values, NEW thr, NEW r \in Nat, r + 1 \in Ends(values, thr)
    PROVE  SpreadUpTo(values, thr, r + 1)
               = [SpreadUpTo(values, thr, r)
                      EXCEPT ![Bin(Cardinality(RunBefore(values, thr, r + 1)))] = @ + 1]
<1> DEFINE c == Cardinality(RunBefore(values, thr, r + 1))
           In(n, i) == LET l == Cardinality(RunBefore(values, thr, i))
                       IN  IF n < SZ - 1 THEN l = n ELSE l >= n
           Runs(n, q) == {i \in EndsUpTo(values, thr, q) : In(n, i)}
<1>1. c \in Nat
  BY RunIsFinite
<1>2. \A q \in Nat : \A n : IsFiniteSet(Runs(n, q)) /\ Cardinality(Runs(n, q)) \in Nat
  <2> SUFFICES ASSUME NEW q \in Nat, NEW n
               PROVE  IsFiniteSet(Runs(n, q)) /\ Cardinality(Runs(n, q)) \in Nat
    OBVIOUS
  <2>1. IsFiniteSet(1 .. q)
    BY FS_Interval
  <2>2. Runs(n, q) \subseteq 1 .. q
    BY DEF EndsUpTo
  <2>3. IsFiniteSet(Runs(n, q))
    BY <2>1, <2>2, FS_Subset
  <2> QED BY <2>3, FS_CardinalityType
<1>3. EndsUpTo(values, thr, r + 1) = EndsUpTo(values, thr, r) \cup {r + 1}
  <2>1. 1 .. r + 1 = (1 .. r) \cup {r + 1}
    OBVIOUS
  <2> QED BY <2>1 DEF EndsUpTo
<1>4. r + 1 \notin EndsUpTo(values, thr, r)
  BY DEF EndsUpTo
<1>5. \A n \in 0 .. SZ - 1 : In(n, r + 1) <=> n = Bin(c)
  <2> HIDE DEF c
  <2> SUFFICES ASSUME NEW n \in 0 .. SZ - 1
               PROVE  (IF n < SZ - 1 THEN c = n ELSE c >= n) <=> n = Bin(c)
    BY DEF c
  <2> QED BY <1>1, BinsAssumption DEF Bin
<1>6. \A n \in 0 .. SZ - 1 :
          Cardinality(Runs(n, r + 1)) = IF n = Bin(c) THEN Cardinality(Runs(n, r)) + 1
                                                      ELSE Cardinality(Runs(n, r))
  <2> SUFFICES ASSUME NEW n \in 0 .. SZ - 1
               PROVE  Cardinality(Runs(n, r + 1))
                          = IF n = Bin(c) THEN Cardinality(Runs(n, r)) + 1
                                          ELSE Cardinality(Runs(n, r))
    OBVIOUS
  <2>1. In(n, r + 1) <=> n = Bin(c)
    BY <1>5
  <2> HIDE DEF In, c
  <2>2. CASE n = Bin(c)
    <3>1. Runs(n, r + 1) = Runs(n, r) \cup {r + 1} /\ r + 1 \notin Runs(n, r)
      BY <1>3, <1>4, <2>1, <2>2
    <3>2. IsFiniteSet(Runs(n, r))
      BY <1>2
    <3> HIDE DEF Runs
    <3> QED BY <2>2, <3>1, <3>2, FS_AddElement
  <2>3. CASE n # Bin(c)
    <3>1. Runs(n, r + 1) = Runs(n, r)
      BY <1>3, <2>1, <2>3
    <3> QED BY <2>3, <3>1
  <2> QED BY <2>2, <2>3
<1> DEFINE Before == SpreadUpTo(values, thr, r)
           After == SpreadUpTo(values, thr, r + 1)
<1>7. Before = [n \in 0 .. SZ - 1 |-> Before[n]] /\ After = [n \in 0 .. SZ - 1 |-> After[n]]
  BY DEF SpreadUpTo
<1>8. \A n \in 0 .. SZ - 1 : After[n] = IF n = Bin(c) THEN Before[n] + 1 ELSE Before[n]
  <2> SUFFICES ASSUME NEW n \in 0 .. SZ - 1
               PROVE  After[n] = IF n = Bin(c) THEN Before[n] + 1 ELSE Before[n]
    OBVIOUS
  <2>1. Before[n] = Cardinality(Runs(n, r)) /\ After[n] = Cardinality(Runs(n, r + 1))
    BY DEF SpreadUpTo
  <2>2. Cardinality(Runs(n, r + 1))
            = IF n = Bin(c) THEN Cardinality(Runs(n, r)) + 1 ELSE Cardinality(Runs(n, r))
    BY <1>6
  <2> HIDE DEF Runs, Before, After, c
  <2> QED BY <2>1, <2>2
<1> HIDE DEF Before, After, c
<1>9. After = [Before EXCEPT ![Bin(c)] = @ + 1]
  BY <1>7, <1>8
<1> QED BY <1>9 DEF Before, After, c

\* For every column and every threshold or none, the bins at the end of the input
\* tell how the lengths of the runs are spread: each run is in one bin, that of its
\* length, or the last one, and a run that nothing ends in none (bins.c:34-53).
\* The first q values are read into the state Read(q), by induction over q.
THEOREM HistogramSpreads ==
    ASSUME NEW len \in Nat, NEW values \in [1 .. len -> Int], NEW thr
    PROVE  Histogram(values, thr) = Spread(values, thr)
<1> DEFINE Read(q) == [bins |-> SpreadUpTo(values, thr, q),
                       cnt |-> Cardinality(RunBefore(values, thr, q + 1))]
           V == [bins : [0 .. SZ - 1 -> Nat], cnt : Nat]
           Unfolds(it) == it = [s \in SUBSET DOMAIN values |->
                               IF s = {} THEN AllEmpty
                               ELSE Scanf(it[s \ {Max(s)}], values[Max(s)], thr)]
           scan == CHOOSE it : Unfolds(it)
           F == [p \in (1 .. len) \X V |-> Scanf(p[2], values[p[1]], thr)]
<1>1. AllEmpty = Read(0)
  <2>1. RunBefore(values, thr, 0 + 1) = {}
    BY DEF RunBefore
  <2>2. EndsUpTo(values, thr, 0) = {}
    BY DEF EndsUpTo
  <2>3. Cardinality({}) = 0
    BY FS_EmptySet
  <2>4. SpreadUpTo(values, thr, 0) = [n \in 0 .. SZ - 1 |-> 0]
    BY <2>2, <2>3 DEF SpreadUpTo
  <2> QED BY <2>1, <2>3, <2>4 DEF AllEmpty
<1>2. ASSUME NEW q \in 0 .. len - 1 PROVE Scanf(Read(q), values[q + 1], thr) = Read(q + 1)
  <2>1. q \in Nat /\ q + 1 \in Nat \ {0} /\ q + 1 \in DOMAIN values
    OBVIOUS
  <2>2. CASE Counted(values[q + 1], thr)
    <3>1. q + 1 \notin Ends(values, thr)
      BY <2>2 DEF Ends
    <3>2. Cardinality(RunBefore(values, thr, (q + 1) + 1))
              = Cardinality(RunBefore(values, thr, q + 1)) + 1
      BY <2>1, <3>1, RunGoesOn
    <3>3. EndsUpTo(values, thr, q + 1) = EndsUpTo(values, thr, q)
      <4>1. 1 .. q + 1 = (1 .. q) \cup {q + 1}
        OBVIOUS
      <4> QED BY <3>1, <4>1 DEF EndsUpTo
    <3>4. SpreadUpTo(values, thr, q + 1) = SpreadUpTo(values, thr, q)
      BY <3>3 DEF SpreadUpTo
    <3> QED BY <2>2, <3>2, <3>4 DEF Scanf
  <2>3. CASE ~Counted(values[q + 1], thr)
    <3>1. q + 1 \in Ends(values, thr)
      BY <2>1, <2>3 DEF Ends
    <3>2. Cardinality(RunBefore(values, thr, (q + 1) + 1)) = 0
      BY <2>1, <3>1, RunIsEnded
    <3>3. SpreadUpTo(values, thr, q + 1)
              = [SpreadUpTo(values, thr, q)
                     EXCEPT ![Bin(Cardinality(RunBefore(values, thr, q + 1)))] = @ + 1]
      BY <2>1, <3>1, RunIsBinned
    <3> QED BY <2>3, <3>2, <3>3 DEF Scanf
  <2> QED BY <2>2, <2>3
<1>3. Read(len).bins = Spread(values, thr)
  <2>1. DOMAIN values = 1 .. len
    OBVIOUS
  <2>2. EndsUpTo(values, thr, len) = Ends(values, thr)
    BY <2>1 DEF EndsUpTo, Ends
  <2> QED BY <2>2 DEF SpreadUpTo, Spread
<1>4. AllEmpty \in V
  BY DEF AllEmpty
<1>5. F \in [(1 .. len) \X V -> V]
  <2> SUFFICES ASSUME NEW k \in 1 .. len, NEW x \in V PROVE Scanf(x, values[k], thr) \in V
    OBVIOUS
  <2>1. CASE Counted(values[k], thr)
    BY <2>1 DEF Scanf
  <2>2. CASE ~Counted(values[k], thr)
    <3> DEFINE b == x.bins
               c == Bin(x.cnt)
    <3>1. b \in [0 .. SZ - 1 -> Nat] /\ c \in 0 .. SZ - 1
      BY BinsAssumption DEF Bin
    <3> HIDE DEF b, c
    <3>2. [b EXCEPT ![c] = @ + 1] \in [0 .. SZ - 1 -> Nat]
      BY <3>1
    <3>3. Scanf(x, values[k], thr) = [bins |-> [b EXCEPT ![c] = @ + 1], cnt |-> 0]
      BY <2>2 DEF Scanf, b, c
    <3> QED BY <3>2, <3>3
  <2> QED BY <2>1, <2>2
<1>6. Unfolds(scan)
  <2>1. PICK g : IsFold(g, len, V, AllEmpty, F)
    <3> HIDE DEF F, V
    <3> QED BY <1>4, <1>5, FoldExists
  <2>2. ASSUME NEW s \in SUBSET (1 .. len), s # {}
        PROVE  g[s] = Scanf(g[s \ {Max(s)}], values[Max(s)], thr)
    <3>1. Max(s) \in 1 .. len
      BY <2>2, MaxOf
    <3>2. g[s \ {Max(s)}] \in V /\ g[s] = F[<<Max(s), g[s \ {Max(s)}]>>]
      <4> HIDE DEF F, V
      <4> QED BY <2>1, <2>2 DEF IsFold
    <3> HIDE DEF V
    <3> QED BY <3>1, <3>2
  <2>3. g = [s \in SUBSET (1 .. len) |->
                 IF s = {} THEN AllEmpty
                 ELSE Scanf(g[s \ {Max(s)}], values[Max(s)], thr)]
    <3> HIDE DEF F, V
    <3> QED BY <2>1, <2>2 DEF IsFold
  <2>4. Unfolds(g)
    BY <2>3
  <2> HIDE DEF Unfolds
  <2> QED BY <2>4
<1> DEFINE Done == {q \in Nat : q <= len => scan[1 .. q] = Read(q)}
<1>7. 0 \in Done
  <2>1. scan[{}] = AllEmpty
    <3> HIDE DEF scan
    <3> QED BY <1>6
  <2>2. 1 .. 0 = {}
    OBVIOUS
  <2> HIDE DEF scan, Read
  <2> QED BY <1>1, <2>1, <2>2
<1>8. ASSUME NEW q \in Nat, q \in Done PROVE q + 1 \in Done
  <2> SUFFICES ASSUME q + 1 <= len PROVE scan[1 .. q + 1] = Read(q + 1)
    OBVIOUS
  <2>1. scan[1 .. q] = Read(q)
    BY <1>8
  <2>2. Max(1 .. q + 1) = q + 1 /\ (1 .. q + 1) \ {q + 1} = 1 .. q
    BY TopOf
  <2>3. 1 .. q + 1 \in SUBSET DOMAIN values /\ 1 .. q + 1 # {} /\ q \in 0 .. len - 1
    <3>1. DOMAIN values = 1 .. len
      OBVIOUS
    <3>2. q + 1 \in 1 .. q + 1 /\ \A x \in 1 .. q + 1 : x \in 1 .. len
      OBVIOUS
    <3>3. q \in 0 .. len - 1
      OBVIOUS
    <3>4. 1 .. q + 1 \subseteq 1 .. len
      BY <3>2
    <3> HIDE DEF scan, Read, F, V, Done
    <3> QED BY <3>1, <3>2, <3>3, <3>4
  <2> HIDE DEF scan, Read
  <2>4. scan[1 .. q + 1]
            = Scanf(scan[(1 .. q + 1) \ {Max(1 .. q + 1)}], values[Max(1 .. q + 1)], thr)
    BY <1>6, <2>3
  <2>5. scan[1 .. q + 1] = Scanf(Read(q), values[q + 1], thr)
    BY <2>1, <2>2, <2>4
  <2> QED BY <1>2, <2>3, <2>5
<1>9. scan[1 .. len] = Read(len)
  <2>1. len \in Done
    <3> HIDE DEF Done
    <3> QED BY <1>7, <1>8, NatInduct
  <2> HIDE DEF scan, Read
  <2> QED BY <2>1
<1>10. Histogram(values, thr) = scan[DOMAIN values].bins
  BY DEF Histogram, FoldLeft, MapThenFoldSet
<1>11. DOMAIN values = 1 .. len
  OBVIOUS
<1> HIDE DEF scan, Read
<1> QED BY <1>3, <1>9, <1>10, <1>11

\* Whatever the number of jobs and the bins of the histogram, what the tool makes of
\* the program's report is how the jobs with another outcome are spread among the
\* dismissed ones, or the late ones (rtqueue.c:632, bins.c:40-53).
THEOREM HistogramIsTrue == Spec => []HistogramOfReport
<1>1. IInv => HistogramOfReport
  <2> SUFFICES ASSUME IInv, NEW thr
               PROVE  Histogram(elapsed, thr) = Spread(elapsed, thr)
    BY DEF HistogramOfReport
  <2>1. elapsed \in [1 .. num_reqs -> Int]
    BY DEF IInv, TypeOK, Jobs
  <2>2. num_reqs \in Nat
    BY Constants
  <2> QED BY <2>1, <2>2, HistogramSpreads
<1> QED BY <1>1, Invariance, PTL

===============================================================================
