------------------------------ MODULE DlSyncProofs ------------------------------
(***************************************************************************)
(* dl_sync() for any number of workers, any budget and period, any latency.  *)
(*                                                                         *)
(* The invariant SyncInv follows the deadline of a worker through the steps  *)
(* of dl_sync().  Between reading the clock and falling asleep the worker    *)
(* cannot spend two budgets, so its deadline is put off once at most and has *)
(* passed when it wakes up: the kernel must give it a new one, one period    *)
(* after the wakeup, and for the same reason it still has it when it reads.  *)
(***************************************************************************)
EXTENDS DlSync, TLAPS

LEMMA Numbers == /\ Q \in Nat /\ P \in Nat /\ 0 < Q /\ Q < P
                 /\ Offset \in Int /\ Suspended \in Nat /\ MaxLatency \in Nat
                 /\ NONE \notin Worker /\ NONE \notin Int /\ Digits \subseteq Int
BY DlSyncAssumption

\* A budget that is not spent does not fit a deadline that has come.
LEMMA BudgetNeedsTime ==
    ASSUME NEW r \in Nat, 0 < r, NEW x \in Int, x <= 0 PROVE ~(r * P <= x * Q)
<1>1. r * P > 0
  BY Numbers
<1>2. x * Q <= 0
  BY Numbers
<1>3. r * P \in Int /\ x * Q \in Int
  BY Numbers
<1> QED BY <1>1, <1>2, <1>3

LEMMA SyncStarts == SyncInit => SyncInv
BY Numbers DEF SyncInit, SyncInv, SyncTypeOK, StepInv, SyncedInv, Steps, Awake

-------------------------------------------------------------------------------
(* A step of one worker *)

\* What a step of worker w leaves alone of the others.
LEMMA OthersKeep ==
    ASSUME SyncInv, NEW w \in Worker, NEW v \in Worker \ refused', v # w,
           refused \subseteq refused',
           now' = now, pc'[v] = pc[v], ts_next'[v] = ts_next[v], dl'[v] = dl[v],
           rt'[v] = rt[v], worked'[v] = worked[v]
    PROVE  StepInv(v)'
BY DEF SyncInv, StepInv, Dl

\* A step that measures nothing leaves what was measured.
LEMMA MeasuredKeeps ==
    ASSUME SyncInv, UNCHANGED <<proc, dl_sync_delta_ns, last, own>>, refused \subseteq refused'
    PROVE  SyncedInv'
BY DEF SyncInv, SyncedInv

LEMMA ReserveKeeps == ASSUME SyncInv, NEW w \in Worker, sched_set_deadline(w) PROVE SyncInv'
<1> USE Numbers DEF sched_set_deadline, Unmeasured
<1>1. SyncTypeOK'
  BY DEF SyncInv, SyncTypeOK, Steps, rq_clock
<1>2. ASSUME NEW v \in Worker \ refused' PROVE StepInv(v)'
  <2>1. CASE v = w
    BY <2>1 DEF SyncInv, SyncTypeOK, StepInv, Dl, Awake, rq_clock
  <2>2. CASE v # w
    BY <2>2, OthersKeep DEF SyncInv, SyncTypeOK
  <2> QED BY <2>1, <2>2
<1>3. SyncedInv'
  BY MeasuredKeeps
<1> QED BY <1>1, <1>2, <1>3 DEF SyncInv

LEMMA ReadClockKeeps == ASSUME SyncInv, NEW w \in Worker, ReadClock(w) PROVE SyncInv'
<1> USE Numbers DEF ReadClock, Moves, Unmeasured
<1>1. SyncTypeOK'
  BY DEF SyncInv, SyncTypeOK, Steps
<1>2. ASSUME NEW v \in Worker \ refused' PROVE StepInv(v)'
  <2>1. CASE v = w
    BY <2>1 DEF SyncInv, SyncTypeOK, StepInv, Dl, Awake
  <2>2. CASE v # w
    BY <2>2, OthersKeep DEF SyncInv, SyncTypeOK
  <2> QED BY <2>1, <2>2
<1>3. SyncedInv'
  BY MeasuredKeeps
<1> QED BY <1>1, <1>2, <1>3 DEF SyncInv

\* The deadline is at most two periods after the clock was read, and has not come:
\* the worker does fall asleep.
LEMMA SleepKeeps == ASSUME SyncInv, NEW w \in Worker, Sleep(w) PROVE SyncInv'
<1> USE Numbers DEF Sleep, Moves, Unmeasured
<1>1. SyncTypeOK'
  BY DEF SyncInv, SyncTypeOK, Steps
<1>2. ASSUME NEW v \in Worker \ refused' PROVE StepInv(v)'
  <2>1. CASE v = w
    <3>1. /\ StepInv(w) /\ rt[w] > 0
          /\ now \in Nat /\ ts_next[w] \in Nat /\ Dl(w) \in Int /\ rt[w] \in Nat
      BY <1>2, <2>1 DEF SyncInv, SyncTypeOK, CanRun, Dl
    <3>2. now < WakeupTime(w) /\ Dl(w) <= ts_next[w] + 2 * P
      BY <3>1 DEF StepInv, Awake, WakeupTime
    <3>3. pc'[w] = "asleep" /\ Dl(w)' = Dl(w)
      BY <3>2 DEF SyncInv, SyncTypeOK, Dl
    <3> QED BY <2>1, <3>1, <3>2, <3>3 DEF StepInv, Awake, WakeupTime
  <2>2. CASE v # w
    BY <2>2, OthersKeep DEF SyncInv, SyncTypeOK
  <2> QED BY <2>1, <2>2
<1>3. SyncedInv'
  BY MeasuredKeeps
<1> QED BY <1>1, <1>2, <1>3 DEF SyncInv

\* The deadline has passed: the kernel gives a new one.
LEMMA WakeKeeps == ASSUME SyncInv, NEW w \in Worker, Wake(w) PROVE SyncInv'
<1> USE Numbers DEF Wake, Moves, Unmeasured
<1>1. SyncTypeOK'
  BY DEF SyncInv, SyncTypeOK, Steps, rq_clock
<1>2. ASSUME NEW v \in Worker \ refused' PROVE StepInv(v)'
  <2>1. CASE v = w
    <3>1. /\ StepInv(w) /\ w \notin refused
          /\ now \in Nat /\ ts_next[w] \in Nat /\ dl[w] \in Int /\ rt[w] \in Nat
      BY <1>2, <2>1 DEF SyncInv, SyncTypeOK
    <3>2. /\ Dl(w) <= ts_next[w] + 2 * P /\ rt[w] > 0
          /\ now \in ts_next[w] + 2 * P .. ts_next[w] + 2 * P + MaxLatency
      BY <3>1 DEF StepInv, WakeupTime
    <3>3. dl[w] - rq_clock <= 0 /\ dl[w] - rq_clock \in Int
      BY <3>1, <3>2 DEF Dl, rq_clock
    <3>4. ~Fits(w)
      BY <3>1, <3>2, <3>3, BudgetNeedsTime DEF Fits
    <3>5. /\ dl'[w] = rq_clock + P /\ rt'[w] = Q /\ worked'[w] = 0 /\ pc'[w] = "woken"
          /\ ts_next'[w] = ts_next[w] /\ now' = now
      BY <3>1, <3>4 DEF SyncInv, SyncTypeOK
    <3>6. Dl(w)' = now + P
      BY <3>1, <3>5 DEF Dl, rq_clock
    <3> QED BY <2>1, <3>1, <3>2, <3>5, <3>6 DEF StepInv, Awake
  <2>2. CASE v # w
    BY <2>2, OthersKeep DEF SyncInv, SyncTypeOK
  <2> QED BY <2>1, <2>2
<1>3. SyncedInv'
  BY MeasuredKeeps
<1> QED BY <1>1, <1>2, <1>3 DEF SyncInv

\* Whatever the worker takes for its deadline, it leaves the reservations alone.
LEMMA MeasuresKeeps ==
    ASSUME SyncInv, NEW w \in Worker, NEW d \in Int, Measures(w, d, DeadlineGuess(w)),
           own' \in BOOLEAN
    PROVE  SyncTypeOK' /\ \A v \in Worker \ refused' : StepInv(v)'
<1> USE Numbers DEF Measures, Moves, DeadlineGuess, WakeupTime
<1>1. SyncTypeOK'
  BY DEF SyncInv, SyncTypeOK, Steps
<1>2. ASSUME NEW v \in Worker \ refused' PROVE StepInv(v)'
  <2>1. CASE v = w
    BY <2>1 DEF SyncInv, SyncTypeOK, StepInv, Dl, Awake
  <2>2. CASE v # w
    BY <2>2, OthersKeep DEF SyncInv, SyncTypeOK
  <2> QED BY <2>1, <2>2
<1> QED BY <1>1, <1>2

LEMMA SyncedKeeps == ASSUME SyncInv, NEW w \in Worker, Synced(w) PROVE SyncInv'
<1>1. dl[w] \in Int /\ ts_next[w] \in Nat
  BY DEF SyncInv, SyncTypeOK
<1>2. SyncTypeOK' /\ \A v \in Worker \ refused' : StepInv(v)'
  BY <1>1, MeasuresKeeps DEF Synced
<1>3. w \notin refused => dl_sync_delta_ns' \in Offset .. Offset + MaxLatency
  <2> SUFFICES ASSUME w \notin refused
               PROVE  dl_sync_delta_ns' \in Offset .. Offset + MaxLatency
    OBVIOUS
  <2>1. Dl(w) \in ts_next[w] + 3 * P .. ts_next[w] + 3 * P + MaxLatency
    BY DEF SyncInv, StepInv, Synced, Measures, Moves
  <2> QED BY <1>1, <2>1, Numbers DEF Synced, Measures, DeadlineGuess, WakeupTime, Dl
<1>4. SyncedInv'
  BY <1>3 DEF SyncInv, SyncedInv, Synced, Measures, Moves
<1> QED BY <1>2, <1>4 DEF SyncInv

\* Only the /proc source lets a worker read what is not its own.
LEMMA ByAnotherKeeps == ASSUME SyncInv, NEW w \in Worker, SyncedByAnother(w) PROVE SyncInv'
<1>1. PICK d \in Misread(w) : Measures(w, d, DeadlineGuess(w)) /\ own' = FALSE
  BY DEF SyncedByAnother
<1>2. d \in Int /\ proc
  <2>1. \A v \in Worker : dl[v] \in Int
    BY DEF SyncInv, SyncTypeOK
  <2>2. proc /\ (d \in {dl[v] : v \in Worker \ {w}} \/ d \in Digits)
    BY Zenon DEF Misread
  <2> QED BY <2>1, <2>2, Numbers
<1>3. SyncTypeOK' /\ \A v \in Worker \ refused' : StepInv(v)'
  BY <1>1, <1>2, MeasuresKeeps
<1>4. SyncedInv'
  BY <1>1, <1>2 DEF SyncedInv, Measures, Moves
<1> QED BY <1>3, <1>4 DEF SyncInv

\* The program exits: no worker is awake any more.
LEMMA ReadFailsKeeps == ASSUME SyncInv, NEW w \in Worker, ReadFails(w) PROVE SyncInv'
<1> USE DEF ReadFails, Unmeasured
<1>1. SyncTypeOK'
  BY DEF SyncInv, SyncTypeOK, Steps
<1>2. ASSUME NEW v \in Worker \ refused' PROVE StepInv(v)'
  BY DEF SyncInv, StepInv, Awake
<1>3. SyncedInv'
  BY MeasuredKeeps
<1> QED BY <1>1, <1>2, <1>3 DEF SyncInv

-------------------------------------------------------------------------------
(* Time *)

\* What a unit of time does to the reservation of an awake worker: the deadline is
\* still ahead afterwards, put off if it has come, and what it has worked and what
\* is left of the budget add up to the same unless there is a new one.
LEMMA TickAwake ==
    ASSUME SyncInv, NEW R \in SUBSET Reserved, Tick(R), NEW w \in Reserved
    PROVE  /\ now' < Dl(w)' /\ Dl(w)' <= now' + P /\ rt'[w] <= Dl(w)' - now'
           /\ \/ /\ Dl(w)' = Dl(w)
                 /\ rt'[w] + worked'[w] >= Q \/ rt[w] + worked[w] < Q \/ pc[w] = "reserved"
              \/ /\ Dl(w)' = Dl(w) + P /\ rt'[w] = Q
                 /\ rt[w] + worked[w] < Q \/ pc[w] = "reserved"
<1> DEFINE left == IF w \in R THEN rt[w] - 1 ELSE rt[w]
           empty == left = 0 /\ dl[w] = rq_clock + 1
<1>1. /\ w \in Worker /\ w \notin refused /\ pc[w] \in Awake /\ StepInv(w)
      /\ now \in Nat /\ dl[w] \in Int /\ rt[w] \in 0 .. Q /\ worked[w] \in 0 .. Q - 1
  BY DEF Reserved, SyncInv, SyncTypeOK
<1>2. /\ now < Dl(w) /\ Dl(w) <= now + P /\ rt[w] <= Dl(w) - now
  BY <1>1 DEF StepInv
<1>3. /\ now' = now + 1
      /\ w \in R => rt[w] > 0 /\ (pc[w] # "reserved" => worked[w] + 1 < Q)
      /\ left <= dl[w] - (rq_clock + 1)
      /\ dl'[w] = (IF empty THEN dl[w] + P ELSE dl[w])
      /\ rt'[w] = (IF empty THEN Q ELSE left)
      /\ worked'[w] = IF w \in R /\ pc[w] # "reserved" THEN worked[w] + 1 ELSE worked[w]
  BY <1>1 DEF Tick
<1>4. left \in Nat /\ left <= Dl(w) - (now + 1)
  BY <1>1, <1>3, Numbers DEF Dl, rq_clock
<1>5. CASE empty
  <2>1. Dl(w) = now + 1 /\ Dl(w)' = Dl(w) + P /\ rt'[w] = Q
    BY <1>1, <1>3, <1>5, Numbers DEF Dl, rq_clock
  <2>2. rt[w] + worked[w] < Q \/ pc[w] = "reserved"
    BY <1>1, <1>3, <1>5, Numbers
  <2> QED BY <1>1, <1>3, <2>1, <2>2, Numbers
<1>6. CASE ~empty
  <2>1. Dl(w)' = Dl(w) /\ rt'[w] = left
    BY <1>1, <1>3, <1>6, Numbers DEF Dl, rq_clock
  <2>2. now + 1 < Dl(w)
    BY <1>1, <1>4, <1>6, Numbers DEF Dl, rq_clock
  <2>3. rt'[w] + worked'[w] = rt[w] + worked[w] \/ pc[w] = "reserved"
    BY <1>1, <1>3, <2>1, Numbers
  <2>4. rt'[w] + worked'[w] >= Q \/ rt[w] + worked[w] < Q \/ pc[w] = "reserved"
    BY <1>1, <2>3, Numbers
  <2>5. Dl(w) \in Int
    BY <1>1, Numbers DEF Dl
  <2> QED BY <1>1, <1>2, <1>3, <1>4, <2>1, <2>2, <2>4, <2>5, Numbers
<1> QED BY <1>5, <1>6

LEMMA TickTypes == ASSUME SyncInv, NEW R \in SUBSET Reserved, Tick(R) PROVE SyncTypeOK'
<1> USE Numbers DEF SyncTypeOK
<1>1. R \subseteq Worker
  BY DEF Reserved
<1>2. dl' \in [Worker -> Int]
  BY DEF SyncInv, Tick
<1>3. rt' \in [Worker -> 0 .. Q]
  BY <1>1 DEF SyncInv, Tick
<1>4. worked' \in [Worker -> 0 .. Q - 1]
  BY <1>1 DEF SyncInv, Tick
<1> QED BY <1>2, <1>3, <1>4 DEF SyncInv, Tick, Unmeasured

LEMMA TickKeeps == ASSUME SyncInv, NEW R \in SUBSET Reserved, Tick(R) PROVE SyncInv'
<1>1. SyncTypeOK'
  BY TickTypes
<1>2. ASSUME NEW w \in Worker \ refused' PROVE StepInv(w)'
  <2>1. /\ StepInv(w) /\ w \notin refused /\ now' = now + 1
        /\ pc' = pc /\ ts_next' = ts_next /\ pc[w] \in Steps
        /\ now \in Nat /\ ts_next[w] \in Nat /\ dl[w] \in Int /\ rt[w] \in Nat
        /\ worked[w] \in Nat
    BY Numbers DEF Tick, SyncInv, SyncTypeOK
  <2>2. Dl(w) \in Int /\ Dl(w)' \in Int /\ rt'[w] \in Nat /\ worked'[w] \in Nat
    BY <1>1, <2>1, Numbers DEF Dl, SyncTypeOK
  <2>3. CASE pc[w] \in Awake
    <3>1. w \in Reserved
      BY <2>1, <2>3 DEF Reserved
    <3>2. CASE pc[w] = "reserved"
      BY <2>1, <2>2, <3>1, <3>2, TickAwake, Numbers DEF StepInv
    <3>3. CASE pc[w] = "stamped"
      BY <2>1, <2>2, <3>1, <3>3, TickAwake, <1>1, Numbers DEF StepInv, SyncTypeOK, Awake
    <3>4. CASE pc[w] = "woken"
      BY <2>1, <2>2, <3>1, <3>4, TickAwake, Numbers DEF StepInv, Awake
    <3> QED BY <2>3, <3>2, <3>3, <3>4 DEF Awake
  <2>4. CASE pc[w] \notin Awake
    <3>1. dl'[w] = dl[w] /\ rt'[w] = rt[w] /\ worked'[w] = worked[w] /\ Dl(w)' = Dl(w)
      BY <2>4 DEF Tick, Reserved, Dl
    <3>2. pc[w] = "asleep" => now < ts_next[w] + 2 * P + MaxLatency
      BY DEF Tick, WakeupTime
    <3> QED BY <2>1, <2>2, <2>4, <3>1, <3>2, Numbers DEF StepInv, Awake
  <2> QED BY <2>3, <2>4
<1>3. SyncedInv'
  BY MeasuredKeeps DEF Tick, Unmeasured
<1> QED BY <1>1, <1>2, <1>3 DEF SyncInv

-------------------------------------------------------------------------------
(* The theorems *)

LEMMA StepKeeps == SyncInv /\ [SyncNext]_svars => SyncInv'
<1> SUFFICES ASSUME SyncInv, [SyncNext]_svars PROVE SyncInv'
  OBVIOUS
<1>1. ASSUME NEW w \in Worker, WorkerStep(w) PROVE SyncInv'
  BY <1>1, ReserveKeeps, ReadClockKeeps, SleepKeeps, WakeKeeps, SyncedKeeps, ByAnotherKeeps,
     ReadFailsKeeps DEF WorkerStep
<1>2. ASSUME NEW R \in SUBSET Reserved, Tick(R) PROVE SyncInv'
  BY <1>2, TickKeeps
<1>3. CASE UNCHANGED svars
  BY <1>3 DEF svars, SyncInv, SyncTypeOK, StepInv, SyncedInv, Dl
<1> QED BY <1>1, <1>2, <1>3 DEF SyncNext

\* However many workers measure in whatever order of execution, each has at its
\* wakeup a deadline that the kernel has just given it (dl_util.c:119-129).
THEOREM SyncIsInvariant == SyncSpec => []SyncInv
BY SyncStarts, StepKeeps, PTL DEF SyncSpec

\* For every budget, period and latency: if the last worker to measure has a
\* reservation and has read its own deadline, which a source other than /proc
\* always gives it, the pops of all workers convert their deadlines to
\* CLOCK_MONOTONIC with an error no greater than the latency of that measurement
\* and the time of suspension (dl_util.h:50-52, rtqueue.c:189).
THEOREM OffsetIsRight == SyncSpec => []OffsetWithinLatency
<1>1. SyncInv => OffsetWithinLatency
  <2> SUFFICES ASSUME SyncInv, last # NONE, last \notin refused, proc => own,
                      NEW w \in Worker \ refused
               PROVE  deadline_to_monotonic(dl[w]) - Monotonic(dl[w])
                          \in Suspended - MaxLatency .. Suspended
    BY DEF OffsetWithinLatency
  <2>1. dl_sync_delta_ns \in Offset .. Offset + MaxLatency /\ dl[w] \in Int
    BY DEF SyncInv, SyncTypeOK, SyncedInv
  <2> QED BY <2>1, Numbers DEF deadline_to_monotonic, Monotonic
<1> QED BY <1>1, SyncIsInvariant, PTL
===============================================================================
