--------------------------------- MODULE DlSync ---------------------------------
(***************************************************************************)
(* dl_sync(): how a worker finds out by how much the clock of the run queue,  *)
(* in which the kernel counts deadlines, differs from its own.  It asks for   *)
(* its reservation, sleeps for two periods, so that the kernel must give it a *)
(* new deadline when it wakes up, and takes that deadline to be one period    *)
(* after the wakeup it has asked for.                                         *)
(*                                                                         *)
(* The reservation is a constant bandwidth server, as the kernel keeps one:   *)
(* a budget of Q every P, a deadline that is put off by P when the budget is  *)
(* spent, and a new one when the old one does not fit a task that wakes up.   *)
(* Every worker has a processor on which the reservation is honoured.  Two of *)
(* the sources of module DlParams answer with the deadline of the caller; the *)
(* third, /proc, may answer with that of another worker, with digits of mixed *)
(* texts, or not at all, and then the program exits.                          *)
(*                                                                         *)
(* `now' is CLOCK_BOOTTIME.  Every step takes no time; time passes in Tick.   *)
(***************************************************************************)
EXTENDS Integers

CONSTANTS Worker,
          Q, P,        \* dl_runtime_us, dl_period_us
          Offset,      \* the clock of the run queue minus CLOCK_BOOTTIME
          Suspended,   \* CLOCK_BOOTTIME minus CLOCK_MONOTONIC
          MaxLatency,  \* the timer that ends a sleep is at most this late
          MaxTime,     \* bound: the time modelled
          Digits,      \* what mixed texts may be read as
          NONE         \* no offset measured so far

ASSUME DlSyncAssumption == /\ Q \in Nat \ {0} /\ P \in Nat /\ Q < P
                           /\ Offset \in Int /\ Suspended \in Nat
                           /\ MaxLatency \in Nat /\ MaxTime \in Nat
                           /\ Digits \subseteq Int
                           /\ NONE \notin Worker /\ NONE \notin Int

VARIABLES proc,              \* the source is /proc
          now,
          pc,                \* the step of a worker
          ts_next,           \* what it has read from the clock in dl_sync()
          refused,           \* the workers whose sched_setattr() has failed
          dl, rt,            \* deadline and budget of the reservation of a worker
          worked,            \* what it has run since it read the clock or woke up
          dl_sync_delta_ns, last, \* the offset all use, and the worker that wrote it
          own                \* history: it has read its own deadline

svars == <<proc, now, pc, ts_next, refused, dl, rt, worked, dl_sync_delta_ns, last, own>>

Steps == {"boot", "reserved", "stamped", "asleep", "woken", "synced", "exited"}
Awake == {"reserved", "stamped", "woken"}
rq_clock == now + Offset

SyncInit == /\ proc \in BOOLEAN /\ now = 0
            /\ pc = [w \in Worker |-> "boot"]
            /\ ts_next = [w \in Worker |-> 0]
            /\ refused = {}
            /\ dl = [w \in Worker |-> 0] /\ rt = [w \in Worker |-> 0]
            /\ worked = [w \in Worker |-> 0]
            /\ dl_sync_delta_ns = NONE /\ last = NONE /\ own = TRUE

-------------------------------------------------------------------------------
(* A worker *)

\* A worker is throttled when its budget is spent.
CanRun(w) == w \in refused \/ rt[w] > 0

Moves(w, from, to) == /\ pc[w] = from /\ CanRun(w)
                      /\ pc' = [pc EXCEPT ![w] = to]
                      /\ UNCHANGED <<proc, now, refused>>

Unmeasured == UNCHANGED <<dl_sync_delta_ns, last, own>>

\* What the buffer of the /proc source may hold besides the text of worker w,
\* once another worker may have filled it.
Misread(w) == IF proc /\ \E v \in Worker \ {w} : pc[v] # "boot"
              THEN {dl[v] : v \in Worker \ {w}} \cup Digits ELSE {}

\* The text of a refused worker has no deadline.
HasDeadline(w) == ~(proc /\ w \in refused)

\* sched_setattr() gives a full budget for a period from now, or fails; the
\* worker says so and goes on as an ordinary task, whose deadline is 0.
sched_set_deadline(w) ==
    /\ pc[w] = "boot" /\ pc' = [pc EXCEPT ![w] = "reserved"]
    /\ \/ /\ dl' = [dl EXCEPT ![w] = rq_clock + P] /\ rt' = [rt EXCEPT ![w] = Q]
          /\ UNCHANGED refused
       \/ refused' = refused \cup {w} /\ UNCHANGED <<dl, rt>>
    /\ UNCHANGED <<proc, now, ts_next, worked>> /\ Unmeasured

\* The overhead of the source has been measured, and dl_sync() begins.
ReadClock(w) == /\ Moves(w, "reserved", "stamped")
                /\ HasDeadline(w) \/ Misread(w) # {}
                /\ ts_next' = [ts_next EXCEPT ![w] = now]
                /\ worked' = [worked EXCEPT ![w] = 0]
                /\ UNCHANGED <<dl, rt>> /\ Unmeasured

\* Faulty: the worker sleeps for one period, as the comment says.
OnePeriod(w) == ts_next[w] + P

WakeupTime(w) == ts_next[w] + 2 * P

\* clock_nanosleep() returns at once when the time has passed.
Sleep(w) == /\ Moves(w, "stamped", IF now < WakeupTime(w) THEN "asleep" ELSE "woken")
            /\ UNCHANGED <<ts_next, dl, rt, worked>> /\ Unmeasured

\* The kernel keeps the deadline of a task that wakes up if it has not passed
\* and the budget left does not exceed the bandwidth up to it.
Fits(w) == /\ dl[w] >= rq_clock
           /\ rt[w] * P <= (dl[w] - rq_clock) * Q

Wake(w) == /\ Moves(w, "asleep", "woken") /\ now >= WakeupTime(w)
           /\ IF w \in refused \/ Fits(w) THEN UNCHANGED <<dl, rt>>
              ELSE /\ dl' = [dl EXCEPT ![w] = rq_clock + P]
                   /\ rt' = [rt EXCEPT ![w] = Q]
           /\ worked' = [worked EXCEPT ![w] = 0]
           /\ UNCHANGED ts_next /\ Unmeasured

DeadlineGuess(w) == WakeupTime(w) + P

\* The worker reads deadline_ns and leaves the difference to all of them.
Measures(w, deadline_ns, guess) == /\ Moves(w, "woken", "synced")
                                   /\ dl_sync_delta_ns' = deadline_ns - guess
                                   /\ last' = w
                                   /\ UNCHANGED <<ts_next, dl, rt, worked>>

\* Faulty: the time of the wakeup is not put off by a period.
SyncedWithWakeup(w) == HasDeadline(w) /\ Measures(w, dl[w], WakeupTime(w)) /\ own' = TRUE

Synced(w) == HasDeadline(w) /\ Measures(w, dl[w], DeadlineGuess(w)) /\ own' = TRUE

SyncedByAnother(w) == \E d \in Misread(w) : Measures(w, d, DeadlineGuess(w)) /\ own' = FALSE

\* A file that cannot be read, or a text in which nothing is found, ends the program.
ReadFails(w) == /\ proc /\ pc[w] \in {"reserved", "woken"} /\ CanRun(w)
                /\ pc' = [v \in Worker |-> "exited"]
                /\ UNCHANGED <<proc, now, refused, ts_next, dl, rt, worked>> /\ Unmeasured

WorkerStep(w) == \/ sched_set_deadline(w) \/ ReadClock(w)
                 \/ Sleep(w) \/ Wake(w) \/ Synced(w) \/ SyncedByAnother(w) \/ ReadFails(w)

-------------------------------------------------------------------------------
(* Time *)

Reserved == {w \in Worker \ refused : pc[w] \in Awake}

\* One unit passes, in which the workers of R run.  A worker that wants to run
\* gets its budget before its deadline, and then a new one.  What a worker does
\* between reading the clock and falling asleep, and between waking up and
\* reading the deadline, takes less than one budget.
Tick(R) ==
    LET left(w) == IF w \in R THEN rt[w] - 1 ELSE rt[w]
        replenished == {w \in Reserved : left(w) = 0 /\ dl[w] = rq_clock + 1}
    IN  /\ now < MaxTime /\ now' = now + 1
        /\ \A w \in R : rt[w] > 0 /\ (pc[w] # "reserved" => worked[w] + 1 < Q)
        /\ \A w \in Reserved : left(w) <= dl[w] - (rq_clock + 1)
        /\ \A w \in Worker : pc[w] = "asleep" => now < WakeupTime(w) + MaxLatency
        /\ dl' = [w \in Worker |-> IF w \in replenished THEN dl[w] + P ELSE dl[w]]
        /\ rt' = [w \in Worker |-> IF w \in replenished THEN Q ELSE left(w)]
        /\ worked' = [w \in Worker |-> IF w \in R /\ pc[w] # "reserved" THEN worked[w] + 1
                                               ELSE worked[w]]
        /\ UNCHANGED <<proc, pc, ts_next, refused>> /\ Unmeasured

SyncNext == \/ \E w \in Worker : WorkerStep(w)
            \/ \E R \in SUBSET Reserved : Tick(R)

SyncSpec == SyncInit /\ [][SyncNext]_svars

-------------------------------------------------------------------------------
(* The inductive invariant behind the theorems, in named parts *)

SyncTypeOK == /\ proc \in BOOLEAN /\ now \in Nat
              /\ pc \in [Worker -> Steps]
              /\ ts_next \in [Worker -> Nat]
              /\ refused \subseteq Worker
              /\ dl \in [Worker -> Int] /\ rt \in [Worker -> 0 .. Q]
              /\ worked \in [Worker -> 0 .. Q - 1]
              /\ dl_sync_delta_ns \in Int \cup {NONE} /\ last \in Worker \cup {NONE}
              /\ own \in BOOLEAN

\* The deadline of a worker on its own clock.
Dl(w) == dl[w] - Offset

\* While the worker is awake its reservation can still be honoured.  Its deadline
\* can be put off once between reading the clock and falling asleep, not twice:
\* so it has passed when the worker wakes up, and the worker gets a new one.
StepInv(w) ==
    /\ pc[w] \in Awake => /\ now < Dl(w) /\ Dl(w) <= now + P
                          /\ rt[w] <= Dl(w) - now
    /\ ts_next[w] <= now
    /\ pc[w] = "stamped" => \/ Dl(w) <= ts_next[w] + P
                            \/ Dl(w) <= ts_next[w] + 2 * P /\ rt[w] + worked[w] >= Q
    /\ pc[w] = "asleep" => /\ Dl(w) <= ts_next[w] + 2 * P /\ rt[w] > 0
                           /\ now <= ts_next[w] + 2 * P + MaxLatency
    /\ pc[w] = "woken" => /\ Dl(w) \in ts_next[w] + 3 * P .. ts_next[w] + 3 * P + MaxLatency
                          /\ rt[w] + worked[w] >= Q

SyncedInv == /\ ~proc => own
             /\ last # NONE /\ last \notin refused /\ own =>
                    dl_sync_delta_ns \in Offset .. Offset + MaxLatency

\* What the theorems of DlSyncProofs rest on.
SyncInv == SyncTypeOK /\ (\A w \in Worker \ refused : StepInv(w)) /\ SyncedInv

-------------------------------------------------------------------------------
(* Properties *)

deadline_to_monotonic(deadline_ns) == deadline_ns - dl_sync_delta_ns

\* The same deadline on CLOCK_MONOTONIC, with which a pop compares it.
Monotonic(deadline_ns) == deadline_ns - Offset - Suspended

\* Whichever worker was the last to measure, if the kernel has not refused it a
\* reservation and it has read its own deadline, which only the /proc source may
\* deny it: a pop of any worker believes its deadline earlier than it is by no
\* more than the latency of a timer, and later by the time the machine has been
\* suspended and no more.  The kernel must have given a new deadline at the
\* wakeup, although it gives none to a task that wakes up early in its period
\* and may have put the old one off meanwhile (dl_util.c:119-129, dl_util.h:50).
OffsetWithinLatency ==
    last # NONE /\ last \notin refused /\ (proc => own) =>
        \A w \in Worker \ refused :
            deadline_to_monotonic(dl[w]) - Monotonic(dl[w])
                \in Suspended - MaxLatency .. Suspended
===============================================================================
