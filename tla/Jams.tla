--------------------------------- MODULE Jams ---------------------------------
(***************************************************************************)
(* The running program: main() submits num_reqs jobs through the shared     *)
(* queue, num_child workers pull and process them, and main() then drains   *)
(* the queue, stops the workers and reports one outcome per job.            *)
(*                                                                         *)
(* Grain.  One step per access to what threads share without the mutex      *)
(* (exiting, q.size in the drain loop, jobs[].elapsed_us) and per iteration *)
(* of the deadline scan; a push is one step, because between its lock and   *)
(* unlock it touches nothing that is read without the mutex.                *)
(*                                                                         *)
(* Abstraction.  A job is its index plus one, so jobs compare as they were  *)
(* submitted.  Time appears as the set of jobs whose deadline has passed;   *)
(* whether a job that is not late passes the admission test depends on the  *)
(* budget left to the worker's reservation, and either answer is possible   *)
(* at any scan.  A response time is 1 microsecond or more: here it is 1.    *)
(***************************************************************************)
EXTENDS RtQueue, FiniteSets

CONSTANTS num_reqs,          \* jobs to submit
          Workers,           \* the worker threads, num_child of them
          MAX_NUM_REQS,      \* slots of the overhead logs
          pop_feasible_jobs, \* TRUE: pop by the deadline scan, FALSE: pop the oldest
          dismiss_point,     \* TRUE: dismiss_point_us > 0
          measure_overheads, \* TRUE: log every pop
          FifoDeadlines,     \* TRUE: deadlines pass in the order of submission
          AssertReloads      \* TRUE: a build whose assert reads elapsed_us back

Jobs == 1 .. num_reqs
dummy == 0                   \* &dummy, the job no client ever submits
num_child == Cardinality(Workers)
Nobody == "nobody"           \* the mutex is free

\* main() refuses other values of num_reqs and num_child (rtqueue.c:433, 442);
\* MAX_NUM_CHILD is 128, as MAX_SIZE is.
ASSUME JamsAssumption == /\ num_reqs \in Nat \ {0}
                         /\ MAX_NUM_REQS \in Nat /\ num_reqs < MAX_NUM_REQS
                         /\ IsFiniteSet(Workers)
                         /\ num_child > 0 /\ num_child < MAX_SIZE
                         /\ Nobody \notin Workers
                         /\ Elem = Jobs \cup {dummy}
                         /\ \A b \in {pop_feasible_jobs, dismiss_point,
                                      measure_overheads, FifoDeadlines,
                                      AssertReloads} : b \in BOOLEAN

VARIABLES mutex,     \* q.mtx: the worker holding it, or Nobody
          exiting,   \* the global flag, written without the mutex
          main,      \* where main() is
          j,         \* main()'s loop counter, plus one
          pushed,    \* what rtq_push() last returned to main()
          poisoned,  \* dummies pushed so far
          pc,        \* where each worker is
          held,      \* p_job of each worker
          scan_n,    \* loop index n of the scan under way
          nowLate,   \* jobs late at the now_ts of the scan under way
          late,      \* jobs whose deadline has passed
          elapsed,   \* jobs[].elapsed_us
          popNum,    \* pop_elapsed_num[]
          aborted,   \* an assert() has killed the process
          fate       \* history: what has really happened to each job

scanVars == <<scan_n, nowLate>>
vars == <<qvars, mutex, exiting, main, j, pushed, poisoned, pc, held, scanVars,
          late, elapsed, popNum, aborted, fate>>

Init == /\ rtq_init
        /\ mutex = Nobody /\ exiting = FALSE
        /\ main = "boot" /\ j = 1 /\ pushed = FALSE /\ poisoned = 0
        /\ pc = [w \in Workers |-> "boot"]
        /\ held = [w \in Workers |-> NULL]
        /\ scan_n = 0 /\ nowLate = {} /\ late = {}
        /\ elapsed = [i \in Jobs |-> 0]
        /\ popNum = [w \in Workers |-> 0]
        /\ aborted = FALSE
        /\ fate = [i \in Jobs |-> {}]

-------------------------------------------------------------------------------
(* Helpers *)

Goto(w, label) == pc' = [pc EXCEPT ![w] = label]
Befalls(i, what) == fate' = [fate EXCEPT ![i] = @ \cup {what}]

\* pthread_cond_broadcast(&pq->empty): every waiter goes for the mutex again.
Broadcast == pc' = [w \in Workers |-> IF pc[w] = "waiting" THEN "lock" ELSE pc[w]]

\* pthread_barrier_wait() of num_child + 1 threads lets go when all are there.
AllArrived == main # "boot" /\ \A w \in Workers : pc[w] # "boot"

-------------------------------------------------------------------------------
(* main() *)

MainOnly == UNCHANGED <<mutex, held, scanVars, late, popNum, aborted>>

MainArrive == /\ main = "boot" /\ main' = "barrier"
              /\ MainOnly
              /\ UNCHANGED <<qvars, exiting, j, pushed, poisoned, pc, elapsed, fate>>

MainLeave == /\ main = "barrier" /\ AllArrived /\ main' = "submit"
             /\ MainOnly
             /\ UNCHANGED <<qvars, exiting, j, pushed, poisoned, pc, elapsed, fate>>

\* Stamp job j and push it: the two outcomes of rtq_push().
SubmitAccepted == /\ main = "submit" /\ mutex = Nobody
                  /\ PushAccepted(j) /\ Broadcast
                  /\ main' = "mark" /\ pushed' = TRUE
                  /\ MainOnly
                  /\ UNCHANGED <<exiting, j, poisoned, elapsed, fate>>

SubmitRefused == /\ main = "submit" /\ mutex = Nobody
                 /\ PushRefused
                 /\ main' = "mark" /\ pushed' = FALSE
                 /\ Befalls(j, "refused")
                 /\ MainOnly
                 /\ UNCHANGED <<exiting, j, poisoned, pc, elapsed>>

\* Faulty: the outcome of the push is not looked at.
MarkIgnoringOutcome ==
    /\ main = "mark"
    /\ elapsed' = [elapsed EXCEPT ![j] = 0]
    /\ j' = j + 1
    /\ main' = IF j = num_reqs THEN "drain" ELSE "submit"
    /\ MainOnly
    /\ UNCHANGED <<qvars, exiting, pushed, poisoned, pc, fate>>

\* Only now is the outcome of the push written to the job, which a worker may
\* meanwhile have taken and finished.  Then main() sleeps until the next release.
Mark == /\ main = "mark"
        /\ elapsed' = [elapsed EXCEPT ![j] = IF pushed THEN 0 ELSE -1]
        /\ j' = j + 1
        /\ main' = IF j = num_reqs THEN "drain" ELSE "submit"
        /\ MainOnly
        /\ UNCHANGED <<qvars, exiting, pushed, poisoned, pc, fate>>

\* Faulty: the queue is polled, nobody is woken.
DrainSilently == main = "drain" /\ size > 0 /\ UNCHANGED vars

\* rtq_wait_until_empty(): q.size is read without the mutex.
Drain == /\ main = "drain" /\ size > 0 /\ Broadcast
         /\ MainOnly
         /\ UNCHANGED <<qvars, exiting, main, j, pushed, poisoned, elapsed, fate>>

\* Faulty: main() does not wait for the queue to be empty.
DrainedAtOnce ==
    /\ main = "drain" /\ main' = "stop"
    /\ MainOnly
    /\ UNCHANGED <<qvars, exiting, j, pushed, poisoned, pc, elapsed, fate>>

Drained == /\ main = "drain" /\ size = 0 /\ main' = "stop"
           /\ MainOnly
           /\ UNCHANGED <<qvars, exiting, j, pushed, poisoned, pc, elapsed, fate>>

Stop == /\ main = "stop" /\ exiting' = TRUE /\ main' = "poison"
        /\ MainOnly
        /\ UNCHANGED <<qvars, j, pushed, poisoned, pc, elapsed, fate>>

\* Faulty: the dummy is pushed and nobody is woken.
PoisonSilently ==
    /\ main = "poison" /\ mutex = Nobody
    /\ PushAccepted(dummy)
    /\ poisoned' = poisoned + 1
    /\ main' = IF poisoned + 1 = num_child THEN "join" ELSE "poison"
    /\ MainOnly
    /\ UNCHANGED <<exiting, j, pushed, pc, elapsed, fate>>

\* One dummy per worker; a push that is refused is retried.
PoisonAccepted == /\ main = "poison" /\ mutex = Nobody
                  /\ PushAccepted(dummy) /\ Broadcast
                  /\ poisoned' = poisoned + 1
                  /\ main' = IF poisoned + 1 = num_child THEN "join" ELSE "poison"
                  /\ MainOnly
                  /\ UNCHANGED <<exiting, j, pushed, elapsed, fate>>

PoisonRefused == /\ main = "poison" /\ mutex = Nobody
                 /\ PushRefused
                 /\ MainOnly
                 /\ UNCHANGED <<exiting, main, j, pushed, poisoned, pc, elapsed, fate>>

\* pthread_join() of every worker, then the report is printed.
Join == /\ main = "join" /\ main' = "report"
        /\ \A w \in Workers : pc[w] = "done"
        /\ MainOnly
        /\ UNCHANGED <<qvars, exiting, j, pushed, poisoned, pc, elapsed, fate>>

MainStep == \/ MainArrive \/ MainLeave
            \/ SubmitAccepted \/ SubmitRefused \/ Mark
            \/ Drain \/ Drained \/ Stop
            \/ PoisonAccepted \/ PoisonRefused \/ Join

-------------------------------------------------------------------------------
(* worker() *)

WorkerOnly == UNCHANGED <<main, j, pushed, poisoned, exiting, late>>

\* Affinity, reservation and clock offset are set up (module DlParams), then
\* the barrier keeps the worker until every thread has got there.
Boot(w) == /\ pc[w] = "boot" /\ Goto(w, "barrier")
           /\ WorkerOnly
           /\ UNCHANGED <<qvars, mutex, held, scanVars, elapsed, popNum, aborted, fate>>

Leave(w) == /\ pc[w] = "barrier" /\ AllArrived /\ Goto(w, "top")
            /\ WorkerOnly
            /\ UNCHANGED <<qvars, mutex, held, scanVars, elapsed, popNum, aborted, fate>>

\* The test of the worker's own loop.
Top(w) == /\ pc[w] = "top"
          /\ Goto(w, IF exiting THEN "done" ELSE "lock")
          /\ held' = [held EXCEPT ![w] = NULL]
          /\ WorkerOnly
          /\ UNCHANGED <<qvars, mutex, scanVars, elapsed, popNum, aborted, fate>>

\* rtq_pop() takes the mutex, on entry and when pthread_cond_wait() returns.
PopLock(w) == /\ pc[w] = "lock" /\ mutex = Nobody
              /\ mutex' = w /\ Goto(w, "test")
              /\ WorkerOnly
              /\ UNCHANGED <<qvars, held, scanVars, elapsed, popNum, aborted, fate>>

\* rtq_pop() returns p: the mutex is released, the pop is logged, and the
\* worker leaves its loop on a null pointer or on &dummy.
PopReturn(w, p) ==
    /\ mutex' = Nobody
    /\ held' = [held EXCEPT ![w] = p]
    /\ popNum' = IF measure_overheads THEN [popNum EXCEPT ![w] = @ + 1] ELSE popNum
    /\ Goto(w, IF p \in {NULL, dummy} THEN "done" ELSE "consume")
    /\ scan_n' = 0 /\ nowLate' = {}

\* Faulty: exiting is not tested again once the mutex is held.
PopTestBlind(w) ==
    /\ pc[w] = "test" /\ Goto(w, "look")
    /\ WorkerOnly
    /\ UNCHANGED <<qvars, mutex, held, popNum, scanVars, elapsed, aborted, fate>>

\* while (!exiting): exiting is read with the mutex held but written without it.
PopTest(w) == /\ pc[w] = "test"
              /\ IF exiting THEN PopReturn(w, NULL)
                            ELSE /\ Goto(w, "look")
                                 /\ UNCHANGED <<mutex, held, popNum, scanVars>>
              /\ WorkerOnly
              /\ UNCHANGED <<qvars, elapsed, aborted, fate>>

PopOldest(w) == /\ pc[w] = "look" /\ ~pop_feasible_jobs
                /\ rtq_pop_nosync
                /\ PopReturn(w, rtq_peekn_nosync(0))
                /\ WorkerOnly
                /\ UNCHANGED <<elapsed, aborted, fate>>

\* Faulty: the worker goes to sleep with the mutex.
WaitLocked(w) ==
    /\ \/ pc[w] = "look" /\ size = 0
       \/ pc[w] = "scan" /\ scan_n >= size
    /\ Goto(w, "waiting")
    /\ scan_n' = 0 /\ nowLate' = {}
    /\ WorkerOnly
    /\ UNCHANGED <<qvars, mutex, held, elapsed, popNum, aborted, fate>>

\* Faulty: every look at an empty queue is logged, not every pop.
WaitLogged(w) ==
    /\ \/ pc[w] = "look" /\ size = 0
       \/ pc[w] = "scan" /\ scan_n >= size
    /\ mutex' = Nobody /\ Goto(w, "waiting")
    /\ popNum' = [popNum EXCEPT ![w] = @ + 1]
    /\ scan_n' = 0 /\ nowLate' = {}
    /\ WorkerOnly
    /\ UNCHANGED <<qvars, held, elapsed, aborted, fate>>

\* pthread_cond_wait() releases the mutex and blocks in one step.
Wait(w) == /\ \/ pc[w] = "look" /\ size = 0
              \/ pc[w] = "scan" /\ scan_n >= size
           /\ mutex' = Nobody /\ Goto(w, "waiting")
           /\ scan_n' = 0 /\ nowLate' = {}
           /\ WorkerOnly
           /\ UNCHANGED <<qvars, held, elapsed, popNum, aborted, fate>>

\* POSIX lets a wait end with no broadcast.
SpuriousWakeup(w) ==
    /\ pc[w] = "waiting" /\ Goto(w, "lock")
    /\ WorkerOnly
    /\ UNCHANGED <<qvars, mutex, held, scanVars, elapsed, popNum, aborted, fate>>

(* rtq_pop_dl_nosync(): the deadline scan, one step per loop iteration *)

\* The element under the scan, and whether its deadline lies before now_ts;
\* the dummy's deadline is time 0.
Scanned == rtq_peekn_nosync(scan_n)
ScannedIsLate == Scanned \in nowLate \cup {dummy}

\* now_ts is read once, before the loop.
ScanStart(w) == /\ pc[w] = "look" /\ pop_feasible_jobs /\ size > 0
                /\ Goto(w, "scan")
                /\ scan_n' = 0 /\ nowLate' = late
                /\ WorkerOnly
                /\ UNCHANGED <<qvars, mutex, held, elapsed, popNum, aborted, fate>>

\* Faulty: "n--" is missing, so the job after a dropped one is not looked at.
ScanDropSkips(w) ==
    /\ pc[w] = "scan" /\ scan_n < size /\ ScannedIsLate
    /\ rtq_popn_nosync(scan_n)
    /\ IF Scanned \in Jobs THEN Befalls(Scanned, "dropped") ELSE UNCHANGED fate
    /\ scan_n' = scan_n + 1
    /\ WorkerOnly
    /\ UNCHANGED <<mutex, pc, held, nowLate, elapsed, popNum, aborted>>

\* A late job is dropped; "n--" and the loop's "n++" leave n where it is.
ScanDrop(w) == /\ pc[w] = "scan" /\ scan_n < size /\ ScannedIsLate
               /\ rtq_popn_nosync(scan_n)
               /\ IF Scanned \in Jobs THEN Befalls(Scanned, "dropped") ELSE UNCHANGED fate
               /\ WorkerOnly
               /\ UNCHANGED <<mutex, pc, held, scanVars, elapsed, popNum, aborted>>

\* The job passes the admission test: the worker gets it.
ScanTake(w) == /\ pc[w] = "scan" /\ scan_n < size /\ ~ScannedIsLate
               /\ rtq_popn_nosync(scan_n)
               /\ PopReturn(w, Scanned)
               /\ WorkerOnly
               /\ UNCHANGED <<elapsed, aborted, fate>>

\* It does not pass: it is left in the queue for another scan.
ScanLeave(w) == /\ pc[w] = "scan" /\ scan_n < size /\ ~ScannedIsLate
                /\ scan_n' = scan_n + 1
                /\ WorkerOnly
                /\ UNCHANGED <<qvars, mutex, pc, held, nowLate, elapsed, popNum, aborted, fate>>

(* Processing a job *)

\* consume_us() returns true: C_us of processor time have been spent.
Finish(w) == /\ pc[w] = "consume" /\ Goto(w, "record")
             /\ Befalls(held[w], "finished")
             /\ WorkerOnly
             /\ UNCHANGED <<qvars, mutex, held, scanVars, elapsed, popNum, aborted>>

\* consume_us() returns false: the response time has passed dismiss_point_us.
Dismiss(w) == /\ pc[w] = "consume" /\ dismiss_point /\ Goto(w, "top")
              /\ Befalls(held[w], "dismissed")
              /\ elapsed' = [elapsed EXCEPT ![held[w]] = 0]
              /\ WorkerOnly
              /\ UNCHANGED <<qvars, mutex, held, scanVars, popNum, aborted>>

Record(w) == /\ pc[w] = "record" /\ Goto(w, "assert")
             /\ elapsed' = [elapsed EXCEPT ![held[w]] = 1]
             /\ WorkerOnly
             /\ UNCHANGED <<qvars, mutex, held, scanVars, popNum, aborted, fate>>

\* assert(p_job->elapsed_us >= p_job->C_us - 1), for a job with C_us > 1.  -O3
\* may keep the value just stored in a register, -O0 loads it from the job again.
CheckAssertion(w) ==
    /\ pc[w] = "assert"
    /\ IF AssertReloads /\ elapsed[held[w]] <= 0
       THEN aborted' = TRUE /\ UNCHANGED pc
       ELSE Goto(w, "top") /\ UNCHANGED aborted
    /\ WorkerOnly
    /\ UNCHANGED <<qvars, mutex, held, scanVars, elapsed, popNum, fate>>

\* What a worker does of its own accord, as opposed to a spurious wakeup.
WorkerStep(w) == \/ Boot(w) \/ Leave(w) \/ Top(w)
                 \/ PopLock(w) \/ PopTest(w) \/ PopOldest(w) \/ Wait(w)
                 \/ ScanStart(w) \/ ScanDrop(w) \/ ScanTake(w) \/ ScanLeave(w)
                 \/ Finish(w) \/ Dismiss(w) \/ Record(w) \/ CheckAssertion(w)

-------------------------------------------------------------------------------
\* Time passes the deadline of a submitted job.  Only the scan looks at it.
Expire(i) == /\ pop_feasible_jobs
             /\ i < j \/ (i = j /\ main = "mark")
             /\ i \notin late
             /\ FifoDeadlines => 1 .. i - 1 \subseteq late
             /\ late' = late \cup {i}
             /\ UNCHANGED <<qvars, mutex, exiting, main, j, pushed, poisoned, pc,
                            held, scanVars, elapsed, popNum, aborted, fate>>

\* The process is gone: it has reported, or an assertion has killed it.
Terminated == (main = "report" \/ aborted) /\ UNCHANGED vars

Next == \/ ~aborted /\ MainStep
        \/ ~aborted /\ \E w \in Workers : WorkerStep(w) \/ SpuriousWakeup(w)
        \/ ~aborted /\ \E i \in Jobs : Expire(i)
        \/ Terminated

Spec == Init /\ [][Next]_vars

\* Every thread that can go on does.  A push waits for a mutex that idle workers
\* may take and release again for ever on spurious wakeups, so it needs more: a
\* thread that finds the mutex free again and again gets it at last, and rand()
\* does not refuse for ever.  Deadlines pass.  No wakeup is assumed to be spurious.
Fairness == /\ WF_vars(~aborted /\ MainStep)
            /\ SF_vars(~aborted /\ (SubmitAccepted \/ SubmitRefused))
            /\ SF_vars(~aborted /\ PoisonAccepted)
            /\ \A w \in Workers : WF_vars(~aborted /\ WorkerStep(w))
            /\ \A i \in Jobs : WF_vars(~aborted /\ Expire(i))

FairSpec == Spec /\ Fairness

-------------------------------------------------------------------------------
(* Properties *)

TypeOK == /\ QTypeOK
          /\ mutex \in Workers \cup {Nobody}
          /\ exiting \in BOOLEAN
          /\ main \in {"boot", "barrier", "submit", "mark", "drain", "stop",
                       "poison", "join", "report"}
          /\ j \in 1 .. num_reqs + 1
          /\ pushed \in BOOLEAN
          /\ poisoned \in 0 .. num_child
          /\ pc \in [Workers -> {"boot", "barrier", "top", "lock", "test", "look",
                                 "scan", "waiting", "consume", "record", "assert",
                                 "done"}]
          /\ held \in [Workers -> Elem \cup {NULL}]
          /\ scan_n \in 0 .. MAX_SIZE
          /\ nowLate \subseteq Jobs /\ late \subseteq Jobs
          /\ elapsed \in [Jobs -> -1 .. 1]
          /\ popNum \in [Workers -> Nat]
          /\ aborted \in BOOLEAN
          /\ fate \in [Jobs -> SUBSET {"refused", "dropped", "dismissed", "finished"}]

\* A job is with a worker until its outcome is recorded.
Processing(w) == IF pc[w] \in {"consume", "record", "assert"} THEN {held[w]} ELSE {}

\* Main sets exiting without the mutex, so a worker can test it, find it unset
\* and go to sleep afterwards.  Yet once the first dummy is in the queue no
\* worker sleeps or is on its way to: main() joins them all (rtqueue.c:310-322, 616-626).
NoStrandedWorker ==
    poisoned > 0 => \A w \in Workers : pc[w] \notin {"look", "scan", "waiting"}

\* No worker ever gets a dummy: a worker that could reach one sees exiting first
\* (rtqueue.c:310, 621).  Comments say otherwise: "cause exit of worker threads as
\* they pop &dummy out of q" (rtqueue.c:618), "A dummy job used to cause workers to
\* exit" (rtqueue.c:61).  It is the flag that ends them; of a dummy only the
\* broadcast of its push counts.
DummyNeverPopped == \A w \in Workers : held[w] # dummy

\* The assertion at rtqueue.c:383: a worker that logs every pop, the last one
\* that returns a null pointer included, stays inside its log.
PopLogFits == \A w \in Workers : popNum[w] <= MAX_NUM_REQS

\* What the report says of a job is never better than what happened to it: -1
\* stands for the refused ones exactly, a response time for a job some worker
\* has finished, and no response time is lost from a job refused (rtqueue.c:591-594, 632).
ReportTruth ==
    main = "report" =>
        \A i \in Jobs : /\ elapsed[i] = -1 <=> fate[i] = {"refused"}
                        /\ elapsed[i] = 1 => "finished" \in fate[i]

\* Popping the oldest job only, no job is in two hands: it waits in one slot of
\* the ring or one worker has it, and a job that has met its fate is in neither
\* place.  So no job is processed twice (rtqueue.c:141-149, 378-408).
OneOwner ==
    \A i \in Jobs :
        /\ \A m, n \in 0 .. size - 1 : elems[Slot(m)] = i /\ elems[Slot(n)] = i => m = n
        /\ \A v, w \in Workers : i \in Processing(v) \cap Processing(w) => v = w
        /\ \A w \in Workers : i \in Processing(w) =>
               i \notin Queued /\ (fate[i] = {} <=> pc[w] = "consume")
        /\ i \in Queued => fate[i] = {}

\* Popping the oldest job only, the program ends with nothing left to do: every
\* job has been refused, dismissed or finished, although main() reads q.size
\* without the mutex and stops the workers while jobs are in their hands
\* (rtqueue.c:331, 373, 616).
NoneForgotten ==
    main = "report" => /\ \A i \in Jobs : Cardinality(fate[i]) = 1
                       /\ Queued \subseteq {dummy}

(* The inductive invariant behind the safety theorems, in named parts *)

\* Where main() is decides what it has done so far.
MainInv ==
    /\ exiting <=> main \in {"poison", "join", "report"}
    /\ poisoned > 0 => exiting
    /\ main = "poison" => poisoned < num_child
    /\ main \in {"join", "report"} => poisoned = num_child
    /\ main \in {"boot", "barrier", "submit", "mark"} <=> j \in Jobs

\* The holder of the mutex is the one worker inside rtq_pop() and not asleep.
LockInv == \A w \in Workers : mutex = w <=> pc[w] \in {"test", "look", "scan"}

\* A worker has a job in hand or nothing, and no dummy is queued that it could get.
HeldInv == /\ \A w \in Workers : /\ held[w] \in Jobs \cup {NULL}
                                 /\ Processing(w) \subseteq Jobs
           /\ poisoned = 0 => dummy \notin Queued

\* A job that has not been pushed, or was refused, is nowhere in the system.
Absent(i) == i \notin Queued /\ \A w \in Workers : i \notin Processing(w)

JobInv(i) ==
    /\ i > j \/ (i = j /\ main # "mark") => Absent(i) /\ fate[i] = {} /\ elapsed[i] = 0
    /\ "refused" \in fate[i] => Absent(i) /\ fate[i] = {"refused"}
    /\ main = "mark" /\ i = j => (pushed <=> "refused" \notin fate[i])
    /\ elapsed[i] = -1 => i < j /\ "refused" \in fate[i]
    /\ "refused" \in fate[i] /\ i < j => elapsed[i] = -1
    /\ elapsed[i] = 1 => "finished" \in fate[i]

RecordInv == \A w \in Workers : pc[w] = "record" => "finished" \in fate[held[w]]

\* Pops that returned a job are no more than the pushes before the dummies.
PopInv == \A w \in Workers :
              popNum[w] + (IF poisoned = 0 THEN size ELSE 0)
                  <= (IF main = "mark" THEN j ELSE j - 1) + (IF pc[w] = "done" THEN 1 ELSE 0)

\* Together with the shape of the ring and the wakeup of sleeping workers these
\* facts survive every step: what the theorems of JamsProofs rest on.
IInv == /\ TypeOK /\ RingShape /\ NoStrandedWorker
        /\ MainInv /\ LockInv /\ HeldInv /\ PopInv /\ RecordInv
        /\ \A i \in Jobs : JobInv(i)

\* A scan that sends the worker to sleep leaves in the queue no job that was
\* late when the scan began, when deadlines pass in the order of submission:
\* dropping a job under the index must not make the scan skip the next one (rtqueue.c:201-206).
ScanPurgesLate ==
    [][\A w \in Workers : pc[w] = "scan" /\ pc'[w] = "waiting"
                             => Queued \cap nowLate = {}]_vars

\* Every run ends with a report, or in a failed assertion: workers finish or
\* dismiss what they hold, late jobs are dropped although no push wakes the
\* workers any more, and no thread waits for ever (rtqueue.c:330-336, 616-626).
Termination == <>(main = "report" \/ aborted)

-------------------------------------------------------------------------------
(* What comments say of the program, and the program does not do *)

\* "if not processed, the job remains on the queue" (rtqueue.c:253): a queued
\* job leaves the queue only to a worker or because it is late.
LeftJobsStay ==
    [][\A i \in (Queued \cap Jobs) \ Queued' :
           "dropped" \in fate'[i] \/ \E w \in Workers : held'[w] = i]_vars

\* elapsed_us = 0 stands for a job "counted as dismissed" (rtqueue.c:391).
DismissedMeansUnfinished ==
    main = "report" =>
        \A i \in Jobs : elapsed[i] = 0 => "finished" \notin fate[i]
===============================================================================
