-------------------------------- MODULE Consume --------------------------------
(***************************************************************************)
(* The processing of one job by a worker: consume_us() burns C_us of         *)
(* processor time or gives up at the dismiss point, and the response time of *)
(* a finished job is recorded and asserted.  The clocks go on between any    *)
(* two readings; the worker's processor time never runs ahead of the wall    *)
(* clock.                                                                    *)
(***************************************************************************)
EXTENDS Timespec

CONSTANTS CompTimes,         \* computation times of jobs, in microseconds
          dismiss_point_us,  \* 0: jobs are never dismissed
          UINT_RANGE,        \* values of an unsigned int
          MaxTick, MaxWall   \* bounds: nanoseconds per tick and in all

ASSUME ConsumeAssumption == /\ CompTimes \subseteq 0 .. UINT_RANGE - 1
                            /\ UINT_RANGE \in Nat \ {0}
                            /\ dismiss_point_us \in Nat
                            /\ MaxTick \in Nat /\ MaxWall \in Nat

VARIABLES wall,        \* CLOCK_MONOTONIC, in nanoseconds
          cpu,         \* CLOCK_THREAD_CPUTIME_ID of the worker, in nanoseconds
          at,          \* where the worker is
          C_us, sent,  \* of the job: computation time, time of submission
          beg,         \* cpu when consume_us() was entered
          resp_us,     \* curr_resp_time_us
          elapsed_us   \* jobs[].elapsed_us

cvars == <<wall, cpu, at, C_us, sent, beg, resp_us, elapsed_us>>

ConsumeInit == /\ wall \in 0 .. NSEC_PER_SEC - 1 /\ sent = wall
               /\ cpu \in 0 .. NSEC_PER_SEC - 1 /\ beg = cpu
               /\ C_us \in CompTimes
               /\ at = "queued" /\ resp_us = 0 /\ elapsed_us = 0

\* A microsecond difference of two clock readings.
Between(later, earlier) == ts_sub_us(Stamp(later), Stamp(earlier))

\* Time goes on; the worker runs for part of it.
Tick == /\ at \in {"queued", "wall", "cpu", "end"}
        /\ \E dw \in 1 .. MaxTick, dc \in 0 .. MaxTick :
               /\ dc <= dw /\ wall + dw <= MaxWall
               /\ wall' = wall + dw /\ cpu' = cpu + dc
        /\ UNCHANGED <<at, C_us, sent, beg, resp_us, elapsed_us>>

Begin == /\ at = "queued" /\ at' = "wall"
         /\ beg' = cpu
         /\ UNCHANGED <<wall, cpu, C_us, sent, resp_us, elapsed_us>>

ReadWall == /\ at = "wall" /\ at' = "cpu"
            /\ resp_us' = Between(wall, sent)
            /\ UNCHANGED <<wall, cpu, C_us, sent, beg, elapsed_us>>

\* Faulty: the loop goes on while the response time is below the dismiss point.
ReadCpuEager ==
    /\ at = "cpu"
    /\ at' = IF Between(cpu, beg) >= C_us THEN "end"
             ELSE IF dismiss_point_us = 0 \/ resp_us < dismiss_point_us THEN "wall"
             ELSE "dismissed"
    /\ UNCHANGED <<wall, cpu, C_us, sent, beg, resp_us, elapsed_us>>

\* Faulty: the job is done one microsecond early.
ReadCpuShort ==
    /\ at = "cpu"
    /\ at' = IF Between(cpu, beg) >= C_us - 1 THEN "end"
             ELSE IF dismiss_point_us = 0 \/ resp_us <= dismiss_point_us THEN "wall"
             ELSE "dismissed"
    /\ UNCHANGED <<wall, cpu, C_us, sent, beg, resp_us, elapsed_us>>

\* The second reading, the test of the loop and what consume_us() returns.
ReadCpu == /\ at = "cpu"
           /\ at' = IF Between(cpu, beg) >= C_us THEN "end"
                    ELSE IF dismiss_point_us = 0 \/ resp_us <= dismiss_point_us THEN "wall"
                    ELSE "dismissed"
           /\ UNCHANGED <<wall, cpu, C_us, sent, beg, resp_us, elapsed_us>>

ReadEnd == /\ at = "end" /\ at' = "assert"
           /\ elapsed_us' = Between(wall, sent)
           /\ UNCHANGED <<wall, cpu, C_us, sent, beg, resp_us>>

\* Faulty: no microsecond is tolerated.
CheckExactly == /\ at = "assert"
                /\ at' = IF elapsed_us >= C_us THEN "finished" ELSE "aborted"
                /\ UNCHANGED <<wall, cpu, C_us, sent, beg, resp_us, elapsed_us>>

\* assert(p_job->elapsed_us >= p_job->C_us - 1): C_us is an unsigned int, and so
\* is C_us - 1.
CheckElapsed == /\ at = "assert"
                /\ at' = IF elapsed_us >= (C_us - 1) % UINT_RANGE THEN "finished"
                                                                 ELSE "aborted"
                /\ UNCHANGED <<wall, cpu, C_us, sent, beg, resp_us, elapsed_us>>

ConsumeNext == Tick \/ Begin \/ ReadWall \/ ReadCpu \/ ReadEnd \/ CheckElapsed

ConsumeSpec == ConsumeInit /\ [][ConsumeNext]_cvars

-------------------------------------------------------------------------------
ConsumeTypeOK ==
    /\ wall \in Nat /\ cpu \in Nat /\ sent \in Nat /\ beg \in Nat
    /\ at \in {"queued", "wall", "cpu", "end", "assert",
               "finished", "dismissed", "aborted"}
    /\ C_us \in CompTimes /\ resp_us \in Nat /\ elapsed_us \in Nat

\* "tolerate 1us lost" (rtqueue.c:407): the readings of two clocks, each with the
\* microseconds cut off in its own way, never differ by more than the assertion
\* of the response time allows.  A job of zero microseconds, which rtqueue.c:582
\* lets pass, is the one it kills though nothing was lost: C_us - 1 wraps round.
ToleranceSuffices == at = "aborted" => C_us = 0

\* A job is given up only when its response time really has passed the dismiss
\* point, whatever the rounding of the reading (rtqueue.c:272, 276).
DismissedIsLate == at = "dismissed" => wall - sent > dismiss_point_us * NSEC_PER_USEC

\* A finished job has had all of its computation time but less than one
\* microsecond (rtqueue.c:275-277).
FinishedHasRun ==
    at \in {"end", "assert", "finished"} =>
        cpu - beg > (C_us - 1) * NSEC_PER_USEC

\* A reported response time is off by less than a microsecond (rtqueue.c:406).
ReportedToTheMicrosecond ==
    at = "finished" => LET off == elapsed_us * NSEC_PER_USEC - (wall - sent)
                       IN  off \in 1 - NSEC_PER_USEC .. NSEC_PER_USEC - 1
===============================================================================
