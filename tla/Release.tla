-------------------------------- MODULE Release --------------------------------
(***************************************************************************)
(* The release of jobs by main(): ts_next starts at the time the submission  *)
(* begins, each job adds a sampled period to it, and main() sleeps until     *)
(* then on the monotonic clock.  Sampling and clock arithmetic are those of  *)
(* Distrib and Timespec.                                                     *)
(***************************************************************************)
EXTENDS Timespec, Distrib

CONSTANTS MaxJobs,     \* bound: jobs released
          MaxRetries   \* bound: retries counted

ASSUME ReleaseAssumption == MaxJobs \in Nat /\ MaxRetries \in Nat

VARIABLES start,       \* nanoseconds on the clock when ts_next was first read
          ts_next,     \* the next release
          elapsedPeriods, \* history: sum of the sampled periods, in parts of a microsecond
          cut,         \* history: periods that were no whole microseconds
          retries,     \* history: passes of the sampler in vain since the last release
          jobs,        \* jobs released
          exited       \* check() has ended the program

rvars == <<pd, start, ts_next, elapsedPeriods, cut, retries, jobs, exited>>

ReleaseInit == /\ pd \in pd_parse_internal
               /\ start \in 0 .. NSEC_PER_SEC - 1
               /\ ts_next = Stamp(start)
               /\ elapsedPeriods = 0 /\ cut = 0
               /\ retries = 0 /\ jobs = 0 /\ exited = FALSE

\* What clock_nanosleep() accepts; it returns EINVAL for the rest.
Sleepable(ts) == ts.tv_nsec \in 0 .. NSEC_PER_SEC - 1

\* "goto retry" in pd_sample().
Retry == /\ ~exited /\ jobs < MaxJobs /\ Sampleable
         /\ \E v \in Drawable : ~InBounds(v)
         /\ pd' = NextSpec
         /\ retries' = IF retries < MaxRetries THEN retries + 1 ELSE retries
         /\ UNCHANGED <<start, ts_next, elapsedPeriods, cut, jobs, exited>>

\* check(fabs(k - avg/scale) < 0.00001, ...) in distr_gamma().
SamplerExits == /\ ~exited /\ jobs < MaxJobs /\ ~Sampleable
                /\ exited' = TRUE
                /\ UNCHANGED <<pd, start, ts_next, elapsedPeriods, cut, retries, jobs>>

\* The end of a pass of the submission loop: sample, add, sleep.  The sample is
\* passed as a long: whole microseconds, cut towards zero.
ReleaseJob == /\ ~exited /\ jobs < MaxJobs /\ Sampleable
              /\ \E period \in Drawable :
                     /\ InBounds(period)
                     /\ ts_next' = ts_add_us(ts_next, Trunc(period, FRAC))
                     /\ elapsedPeriods' = elapsedPeriods + period
                     /\ cut' = cut + IF period % FRAC = 0 THEN 0 ELSE 1
              /\ pd' = NextSpec
              /\ exited' = ~Sleepable(ts_next')
              /\ jobs' = jobs + 1 /\ retries' = 0
              /\ UNCHANGED start

ReleaseNext == Retry \/ ReleaseJob \/ SamplerExits

ReleaseSpec == ReleaseInit /\ [][ReleaseNext]_rvars

\* main() goes on, and a random generator that can draw a value in range draws
\* one at last.
FairRelease == ReleaseSpec /\ WF_rvars(ReleaseNext) /\ SF_rvars(ReleaseJob)

-------------------------------------------------------------------------------
\* Types.  The program goes on only with a time that it could sleep until: a
\* negative period can leave a negative tv_nsec, which is not normalised.
ReleaseTypeOK == /\ pd.val \in Int \cup {NAN}
                 /\ pd.cur_sample = 0 \/ pd.cur_sample \in 1 .. Len(pd.samples) - 1
                 /\ ts_next.tv_sec \in Nat
                 /\ ts_next.tv_nsec \in Int /\ ts_next.tv_nsec <= NSEC_PER_SEC
                 /\ exited \/ Sleepable(ts_next)
                 /\ start \in Nat /\ elapsedPeriods \in Int
                 /\ retries \in 0 .. MaxRetries /\ jobs \in 0 .. MaxJobs
                 /\ cut \in 0 .. jobs
                 /\ exited \in BOOLEAN

\* Each period is cut to whole microseconds when it becomes a long, and what is cut
\* off is not made up for: releases drift from the sum of the sampled periods, by
\* less than a microsecond for every period that was not whole and by nothing else.
\* The carry from nanoseconds to seconds adds nothing to it (ts.h:6-12, rtqueue.c:606).
DriftIsBounded ==
    Abs((ts_to_ns(ts_next) - start) * FRAC - elapsedPeriods * NSEC_PER_USEC)
        <= cut * (FRAC - 1) * NSEC_PER_USEC

\* The distribution can be sampled, and some value it produces is in its own range.
Satisfiable == CASE pd.prob \in {"FIXED", "UNIF"} -> TRUE
                 [] pd.prob \in Ramps -> ~Less(pd.max, pd.min)
                 [] pd.prob \in Random -> Sampleable /\ \E v \in Draws : InBounds(v)
                 [] pd.prob = "SFILE" -> \E i \in DOMAIN pd.samples : InBounds(pd.samples[i])

\* A ramp that starts out of its range is in it one pass later and stays there,
\* and a trace is not gone through twice in search of a value: no accepted
\* distribution with a non-empty range makes main() loop in pd_sample()
\* (distrib.c:305-331).
BoundedRetries ==
    Satisfiable => /\ pd.prob \in Ramps => retries <= 1
                   /\ pd.prob = "SFILE" => retries < Len(pd.samples)

\* With every accepted distribution that can be sampled and has a value in its range,
\* the random kinds included, every job is released in the end, unless a sleep fails.
\* A GAMMA whose shape is not whole is accepted too, and ends the program at its first
\* sample (distrib.c:42, 255, 276-333, rtqueue.c:580-608).
EveryJobReleased == Satisfiable => <>(jobs = MaxJobs \/ exited)

\* check(clock_nanosleep(...) == 0), rtqueue.c:607: every release time is one
\* that clock_nanosleep() accepts, so only the sampler can end the program.
SleepNeverFails == exited => ~Sampleable
===============================================================================
