# A verification project for JAMS

JAMS (`src/rtqueue.c` and the files it includes) is a real-time job server: one
main thread releases jobs at sampled times and pushes them into a bounded shared
queue, and a pool of worker threads, each inside its own `SCHED_DEADLINE`
reservation, pulls jobs out of it, decides from its remaining budget whether a
job can still make its deadline, burns the job's computation time, and records a
response time. At the end main() reports one line per job: a response time, 0
for a job that was dismissed, or -1 for a job the queue refused.

This directory holds TLA+ modules translated from the source, TLC configurations
that check them on small instances, and proofs that TLAPS checks for every value
of the constants. `PROJECT.json` ties definitions to source lines, properties to
the hazards they are for, and every checked property to a faulty variant of the
code that breaks it. Definitions marked "Faulty" in the modules are these
variants; no specification uses them.

## Inventory

| Component | Source | State | Operations |
|---|---|---|---|
| Queue | `rtqueue.c:17-37, 85-161` | `elems[]`, `head`, `tail`, `size`, mutex, one condition variable in use | init, push (accepted, full, dismissed at random), peek at the n-th, pop the oldest, pop the n-th |
| Program | `rtqueue.c:295-643` | the settings; `exiting`, `jobs[]`, `dummy`, barrier, pop log, a program counter per thread | main: options, their checks, release, push, mark the outcome, drain, stop, poison, join, report; worker: pop or scan, process, dismiss, record |
| Admission | `rtqueue.c:163-261` | none of its own; budget and deadline of the reservation, the percentile | drop late jobs, deterministic test with or without fine tuning, probabilistic test, `budget_to_deadline` |
| Processing | `rtqueue.c:264-278, 404-407` | two clocks, `elapsed_us` | burn processor time, dismiss at the dismiss point, record, assert |
| Time arithmetic | `ts.h` | none | add microseconds, subtract, convert |
| Release and distributions | `distrib.c`, `rtqueue.c:577-608` | `ts_next`, one `pd_spec_t` per parameter | parse, default, check, sample (with retries), add, sleep |
| Estimator | `estim.c`, `rtqueue.c:396-402` | five markers and heights per worker, one `comp_time_perc_us` for all | init, add a sample, read the quantile |
| Reservation parameters | `dl_util.c` | source, descriptor, a static buffer, `dl_sync_delta_ns` | choose a source with fallback, read, synchronise clocks, close |
| Kernel module | `kmod/dlparams.c` | a character device, a class, its reference count | register (with two error paths), open, read, release, remove |
| Histogram tool | `bins.c` | bins, the length of the run under way | count a value, end a run |
| Tools, tests, experiments, data | `hog.c`, `clock.c`, `test_*.c`, scripts, `mpc_run`, traces | - | - |

How they interact. main() and the workers share the queue under its mutex, but
three things are touched outside of it: `exiting` (main writes, workers test it
in and out of the mutex), `q.size` (main reads it while draining), and
`jobs[j].elapsed_us` (main writes the outcome of a push after the push, a worker
writes the response time). Workers wait on one condition variable; every push
broadcasts, and so does the polling of `rtq_wait_until_empty()`. A barrier of
`num_child + 1` threads separates the start, where workers enter their
reservations and read their parameters with no lock, from the run, where they
read them under the mutex. Each worker has an
estimator of its own, and all of them write the one `comp_time_perc_us` that the
admission test of every worker reads. Each worker also measures the offset of the
clocks before the barrier, and the last one leaves its result to all. Where the
kernel module answers, main() opens its device and the workers read it, while an
administrator may remove it. The report is the input of the histogram tool.

Hard behaviours. The shutdown (a flag set without the mutex, dummies that may be
refused, workers that may be asleep); the unsynchronised outcome of a push; the
scan that removes elements under its own index; liveness of jobs that the scan
leaves behind after the last push; carries, roundings and retries at their
edges; a budget pieced together from periods; a buffer shared by all workers; an
offset measured from what the kernel is expected to do at a wakeup; a module that
is removed while its device is being opened; options in any order and repeated.
`PROJECT.json` lists each at its line.

What makes each component correct:

* queue: it is a bounded FIFO queue; a pop from the middle leaves the others in order;
* program: the scan runs only with settings its formulas can work with, no worker sleeps through the shutdown, no job is lost, processed
  twice or reported as something it was not, and every run ends;
* admission: a job that is taken can have its percentile (or worst case) executed by its deadline;
* processing: the reported time and the assertion are right to the microsecond;
* release: the release times drift from the sums of the periods by what is cut off
  each and no more, each is one the kernel accepts, and sampling ends;
* estimator: markers stay apart and ordered, the estimate in use lies among the samples of its writer;
* parameters: a pop decides on the worker's own numbers, from a source that is
  open, with an offset that is settled and right;
* kernel module: a device that is open keeps the module, and what was registered goes with it;
* histogram: runs are counted, each in its bin.

## Modules

| Module | Models | Checked by | Proved in |
|---|---|---|---|
| `RtQueue`, `MCRtQueue` | the ring buffer of `rtqueue.c`; one action per outcome of push and pop; `PopnLoop` is the copying loop of `rtq_popn_nosync()` iteration by iteration | `RtQueue` | `RtQueueProofs` |
| `JobQueue` | the abstract bounded FIFO queue | as `FifoQueue` in `JamsPlain` | `RtQueueProofs`, `JamsProofs` |
| `Jams`, `MCJams` | main() and the workers over `RtQueue` | `JamsPlain`, `JamsFeasible`, `JamsLeftJobs`, `JamsDismissedReport` | `JamsProofs` |
| `Bins` | the histogram of `bins.c`, applied to the report of `Jams` in `MCJams` | `JamsPlain` | `JamsProofs` |
| `Arith`, `Timespec` | C division, `lmax`, `lceil`; `struct timespec` arithmetic of `ts.h` | through `Release`, `Consume`, `Admission`, `Startup` | `ReleaseProofs`, `ConsumeProofs` |
| `Distrib`, `Release`, `MCRelease` | `pd_spec_t` from its option to its samples, and the release loop of main() | `Release`, `ReleaseSleep` | `ReleaseProofs` |
| `Consume` | `consume_us()` and the measurement after it, against two clocks | `Consume` | `ConsumeProofs` |
| `Estim` | the P-squared estimators of the workers and the percentile they share | through `Startup` | `StartupProofs` |
| `Startup`, `MCStartup` | options, defaults and checks of main(), then `Estim` | `Startup` | `StartupProofs` |
| `Admission` | the admission test of one job, against a reservation | `Admission` | `AdmissionProofs` |
| `DlParams` | `dl_util.c` as main() and the workers use it | through `DlStack` | `DlStackProofs` |
| `DlDevice` | the kernel module, and the loader around it | through `DlStack` | `DlStackProofs` |
| `DlStack` | `DlParams` above `DlDevice`, with an administrator and another program | `DlStack` | `DlStackProofs` |
| `DlSync` | the arithmetic of `dl_sync()` against the kernel's reservations | `DlSync` | `DlSyncProofs` |

### The program (`Jams`)

One step per access to something shared without the mutex, and per iteration of
the deadline scan. A push is one step: between its lock and its unlock it touches
nothing that is read without the mutex, except `size`, which it changes once.
`pc[w]` follows a worker through `worker()` and `rtq_pop()` (`lock`, `test`,
`look` or `scan`, `waiting`, `consume`, `record`, `assert`), `main` follows
main() (`submit` and `mark` are the two halves of a pass of the release loop:
the push, and the store of its outcome). Waiting releases the mutex in the same
step; a wakeup sends the worker back to `lock`; wakeups may be spurious.

A job is its index plus one, the dummy is 0. Time is the set `late` of jobs
whose deadline has passed, and grows at any moment; with `FifoDeadlines` it grows
in the order of submission. Whether a job that is not late is admitted is left
open (both answers are possible at any scan): `Admission` settles it. `fate[i]`
is history: what has really happened to a job, for comparison with what
`elapsed_us` says. `DummyNeverPopped` contradicts two comments, which say that the
workers leave because they pop a dummy: none does, they leave because they see
`exiting`, and of a dummy only the broadcast of its push counts. `AssertReloads` chooses between a build whose assertion reads
`elapsed_us` back from memory and one that keeps it in a register.

### Time (`Timespec`, `Release`, `Consume`, `Distrib`)

`ts_add_us` is the loop of `ts.h` in closed form: nanoseconds are carried until
at most a full second is left, because the code compares with `>`. The number of
microseconds in a second and of nanoseconds in a microsecond are constants, so
TLC runs with tiny seconds and the proofs hold for the real ones.

`Distrib` starts from what the tokens of an option may say, and applies the
defaults and the checks of `pd_parse_internal()`; every comparison with NAN is
false, as in C. The checks look at no sign, so values and draws may be negative.
A double is a whole number of parts of a microsecond, `FRAC` to each. A pass of
`pd_sample()` is a draw, a test of the range, and what the distribution keeps for
the next pass; `Release` retries, releases, or ends the program with a GAMMA whose
shape is not whole (`Sampleable`), which the parser accepts. A release adds the
sample cut to whole microseconds, because `ts_add_us()` takes a long; `cut` counts
the periods that lost something, and `DriftIsBounded` says what all of them lost.
A negative period may leave a negative `tv_nsec`, which is not normalised either:
the sleep fails.

`Consume` has a wall clock and a processor clock in nanoseconds. `Tick` is
external: the processor clock never gains on the wall clock. The rest are the
clock readings of `consume_us()` in their order, with the truncation of C (toward
zero, also for the negative differences of `tv_nsec`). Jobs of zero microseconds,
which `ceil()` at `rtqueue.c:582` lets pass, are among them: `C_us - 1` is unsigned
and wraps round, so the assertion ends the program although no time was lost.
`ToleranceSuffices` says that no other job fails it.

### Admission

The reservation is external: `Q` of every `P`, in ticks whose order is free. The
one assumption is the meaning the code gives to `u_tot`: a period's budget is
used by `u_tot * P`, and the budget left when the worker decides, by the fraction
`u_tot` of the time to the reservation's deadline. The second half is the weaker
one that the kernel's wakeup rule allows (it keeps a budget `r` as long as
`r / (d - t)` is at most `Q / P`), and it is what `budget_to_deadline()` counts on.
Under it, `BudgetIsDelivered` says that the budget counted on arrives by the
job's deadline whatever the order of the ticks, and `PercentileInTime` the same
of the percentile a job was admitted with, for both policies. Two edges of the
old policy are excepted, by the operator `Edge`, because the code does not have
the property there: a percentile equal to the budget left (line 212 sends it to
the formula for later periods), and fine tuning of a percentile that uses its
last budget up to its end (line 224 takes a whole budget off).

The probability of line 239 is a quotient of floats that may round to exactly 1.
Only what a draw can make of it is modelled: a budget that is just the percentile
gives 0 and leaves the job, and for a larger one it may be taken or left.

### Options and estimators (`Startup`, `Estim`)

`Startup` lets the options the scan depends on come in any order and any number
of times, with the checks each makes for itself, and then the checks that main()
makes of the whole. When they are passed, `Estim` runs on: from then on the
percentile is what the estimators write, and no check is made any more.

`Estim` has one estimator per worker: positions and heights of the five markers,
desired positions in units that keep them whole, heights in fractions of a
microsecond with every division cut. The adding of samples and the reading of the
estimate are those of the worker's loop, where a dismissed job counts as a pull
but gives no sample. `writer` and the extremes `low` and `high` of each worker's
samples are history, for comparison with the percentile in use.

### Parameters and the kernel module (`DlParams`, `DlDevice`, `DlStack`)

In `DlParams` the numbers are abstracted to the worker they belong to, if any. For
the /proc source the shared buffer is the set of workers whose text may be in it: it
grows when an fread() begins and is cut when it ends, and each number is then
searched in whatever it holds (`Found`). Only the text of a worker to which the
kernel has granted its reservation has numbers (`env.reserved`); a worker that was
refused ends the program, or goes on with the text of another one. Texts that are
mixed may lack a number, and the program exits, or give digits that are nobody's
(`TORN`). `fopen()` and `fread()` may fail at any time. `open()` of the device may
return descriptor 0, which the code takes for a failure: the device is then not
used, and stays open until the program ends (`MainExits`).

`PopsReadOwn` says that pops read their own numbers nevertheless, and
`NoMixedTextAfterBarrier` that after the barrier only a file that cannot be opened
or read ends a program whose workers all have their reservation.

`DlDevice` has one action per call that the initialisation and the removal of the
module make, in their order, with what each failure undoes. Opening has two
steps, because `fops` has no owner: the device is found, and then `dev_open()`
runs. The removal may come in between; `dev_open()` then gets no reference, goes
on without one, and the file is `late`. External are the check for references at
the removal, and `Free`, which leaves what is open or about to be `dangling`.

`DlStack` puts the two together: what `DlParams` calls `env.device` is whether
the device is there when open() is called, reads and the close go to the file of
the program, and a call into code that is gone kills it (`Killed`). A second file
belongs to some other program, so that references are counted by more than one.

### The offset of the clocks (`DlSync`)

`DlParams` only says whose deadline was measured. `DlSync` has the numbers: a
worker asks for its reservation, reads the clock, sleeps until two periods later,
and takes the deadline it then has to be one period after that. Whether this is
right depends on the kernel, so its reservation is modelled as the code relies on
it: a budget `Q` every `P`; a deadline put off by `P` when a spent budget is
renewed; and at a wakeup, the old deadline kept if it has not passed and the
budget left fits the bandwidth up to it, or else a new one. `dl_params_get()` is
called without a lock here, so with the /proc source (`proc`) it may answer with
the deadline of another worker that has begun to read, or with `Digits` of mixed
texts (`SyncedByAnother`), or end the program (`ReadFails`). `own` is history: the
last worker to measure has read its own deadline. `OffsetWithinLatency` has that as
a premise with /proc, and needs none with the other two sources, which answer for
the caller (`SyncedInv`). Assumed are: each reservation is honoured, as
on a processor of its own; what a worker does between reading the clock and
falling asleep, and between waking up and reading the deadline, takes less than
one budget; a timer is late by at most `MaxLatency`. `sched_setattr()` may refuse
a worker, which the program reports and survives.

### The histogram (`Bins`)

`Scanf` is what is done with one value; a histogram is its fold over the values.
`HistogramOfReport` compares it with `Spread`, a direct count, over the reports that the
modelled program can print, with the two kinds of threshold.

## Runs and their bounds

| Run | Question | Bounds |
|---|---|---|
| `RtQueue` | Do the indices and the contents of the ring agree under every sequence of operations? Is `ShiftedOver` what popn's loop does? | 4 slots, drop threshold 2, 3 elements: every position of head and tail, wrapped or not, with every pattern of equal and different elements |
| `JamsPlain` | Popping the oldest: is the shutdown complete, has every job one owner and one outcome, is the report true and its histogram too, is the queue FIFO, does every run end? | 4 jobs, 2 workers, 3 slots: the ring wraps and fills, two workers race with each other and with main; the log has exactly one entry more than there are jobs; 3 bins, so that a run of two or more shares the last |
| `JamsFeasible` | Does the inductive invariant of the proofs hold with the scan, duplicates and a reloading assertion? Does a scan purge what is late, and does every run end? | 3 jobs, 2 workers, 3 slots: two jobs in the queue and one in hand is where popn duplicates; deadlines in submission order; no symmetry, because of liveness |
| `JamsLeftJobs` (violated) | Does a job that is not processed remain on the queue? | 3 jobs, 2 workers |
| `JamsDismissedReport` (violated) | Is a job reported as dismissed an unfinished one? | 2 jobs, 2 workers |
| `Release` | Do releases drift, can a distribution keep main() in the sampler? | 3 jobs; seconds of 2 microseconds of 2 nanoseconds, so that a period spans several carries; halves of a microsecond, so that a period can lose its fraction; every option over the times -3, 0, 3 and 10 halves, ramps up and down, GAMMA with whole shapes and others, traces with values out of range and an empty one |
| `ReleaseSleep` (violated) | Is every release time accepted by `clock_nanosleep()`? | as `Release`, but whole microseconds from 0 up, so that neither a fraction nor a sign is to blame |
| `Consume` | Are dismissal, response time and assertion right whatever the clocks do? | seconds of 3 microseconds of 3 nanoseconds, 18 ns of wall time: two carries; jobs of 0, 1 and 2 microseconds |
| `Startup` | Has the scan the settings it needs? Do the markers stay apart and ordered, is the percentile in use between the samples of its writer? | every sequence of options over runtimes 0 and 1, periods 0 and 2, utilizations below, at and above 1, percentiles 0 and 3, worst cases 0, 2 and 5; computation times 1, 4 and 9; one worker pulls nine jobs (four samples past the first five, so that each marker moves), the other two (an estimate from one or two samples, written at any time) |
| `Admission` | Is what an accepted job counts on delivered? Does the inductive invariant of the proofs hold? | P = 6, Q = 3, u = 3/4 (so that u P is not whole), deadlines up to three periods ahead, percentiles up to three budgets |
| `DlStack` | Do pops read their own numbers from a source that serves to the end, whatever happens to the module? Does the module leave anything behind? | 2 workers with one pop each, all four options, every answer of the system, every set of refused workers, two files, the module removed and loaded again without limit |
| `DlSync` | Is the offset of the clocks right, whichever worker measures last, if it reads its own deadline? | P = 6, Q = 3, 16 units of time (more than the two periods of sleep), a timer late by up to 1, clocks 3 apart, 2 units of suspension, 2 workers that start at any time and run in any order, with /proc and without, and one deadline that mixed texts may give |

The three violated runs are findings of `PROJECT.json`: popn's copying loop, the
store of the outcome after the push, and the `>` of `ts_add_us()`. A fourth finding
is a disagreement with two comments and comes from a property that holds: no worker
ever pops a dummy (`DummyNeverPopped` in `JamsPlain`), while `rtqueue.c:61` and `618`
say that popping it is what ends the workers.

## Fairness

`FairSpec` of `Jams` gives weak fairness to main() and to each worker: each is a
thread that is scheduled whenever it can go on. Three strong conditions are
needed and justified. A push waits for a mutex that workers may take and release
for ever (spurious wakeups), so main() gets it in the end if it is free again and
again, which a futex does in practice. A refusal by `rand()` is not repeated for
ever, so a dummy is accepted in the end if acceptance is possible again and
again. Each deadline passes at last, because time does. No fairness is given to
spurious wakeups. `FairRelease` says that main() goes on and that a random
generator that can draw a value in range draws one in the end.

## Proofs

All theorems hold for any values of the constants that satisfy the named
assumptions of the modules.

* `RtQueueProofs`. Lemmas on `Slot` (its wrap-around by cases, injectivity below
  `size`) lead to `RingIsShaped`: the indices agree and no slot of the queue is
  empty. `YoungerElementsStay`: a pop from the middle leaves what is behind it.
  `PopnLoopShifts`: the loop of popn, which `MCRtQueue` has as a fold of its
  passes, leaves what the pops of `RtQueue` assign in one step. `CopiedDownTo` is
  the array between two passes, `PassCopies` one pass.
  `RingIsFifo`: without pops from the middle the ring refines `JobQueue` under
  the mapping `Contents`, the sequence of the slots from tail to head.
* `JamsProofs`. `IInv` is inductive; its parts are needed because the properties
  are not inductive alone. `NoStrandedWorker` needs `LockInv` (the one worker
  inside `rtq_pop()` holds the mutex, so the push of a dummy excludes it) and
  `MainInv` (a dummy comes after the flag). `DummyNeverPopped` needs that no
  dummy is queued before the flag (`HeldInv`). `PopLogFits` needs a count of the
  pushes (`PopInv`). `ReportTruth` needs to know where a job cannot be before it
  is pushed or after it is refused (`JobInv`). `Invariance` then gives the four
  safety theorems, `UsesTheRing` shows that the program drives the ring by its
  own operations only, and `PlainIsFifo` carries `RingIsFifo` over to the program.
  `HistogramSpreads` is about `Bins` alone, by induction over the values read: the
  state after q of them is the spread of the runs that end among those and the
  length of the run that goes on. `HistogramIsTrue` applies it to the report.

  With `pop_feasible_jobs` at 0 nobody scans, and `PlainInv` holds, which adds to
  `IInv` where each job is: in one slot only (`OnceQueued`, kept because a pop of
  the oldest moves every other job down one position, `PopOldestRing`), or with
  one worker, or gone by one fate (`OwnInv`); and that main() leaves its drain
  only with no job in the queue (`DrainedInv`: it reads `size` without the mutex,
  but it is the only thread that pushes, so a 0 it has read stays true of jobs).
  `EachJobHasOneOwner` and `NoJobForgotten` follow. The hypothesis is needed:
  popn's copying loop loses and duplicates jobs, which is a finding.

  With `FifoDeadlines` the scan does what it is for: `ScanInv` says that the queue
  is in the order of submission even after popn has copied in it
  (`PopKeepsOrder`), that lateness is inherited by older jobs, and that nothing
  before the index of the scan is late (`Passed`). So a job is dropped at the head
  only (`DropsAtHead`), no thread disturbs a scan (`ScanUndisturbed`), and
  `ScanDropsAllLate` is the action property `ScanPurgesLate`.
* `DlStackProofs`. `StackInv` is inductive, in three layers. `DlInv`: the calls of
  `dl_params_get()` before the barrier and those after it do not overlap
  (`PhaseInv`), so every reader after it holds the mutex (`ReaderInv`) and is
  alone with the buffer, where only its own numbers are found (`FoundInText`); and
  where main() is tells what is open (`SourceInv`).
  `DeviceInv`: what is registered follows from how far the calls have come
  (`CallsInv`), and who has the device open has a reference or came late, with no
  reference once the removal has begun (`RefsInv`). `FileInv`: what the program
  believes of its file is so, or the file was late. All six properties of the run
  follow, for any number of workers and of pops. `ProgramSteps` and `DeviceSteps`
  map each step of the composition to a step or a stutter of its parts, so each
  layer is proved about its own module.
* `DlSyncProofs`. `SyncInv` follows a worker's deadline through the steps of
  `dl_sync()`. A deadline is put off only when a budget is spent, and less than a
  budget is used between reading the clock and falling asleep; so it is put off
  once at most and has come by the wakeup two periods later. A budget that is
  left does not fit a deadline that has come (`BudgetNeedsTime`), so the kernel
  gives a new one, and the worker still has it when it reads. A worker that reads
  what is not its own leaves `own` false (`ByAnotherKeeps`), which no other source
  than /proc allows. `OffsetIsRight` holds for any budget, period, latency and
  number of workers, if the last to measure was granted its reservation and has
  read its own deadline. What is off is
  the time of suspension, which `CLOCK_BOOTTIME` counts and the clock that the
  deadlines are compared with does not.
* `ReleaseProofs`. `ts_add_us` is exact (`AddIsExact`). A distribution that was
  accepted draws numbers only and never NAN (`DrawnIsNumber`, from `PdInv`, by cases
  of its kind). What is cut off a period is
  less than a microsecond, and nothing of a whole one (`CutIsSmall`), so each job
  adds no more than that to the drift (`DriftGrows`): `ReleasesDriftLittle`, for
  values and draws of any sign. Types follow (`ReleaseTypes`). `RetriesAreBounded` needs the past: a ramp that
  has passed in vain has been clamped into its range (`RampEndsInRange`), and the
  passes in vain over a trace are fewer than the steps since each number that is
  in range was last tried (`PassesSince`).
* `ConsumeProofs`. Truncation is off by less than one unit (`TruncIsClose`), so is
  `ts_sub_us` (`SubIsClose`). The readings of two clocks, one never gaining on the other,
  bound each other by less than a microsecond: `OneMicrosecondSuffices` (a job that
  fails the assertion is one of zero microseconds, for which `C_us - 1` wraps round),
  `DismissedJobsAreLate`, `FinishedJobsHaveRun`, `ReportsAreClose`.

* `AdmissionProofs`. What `budget_to_deadline()` computes at the decision is
  generalised to every later moment: `Owed`, what the reservation still owes the
  worker by the job's deadline, as a sum of what is left of a budget (`Rest`) and
  of the budgets to come (`Further`). `CodeCounts` is the equality with the code's
  formula. A tick in which the worker runs lowers `Owed` by one at most
  (`DeliveredTicks`), any other tick and a renewal do not lower it
  (`DeliveredRenews`), so `got + Owed` never falls below what was counted on
  (`OwedInv`). The old policy computes a finish time and no budget:
  `FinishMeansOwed` is the arithmetic that a finish time before the deadline is
  early enough only if the percentile is owed by then. `BudgetDelivered`,
  `PercentileDelivered` and `LaterIsWorthMore` follow for every
  `Q < P`, utilization of at most 1 that covers the reservation, percentile and
  worst case.
* `StartupProofs`. `StartupInv` says of every estimator what its markers are worth
  (`EstimOK`): fewer than five samples lie in the first slots, the least and the
  greatest among them; from the fifth on places and heights are in order and the
  outer markers stand at the extremes. The sorting of the five samples is taken
  rank by rank (`SortIs`), a sample then moves the markers one after the other
  (`AdjustIs`, `RunIs`), each step on what the one before has left: a height stays
  between its neighbours whether the parabola or the line is taken
  (`HeightBetween`). `MarkersStayApart`, `HeightsStayInOrder` and
  `EstimateIsMeasured` hold for any number of workers and samples, any quantile
  and unit; `ScanIsConfigured` for any options in any order. The proof uses that
  NAN is no fraction (`StartupAssumption`): a utilization that was not given is
  told apart from every one that was.

The two theorems about loops are inductions over data. The library's induction
theorems take a predicate as a parameter, which the provers cannot instantiate;
`NatInduct` states induction over a set of numbers instead and is proved from the
least number outside it (`WFMin`), and `FoldExists` takes the step of a fold as a
function and gives the recursive function inside `FoldLeft` its existence. Both
are in `RtQueueProofs`.

Every invariant and every action property that a passing run checks is stated by a
theorem. Only model-checked: liveness (`Termination`, `EveryJobReleased`), which
with fairness and ENABLED is out of the prover's reach, and the three runs that
show a violation. The parts `PlainInv`, `ScanInv`, `RetryInv` and `StartupInv` that
the proofs add to the runs' own invariants live in the proof modules.

## What is not modelled, and why

* The text of options and of files, and what it is when it does not fit a buffer
  of `distrib.c`; the options that do not concern the scan or a distribution;
  printing, the layout of the histogram included; affinity. They do not touch
  what the properties tell apart.
* Floating point as such. Percentiles, fractions and heights are whole or
  rational numbers; a product that a double rounds is not. Nor is a period too large
  for a long, nor the conversion of a negative computation time to an unsigned int. `comp_time_perc_us` is
  written in one piece: on the 64 bit machines the program is for, a double is.
* The generators of random values: a random kind may draw any value of a set.
  `pd_str()`, `pd_len()` and `pd_avg()` say things about a distribution and
  change nothing.
* What the kernel does after a class has been unregistered twice, which depends on
  its version; `NothingLeftBehind` says that it happens, and to the class alone.
  `dev_write()` does nothing.
* A reservation that the kernel does not honour, or workers whose reservations
  share a processor, in `DlSync`. If the worker that measures last is one the kernel
  has refused, or has read what is not its own deadline from /proc, the offset may be
  anything: both happen in the model, and `OffsetWithinLatency` excepts them.
* The kernel's scheduler and its loader, beyond what the code relies on. The
  tools that print clocks or burn a processor, test programs (drivers that print
  what the modelled functions return), scripts, the MPC example and the traces.

## Plan

1. (done) Queue, program, time arithmetic, release, processing; their proofs.
2. (done) Several estimators around one percentile, after options and checks;
   parameters above the kernel module, checked and proved; the offset of the
   clocks against an abstract reservation, checked and proved; the histogram of
   the report; liveness with the scan.
3. (done) Proofs of what is checked: `Admission`, `Startup` with `Estim`, the rest
   of `Release` and of `Jams`. Every safety and action property that a run expects
   to hold is now a theorem, the two loops that are folds included.
4. Proofs beyond what is checked: what is left of each job's fate when the scan
   is used and popn copies (a job that is lost was once behind one that was
   taken), and the parts that no run isolates, such as the reading of a source by
   `DlParams` alone.
