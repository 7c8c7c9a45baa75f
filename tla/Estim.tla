--------------------------------- MODULE Estim ---------------------------------
(***************************************************************************)
(* The P-squared estimator of estim.c, as the loop of a worker uses it:      *)
(* every finished job adds its computation time to the worker's own          *)
(* estimator, and from the second pull on the estimate replaces              *)
(* comp_time_perc_us, by which the deadline scans of all workers admit jobs. *)
(*                                                                         *)
(* The quantile is QN / QD.  The desired positions are counted in units of   *)
(* 1 / (2 * QD), so they are whole numbers.  The heights, which are doubles, *)
(* are counted in units of 1 / SCALE microsecond, and every division of      *)
(* heights is cut to such a unit.                                            *)
(***************************************************************************)
EXTENDS Arith, FiniteSets

CONSTANTS Worker,
          QN, QD,       \* estim_perc
          SCALE,        \* units of a microsecond
          CompTimes,    \* computation times of jobs, in microseconds
          MaxPulls,     \* bound: jobs pulled, by worker
          NONE          \* nobody

ASSUME EstimAssumption == /\ QN \in Nat \ {0} /\ QD \in Nat \ {0} /\ QN <= QD
                          /\ SCALE \in Nat \ {0}
                          /\ CompTimes \subseteq Nat
                          /\ MaxPulls \in [Worker -> Nat]
                          /\ NONE \notin Worker

VARIABLES est,                \* the estim of each worker
          i,                  \* jobs each worker has pulled
          comp_time_perc_us,  \* one for all workers
          samples, low, high, \* history, by worker: samples added, the least, the greatest
          writer              \* history: the worker that last wrote the estimate

evars == <<est, i, comp_time_perc_us, samples, low, high, writer>>

Markers == 0 .. 4
ONE == 2 * QD

\* estim_init() sorts 0, 1, q, q/2 and (1 + q)/2.
incrs == [m \in Markers |-> <<0, QN, 2 * QN, QD + QN, 2 * QD>>[m + 1]]

estim_init == [count |-> 0,
               positions |-> [m \in Markers |-> 0],
               heights |-> [m \in Markers |-> 0],
               des_positions |-> [m \in Markers |-> 4 * incrs[m] + ONE]]

-------------------------------------------------------------------------------
(* insertion_sort() of the first n of five *)

\* The m-th of them in ascending order, from 0.
Ranked(f, n, m) ==
    LET upTo(v) == Cardinality({k \in 0 .. n - 1 : f[k] <= v})
        below(v) == Cardinality({k \in 0 .. n - 1 : f[k] < v})
    IN  CHOOSE v \in {f[k] : k \in 0 .. n - 1} : below(v) <= m /\ m < upTo(v)

insertion_sort(f, n) == [m \in Markers |-> IF m < n THEN Ranked(f, n, m) ELSE f[m]]

-------------------------------------------------------------------------------
(* run_algorithm(): steps B.1 to B.3 of the paper *)

\* B.1: the cell the value falls into, and the outer heights that follow it.
CellIndex(h, value) == IF value < h[0] THEN 1
                       ELSE IF value >= h[4] THEN 4
                       ELSE CHOOSE m \in 1 .. 4 : /\ value < h[m]
                                                  /\ \A k \in 1 .. m - 1 : value >= h[k]

Stretched(h, value) == [m \in Markers |->
                            IF \/ m = 0 /\ value < h[0]
                               \/ m = 4 /\ value >= h[4]
                            THEN value ELSE h[m]]

parabolic(h, pos, m, d) ==
    h[m] + Trunc(d * (  Trunc((pos[m] - pos[m - 1] + d) * (h[m + 1] - h[m]),
                              pos[m + 1] - pos[m])
                      + Trunc((pos[m + 1] - pos[m] - d) * (h[m] - h[m - 1]),
                              pos[m] - pos[m - 1])),
                 pos[m + 1] - pos[m - 1])

\* d * x / y is x / (d * y), and d * y is positive.
linear(h, pos, m, d) ==
    h[m] + Trunc(h[m + d] - h[m], d * (pos[m + d] - pos[m]))

\* B.3 for one marker: where it moves to, if it moves.
Step(pos, des, m) ==
    LET d == des[m] - ONE * pos[m]
    IN  IF d >= ONE /\ pos[m + 1] - pos[m] > 1 THEN 1
        ELSE IF d <= -ONE /\ pos[m - 1] - pos[m] < -1 THEN -1
        ELSE 0

\* Faulty: the parabola is always believed.
HeightUnchecked(h, pos, m, d) ==
    IF d = 0 THEN h[m] ELSE parabolic(h, pos, m, d)

\* The parabola is believed only strictly between the neighbours.
Height(h, pos, m, d) ==
    LET newq == parabolic(h, pos, m, d)
    IN  IF d = 0 THEN h[m]
        ELSE IF h[m - 1] < newq /\ newq < h[m + 1] THEN newq
        ELSE linear(h, pos, m, d)

Adjust(s, des, m) ==
    LET d == Step(s.pos, des, m)
    IN  [h |-> [s.h EXCEPT ![m] = Height(s.h, s.pos, m, d)],
         pos |-> [s.pos EXCEPT ![m] = @ + d]]

run_algorithm(e, value) ==
    LET cell == CellIndex(e.heights, value)
        des == [m \in Markers |-> e.des_positions[m] + incrs[m]]
        s == [h |-> Stretched(e.heights, value),
              pos |-> [m \in Markers |-> IF m >= cell THEN e.positions[m] + 1
                                                      ELSE e.positions[m]]]
        adjusted == Adjust(Adjust(Adjust(s, des, 1), des, 2), des, 3)
    IN  [count |-> e.count, positions |-> adjusted.pos,
         heights |-> adjusted.h, des_positions |-> des]

-------------------------------------------------------------------------------
(* estim_add_sample() and estim_get_quantile() *)

Filled(e, value) == [e EXCEPT !.heights[e.count] = value, !.count = @ + 1]

\* Faulty: the fifth sample is handled like the later ones.
AddEarly(e, value) ==
    IF e.count < 4 THEN Filled(e, value) ELSE run_algorithm([e EXCEPT !.count = 5], value)

\* The first five samples are kept as they come; the fifth sorts them.
estim_add_sample(e, value) ==
    IF e.count < 4 THEN Filled(e, value)
    ELSE IF e.count = 4
         THEN [Filled(e, value) EXCEPT !.heights = insertion_sort(@, 5),
                                       !.positions = [m \in Markers |-> m + 1]]
    ELSE run_algorithm(e, value)

\* With fewer than five samples the candidate k stands for the quantile k / n,
\* the best so far for the quantile closest / 5.
Nearer(k, closest, n) == 5 * Abs(k * QD - QN * n) < n * Abs(closest * QD - 5 * QN)

ClosestOfFew(n) == LET two == IF 2 < n /\ Nearer(2, 1, n) THEN 2 ELSE 1
                   IN  IF 3 < n /\ Nearer(3, two, n) THEN 3 ELSE two

\* With five markers it is the first of 1, 2, 3 whose increment is the nearest.
ClosestOfFive ==
    LET off(m) == Abs(incrs[m] - incrs[2])
    IN  CHOOSE m \in 1 .. 3 :
            \A k \in 1 .. 3 : off(m) < off(k) \/ (off(m) = off(k) /\ m <= k)

\* What result() leaves in the estimator.
Settled(e) == IF e.count < 5 THEN [e EXCEPT !.heights = insertion_sort(@, e.count)] ELSE e

result(e) == Settled(e).heights[IF e.count < 5 THEN ClosestOfFew(e.count) ELSE ClosestOfFive]

\* The result is cut to a whole number before the half is added: the half is lost.
estim_get_quantile(e) == result(e) \div SCALE

-------------------------------------------------------------------------------
(* The loop of the worker *)

EstimInit == /\ est = [w \in Worker |-> estim_init]
             /\ i = [w \in Worker |-> 0]
             /\ comp_time_perc_us \in {0} \cup CompTimes /\ writer = NONE
             /\ samples = [w \in Worker |-> 0]
             /\ low = [w \in Worker |-> 0] /\ high = [w \in Worker |-> 0]

Pulls(w) == i[w] < MaxPulls[w] /\ i' = [i EXCEPT ![w] = @ + 1]

Sampled(w, C_us) ==
    /\ samples' = [samples EXCEPT ![w] = @ + 1]
    /\ low' = [low EXCEPT ![w] = IF samples[w] = 0 \/ C_us < @ THEN C_us ELSE @]
    /\ high' = [high EXCEPT ![w] = IF C_us > @ THEN C_us ELSE @]

\* Faulty: the estimate is asked for from the first pull on.
FinishedAtOnce(w, C_us) ==
    LET added == estim_add_sample(est[w], C_us * SCALE)
    IN  /\ Pulls(w) /\ Sampled(w, C_us)
        /\ est' = [est EXCEPT ![w] = Settled(added)]
        /\ comp_time_perc_us' = estim_get_quantile(added) /\ writer' = w

\* consume_us() has returned true.  The estimate is asked for from the second
\* pull on, whether or not the job of the first one was finished, and stored
\* over that of any other worker.
Finished(w, C_us) ==
    /\ Pulls(w) /\ Sampled(w, C_us)
    /\ \E added \in {estim_add_sample(est[w], C_us * SCALE)} :
           IF i[w] > 0 THEN /\ est' = [est EXCEPT ![w] = Settled(added)]
                            /\ comp_time_perc_us' = estim_get_quantile(added)
                            /\ writer' = w
           ELSE est' = [est EXCEPT ![w] = added] /\ UNCHANGED <<comp_time_perc_us, writer>>

\* A job that is dismissed is pulled, but not measured.
Dismissed(w) == /\ Pulls(w)
                /\ UNCHANGED <<est, comp_time_perc_us, samples, low, high, writer>>

EstimNext == \E w \in Worker : Dismissed(w) \/ \E C_us \in CompTimes : Finished(w, C_us)

EstimSpec == EstimInit /\ [][EstimNext]_evars

-------------------------------------------------------------------------------
\* The markers keep distinct places among the samples, the outer ones at the
\* first and the last, although the three moves of a sample are made one after
\* the other on positions that have already changed: parabolic() and linear()
\* never divide by zero (estim.c:68-88).
MarkersApart ==
    \A w \in Worker : est[w].count = 5 =>
        /\ est[w].positions[0] = 1 /\ est[w].positions[4] = samples[w]
        /\ \A m \in 0 .. 3 : est[w].positions[m] < est[w].positions[m + 1]

\* The heights of the markers stay in order, from the least sample ever to the
\* greatest: neither the parabola nor the linear fallback leaves the gap between
\* its neighbours (estim.c:52-58, 81-86).
HeightsInOrder ==
    \A w \in Worker : est[w].count = 5 =>
        /\ est[w].heights[0] = low[w] * SCALE /\ est[w].heights[4] = high[w] * SCALE
        /\ \A m \in 0 .. 3 : est[w].heights[m] <= est[w].heights[m + 1]

\* The estimate by which all workers admit jobs is that of one of them: a
\* computation time that worker could have measured, as soon as it has measured
\* two, whatever the others have.  It is 0, which admits any job, only if the
\* writer has dismissed a job before it finished its first: result() then reads
\* the slot behind the only sample (estim.c:92-112, rtqueue.c:396-401).
EstimateAmongSamples ==
    writer # NONE =>
        IF samples[writer] > 1 THEN comp_time_perc_us \in low[writer] .. high[writer]
        ELSE comp_time_perc_us = 0 /\ i[writer] > samples[writer]
===============================================================================
