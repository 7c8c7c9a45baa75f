------------------------------- MODULE Admission -------------------------------
(***************************************************************************)
(* The admission test of rtq_pop_dl_nosync(): what a worker decides about    *)
(* one job of the queue, from the budget its reservation has left, and what  *)
(* the reservation then gives it until the job's deadline.                   *)
(*                                                                         *)
(* The reservation is the kernel's (SCHED_DEADLINE, external): Q of every P, *)
(* handed out in ticks of one time unit.  Nothing is known of the order of   *)
(* the ticks, except that the budget of a period is used up by the fraction  *)
(* u_tot of the period, and what is left of it when the worker decides by    *)
(* the same fraction of the time to the deadline of the reservation.  That   *)
(* is what u_tot stands for in the code: the load of the worker's CPU.       *)
(*                                                                         *)
(* Times are whole nanoseconds and relative to the moment of the decision;   *)
(* the fraction is UN / UD.  Doubles are taken for rationals.                *)
(***************************************************************************)
EXTENDS Arith

CONSTANTS Q, P,         \* dl_runtime_us and dl_period_us
          UN, UD,       \* u_tot
          CompTimes,    \* percentiles a worker may find in comp_time_perc_us
          Wcets,        \* values of prob_dismiss_wcet_us; 0 is the old policy
          MaxSlack      \* bound: time to the deadline of the job

\* The options are checked for 0 < Q < P.  The utilization is that of all the
\* reservations of a CPU, this one included, and a CPU is not overloaded.
ASSUME AdmissionAssumption ==
    /\ Q \in Nat \ {0} /\ P \in Nat /\ Q < P
    /\ UN \in Nat /\ UD \in Nat \ {0} /\ UN <= UD /\ UD * Q <= UN * P
    /\ CompTimes \subseteq Nat /\ Wcets \subseteq Nat
    /\ MaxSlack \in Nat

VARIABLES x,          \* time since the period of the reservation began
          r,          \* its remaining budget
          due,        \* when in the period that budget will have been used
          opts,       \* the options fine_tune and prob_dismiss_wcet_us
          C_ns,       \* the percentile, as the decision read it
          slack_ns,   \* time to the deadline of the job
          decision,   \* "none", "dropped", "left" or "taken"
          avail_ns,   \* history: the budget the decision counted on
          edge,       \* history: the decision was an edge of the old policy
          got         \* history: processor time since the decision

avars == <<x, r, due, opts, C_ns, slack_ns, decision, avail_ns, edge, got>>

-------------------------------------------------------------------------------
(* The arithmetic of the decision *)

\* Faulty: a budget may be worth less than nothing.
WorthSigned(b, span, t) == b - lmax(0, Trunc(UN * span - UD * t, UD))

\* What a budget of b that is used by the fraction u_tot of span is worth at
\* time t of the span.
Worth(b, span, t) == lmax(0, b - lmax(0, Trunc(UN * span - UD * t, UD)))

\* Faulty: the last period counts in full.
BudgetWhole(runtime_left_ns, time_to_dline_ns, time_to_job_dline_ns) ==
    IF time_to_job_dline_ns <= time_to_dline_ns
    THEN Worth(runtime_left_ns, time_to_dline_ns, time_to_job_dline_ns)
    ELSE runtime_left_ns + lceil(time_to_job_dline_ns - time_to_dline_ns, P) * Q

budget_to_deadline(runtime_left_ns, time_to_dline_ns, time_to_job_dline_ns) ==
    LET beyond == time_to_job_dline_ns - time_to_dline_ns
    IN  IF beyond <= 0
        THEN Worth(runtime_left_ns, time_to_dline_ns, time_to_job_dline_ns)
        ELSE runtime_left_ns + (beyond \div P) * Q + Worth(Q, P, beyond % P)

\* Faulty: a budget that is begun does not count.
FinishEarly(dline) ==
    IF C_ns < r THEN (UD * dline - (UD - UN) * slack_ns) \div UD
                ELSE (UD * (dline + ((C_ns - r) \div Q) * P) - (UD - UN) * P) \div UD

\* The old policy: when the percentile will have been executed.
FinishTime(dline) ==
    IF C_ns < r THEN (UD * dline - (UD - UN) * slack_ns) \div UD
                ELSE (UD * (dline + lceil(C_ns - r, Q) * P) - (UD - UN) * P) \div UD

\* What --fine-tune takes off that: the part of the last budget not needed.
FineTune == IF ~opts.fine_tune THEN 0
            ELSE IF C_ns < r THEN r - C_ns
            ELSE Q - ((C_ns - r) % Q)

finish_time_ns(dline) == FinishTime(dline) - FineTune

-------------------------------------------------------------------------------
AdmissionInit ==
    /\ x \in 0 .. P - 1
    /\ due = x + (UN * (P - x)) \div UD
    /\ r \in {b \in 0 .. Q : b <= due - x}
    /\ opts \in [fine_tune : BOOLEAN, wcet : Wcets]
    /\ C_ns \in CompTimes
    /\ slack_ns \in -1 .. MaxSlack
    /\ decision = "none" /\ avail_ns = 0 /\ edge = FALSE /\ got = 0

Decided(what) == decision' = what /\ UNCHANGED <<x, r, due, opts, C_ns, slack_ns, got>>

\* A job whose deadline has passed is dropped.
Drop == /\ decision = "none" /\ slack_ns < 0
        /\ Decided("dropped") /\ UNCHANGED <<avail_ns, edge>>

\* Where the formulas of the old policy do not fit: a percentile that is just
\* the budget left gets the formula for later periods, which supposes that the
\* budget is used by the fraction u_tot of the period; and fine tuning takes off
\* a whole budget for a percentile that needs the last one up to its end.
Edge == \/ C_ns = r /\ UD * due > UN * P
        \/ opts.fine_tune /\ C_ns >= r /\ ((C_ns - r) % Q) = 0

\* The old policy takes the job if the percentile is executed in time.
Deterministic ==
    /\ decision = "none" /\ slack_ns >= 0 /\ opts.wcet = 0
    /\ edge' = Edge
    /\ UNCHANGED avail_ns
    /\ Decided(IF slack_ns >= finish_time_ns(P - x) THEN "taken" ELSE "left")

\* The new policy takes it if the worst case is guaranteed, by chance if only the
\* percentile is.  The quotient of floats is 0 for a budget that is just the
\* percentile; for more it is positive and at most 1.  The numbers drawn reach
\* from 0 to 1, and must be below it: then the job may be taken or left.
ByBudget(avail) ==
    \/ avail >= opts.wcet /\ Decided("taken")
    \/ /\ avail < opts.wcet /\ avail >= C_ns
       /\ \/ Decided("left")
          \/ avail > C_ns /\ Decided("taken")
    \/ avail < opts.wcet /\ avail < C_ns /\ Decided("left")

Probabilistic ==
    /\ decision = "none" /\ slack_ns >= 0 /\ opts.wcet # 0
    /\ avail_ns' = budget_to_deadline(r, P - x, slack_ns)
    /\ ByBudget(avail_ns')
    /\ UNCHANGED edge

\* One unit of time until the deadline of a job that was taken: the worker runs
\* or something else does.  It cannot wait when the time left is what its budget
\* needs.  At its deadline the reservation gets its next budget.
Tick(runs) ==
    /\ decision = "taken" /\ slack_ns > 0
    /\ IF runs THEN r > 0 ELSE r <= due - x - 1 \/ r = 0
    /\ LET left == IF runs THEN r - 1 ELSE r
       IN  IF x + 1 = P THEN x' = 0 /\ r' = left + Q /\ due' = (UN * P) \div UD
                        ELSE x' = x + 1 /\ r' = left /\ UNCHANGED due
    /\ slack_ns' = slack_ns - 1
    /\ got' = IF runs THEN got + 1 ELSE got
    /\ UNCHANGED <<opts, C_ns, decision, avail_ns, edge>>

AdmissionNext == \/ Drop \/ Deterministic \/ Probabilistic
                 \/ \E runs \in BOOLEAN : Tick(runs)

AdmissionSpec == AdmissionInit /\ [][AdmissionNext]_avars

-------------------------------------------------------------------------------
\* A worker never finds more budget than the reservation can still give it.
AdmissionTypeOK ==
    /\ x \in 0 .. P - 1 /\ due \in 0 .. P /\ r \in 0 .. Q /\ (r = 0 \/ x + r <= due)
    /\ opts \in [fine_tune : BOOLEAN, wcet : Wcets] /\ C_ns \in CompTimes
    /\ slack_ns \in -1 .. MaxSlack
    /\ decision \in {"none", "dropped", "left", "taken"}
    /\ avail_ns \in Nat /\ edge \in BOOLEAN /\ got \in Nat

\* A budget of b that is used within the next `used' units is worth this much
\* after t of them, whatever the order of the ticks.
Rest(b, used, t) == lmax(0, b - lmax(0, used - t))

\* The time by which the budget of a period has been used.
D == (UN * P) \div UD

\* The budgets of whole periods and of a part of one, y units after a deadline.
Further(y) == (y \div P) * Q + Rest(Q, D, y % P)

\* What a reservation delivers in s units: of the budget b left, which is used
\* within `used' units and is valid for span units, and of the budgets after it.
Delivered(b, used, span, s) == IF s <= span THEN Rest(b, used, s) ELSE b + Further(s - span)

\* What it still owes the worker by the deadline of the job.
Owed == Delivered(r, due - x, P - x, slack_ns)

(* The inductive invariant behind the theorems, in named parts *)

\* Nothing has happened to a job that is not decided.
UndecidedInv ==
    decision = "none" => /\ due = x + (UN * (P - x)) \div UD
                         /\ avail_ns = 0 /\ edge = FALSE /\ got = 0

\* No tick takes away from what a decision counted on.
OwedInv == decision = "taken" =>
               /\ slack_ns >= 0
               /\ got + Owed >= avail_ns
               /\ ~edge => got + Owed >= C_ns \/ (opts.wcet # 0 /\ got + Owed >= opts.wcet)

\* What budget_to_deadline() counted on, the reservation delivers by the
\* deadline of the job, whatever the order of its ticks: with avail at or above
\* the worst case, every job makes its deadline (rtqueue.c:171-179, 234-236).
BudgetIsDelivered ==
    decision = "taken" /\ slack_ns = 0 => got >= avail_ns

\* A job that was taken has had its percentile executed at its deadline, or the
\* worst case where that is below the percentile, whichever policy took it
\* (rtqueue.c:207-246).  Two edges of the old policy are excepted.
PercentileInTime ==
    decision = "taken" /\ slack_ns = 0 /\ ~edge
        => got >= C_ns \/ (opts.wcet # 0 /\ got >= opts.wcet)

\* A job with a later deadline is worth at least as much: the two branches of
\* budget_to_deadline() and its periods meet without a gap (rtqueue.c:171-179).
LaterIsMore ==
    decision = "none" /\ slack_ns >= 0
        => budget_to_deadline(r, P - x, slack_ns) <= budget_to_deadline(r, P - x, slack_ns + 1)

\* What the theorems of AdmissionProofs rest on.
AdmissionInv == AdmissionTypeOK /\ UndecidedInv /\ OwedInv
===============================================================================
