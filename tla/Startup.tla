--------------------------------- MODULE Startup ---------------------------------
(****************************************************************************)
(* main() from its options to the start of the workers, and what becomes of  *)
(* the settings: options may be given in any order and more than once, each  *)
(* is checked for itself, the whole is checked once, and then the estimators *)
(* (module Estim) replace the percentile that was part of the check.         *)
(*                                                                           *)
(* The options are those the deadline scan depends on.  Numbers are what is  *)
(* left of them after their conversion; utilizations are pairs, numerator    *)
(* and denominator; of the percentile to estimate, which is QN / QD, only    *)
(* whether it was given is kept.                                             *)
(****************************************************************************)
EXTENDS Estim

CONSTANTS Runtimes, Periods,  \* what -dr and -dp may say
          Utils,              \* what -u may say
          Percs, WcetOpts,    \* what -% and -pd-wcet may say
          NAN                 \* no utilization

ASSUME StartupAssumption == /\ Runtimes \subseteq Nat /\ Periods \subseteq Nat
                            /\ Utils \subseteq Int \X (Nat \ {0}) /\ NAN \notin Int \X Int
                            /\ Percs \subseteq Nat /\ WcetOpts \subseteq Nat

VARIABLES main,   \* "options", "run" or "exit"
          opts    \* the settings made so far

upvars == <<evars, main, opts>>

StartupInit ==
    /\ EstimInit /\ comp_time_perc_us = 0 /\ main = "options"
    /\ opts = [dl_runtime_us |-> 0, dl_period_us |-> 0, u_tot |-> NAN,
               prob_dismiss_wcet_us |-> 0, estim_perc |-> FALSE, pop_feasible_jobs |-> FALSE]

Unpulled == UNCHANGED <<est, i, samples, low, high, writer>>

-------------------------------------------------------------------------------
(* Options                                                                 *)

Sets(option, values) == /\ \E v \in values : opts' = [opts EXCEPT ![option] = v]
                        /\ UNCHANGED <<comp_time_perc_us, main>>

\* A utilization outside ]0, 1] ends the program.
InRange(u) == u[1] > 0 /\ u[1] <= u[2]

Utilization == \/ Sets("u_tot", {u \in Utils : InRange(u)})
               \/ /\ \E u \in Utils : ~InRange(u)
                  /\ main' = "exit" /\ UNCHANGED <<opts, comp_time_perc_us>>

\* A percentile switches the deadline scan on; 0 does not switch it off again.
Percentile == \E perc \in Percs :
                  /\ comp_time_perc_us' = perc
                  /\ opts' = [opts EXCEPT !.pop_feasible_jobs = @ \/ perc > 0]
                  /\ UNCHANGED main

Option == /\ main = "options"
          /\ \/ Sets("dl_runtime_us", Runtimes) \/ Sets("dl_period_us", Periods)
             \/ Sets("prob_dismiss_wcet_us", WcetOpts) \/ Sets("estim_perc", {TRUE})
             \/ Utilization \/ Percentile
          /\ Unpulled

-------------------------------------------------------------------------------
(* The defaults and the checks                                             *)

\* 0.0 / 0 is not a number; what a runtime over no period is does not matter.
WithUtilization == IF opts.u_tot # NAN \/ opts.dl_period_us = 0 THEN opts
                   ELSE [opts EXCEPT !.u_tot = <<opts.dl_runtime_us, opts.dl_period_us>>]

Reservation == 0 < opts.dl_runtime_us /\ opts.dl_runtime_us < opts.dl_period_us

\* Faulty: the scan is not checked for a reservation.
ChecksUnreserved == /\ Reservation \/ (opts.dl_runtime_us = 0 /\ opts.dl_period_us = 0)
                    /\ opts.prob_dismiss_wcet_us \in {0} \cup {w \in WcetOpts : w >= comp_time_perc_us}

Checks == /\ Reservation \/ (opts.dl_runtime_us = 0 /\ opts.dl_period_us = 0)
          /\ opts.pop_feasible_jobs => opts.dl_runtime_us > 0
          /\ opts.prob_dismiss_wcet_us \in {0} \cup {w \in WcetOpts : w >= comp_time_perc_us}

Start == /\ main = "options"
         /\ opts' = WithUtilization
         /\ main' = IF Checks THEN "run" ELSE "exit"
         /\ UNCHANGED comp_time_perc_us /\ Unpulled

\* The workers estimate a percentile only if they are asked to.
Estimate == main = "run" /\ opts.estim_perc /\ EstimNext /\ UNCHANGED <<main, opts>>

StartupNext == Option \/ Start \/ Estimate

StartupSpec == StartupInit /\ [][StartupNext]_upvars

-------------------------------------------------------------------------------
\* Whatever options are given in whatever order and however often: when the
\* deadline scan runs, its formulas have a reservation with a budget to divide by
\* and a utilization in ]0, 1], and the worst case is above the percentile until
\* a worker replaces the percentile by an estimate (rtqueue.c:214-225, 239,
\* 446-489, 528-557).
ScanHasSettings ==
    main = "run" /\ opts.pop_feasible_jobs =>
        /\ Reservation
        /\ opts.u_tot # NAN /\ InRange(opts.u_tot)
        /\ writer = NONE => opts.prob_dismiss_wcet_us = 0
                            \/ opts.prob_dismiss_wcet_us >= comp_time_perc_us
===============================================================================
