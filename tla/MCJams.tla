-------------------------------- MODULE MCJams --------------------------------
(***************************************************************************)
(* Jams on small instances: the configurations give every constant a value.  *)
(* The report of the program is the input of the histogram tool, which has    *)
(* three bins, and no threshold or the response time 0.                       *)
(***************************************************************************)
EXTENDS Jams, Bins

\* The histogram tells how the outcomes of jobs that were not dismissed are
\* spread among those that were, job by job as submitted: before each of them it
\* counts the dismissed ones since the one before, the last bin those of two and
\* more.  The same goes for a threshold and the jobs above it.  Jobs after the
\* last such outcome are in no bin (bins.c:40-53, rtqueue.c:632).
HistogramOfReport ==
    main = "report" =>
        \A thr \in {NAN, 0} : Histogram(elapsed, thr) = Spread(elapsed, thr)
===============================================================================
