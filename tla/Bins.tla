---------------------------------- MODULE Bins ----------------------------------
(***************************************************************************)
(* bins.c: a histogram of the lengths of runs in a column of numbers, the     *)
(* response times of a report.  A run is made of zeros, which stand for       *)
(* dismissed jobs, or of values above a threshold, if one is given; a value   *)
(* that does not belong to a run ends the one before it, be it empty.         *)
(***************************************************************************)
EXTENDS Integers, SequencesExt

CONSTANTS SZ,   \* number of bins
          NAN   \* no threshold

ASSUME BinsAssumption == SZ \in Nat \ {0} /\ NAN \notin Int

Counted(val, thr) == IF thr = NAN THEN val = 0 ELSE val > thr

AllEmpty == [bins |-> [n \in 0 .. SZ - 1 |-> 0], cnt |-> 0]

\* Runs too long for a bin of their own share the last one.
Bin(cnt) == IF cnt > SZ - 1 THEN SZ - 1 ELSE cnt

\* Faulty: the count goes on.
ScanOn(s, val, thr) ==
    IF Counted(val, thr) THEN [s EXCEPT !.cnt = @ + 1]
    ELSE [s EXCEPT !.bins[Bin(s.cnt)] = @ + 1]

\* One value is read.
Scanf(s, val, thr) ==
    IF Counted(val, thr) THEN [s EXCEPT !.cnt = @ + 1]
    ELSE [bins |-> [s.bins EXCEPT ![Bin(s.cnt)] = @ + 1], cnt |-> 0]

\* What is printed at the end of the input.  The run the input ends with, if it
\* ends with one, is in no bin.
Histogram(values, thr) == FoldLeft(LAMBDA s, val : Scanf(s, val, thr), AllEmpty, values).bins

\* The same column counted directly: before each value that ends a run, how many
\* values belong to it; a bin holds the runs of its length, the last one those of
\* its length and more.
Ends(values, thr) == {i \in DOMAIN values : ~Counted(values[i], thr)}

RunBefore(values, thr, i) ==
    {k \in 1 .. i - 1 : \A m \in k .. i - 1 : m \notin Ends(values, thr)}

Spread(values, thr) ==
    LET Length(i) == Cardinality(RunBefore(values, thr, i))
    IN  [n \in 0 .. SZ - 1 |->
            Cardinality({i \in Ends(values, thr) :
                            IF n < SZ - 1 THEN Length(i) = n ELSE Length(i) >= n})]
===============================================================================
