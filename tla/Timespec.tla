------------------------------- MODULE Timespec -------------------------------
(***************************************************************************)
(* The struct timespec arithmetic of ts.h, with the units as parameters: in  *)
(* the code a second has USEC_PER_SEC = 1000000 microseconds and a           *)
(* microsecond NSEC_PER_USEC = 1000 nanoseconds.                             *)
(***************************************************************************)
EXTENDS Arith

CONSTANTS USEC_PER_SEC, NSEC_PER_USEC

ASSUME UnitAssumption == /\ USEC_PER_SEC \in Nat \ {0}
                         /\ NSEC_PER_USEC \in Nat \ {0}

NSEC_PER_SEC == USEC_PER_SEC * NSEC_PER_USEC

\* The timespec of a clock that has counted ns nanoseconds, as the kernel fills it.
Stamp(ns) == [tv_sec |-> ns \div NSEC_PER_SEC, tv_nsec |-> ns % NSEC_PER_SEC]

\* Faulty: the seconds are not carried.
AddNoCarry(ts, delta_us) ==
    LET ns == ts.tv_nsec + delta_us * NSEC_PER_USEC
    IN  [ts EXCEPT !.tv_nsec = IF ns > NSEC_PER_SEC THEN ((ns - 1) % NSEC_PER_SEC) + 1
                                                    ELSE ns]

\* Faulty: one second is carried at most, "if" for "while".
AddCarryOnce(ts, delta_us) ==
    LET ns == ts.tv_nsec + delta_us * NSEC_PER_USEC
    IN  IF ns > NSEC_PER_SEC
        THEN [tv_sec |-> ts.tv_sec + 1, tv_nsec |-> ns - NSEC_PER_SEC]
        ELSE [ts EXCEPT !.tv_nsec = ns]

\* The loop takes a second off as long as there are MORE than NSEC_PER_SEC
\* nanoseconds: a full second of them stays.
ts_add_us(ts, delta_us) ==
    LET ns == ts.tv_nsec + delta_us * NSEC_PER_USEC
        carried == IF ns > NSEC_PER_SEC THEN (ns - 1) \div NSEC_PER_SEC ELSE 0
    IN  [tv_sec |-> ts.tv_sec + carried, tv_nsec |-> ns - carried * NSEC_PER_SEC]

\* Faulty: the difference of the nanoseconds loses its sign.
SubUnsigned(ts1, ts2) ==
    (ts1.tv_sec - ts2.tv_sec) * USEC_PER_SEC
        + (IF ts1.tv_nsec > ts2.tv_nsec THEN ts1.tv_nsec - ts2.tv_nsec
                                        ELSE ts2.tv_nsec - ts1.tv_nsec) \div NSEC_PER_USEC

\* The seconds and the rest apart: a negative rest is rounded up.
ts_sub_us(ts1, ts2) == (ts1.tv_sec - ts2.tv_sec) * USEC_PER_SEC
                           + Trunc(ts1.tv_nsec - ts2.tv_nsec, NSEC_PER_USEC)

ts_to_ns(ts) == ts.tv_sec * NSEC_PER_SEC + ts.tv_nsec
===============================================================================
