----------------------------- MODULE ConsumeProofs -----------------------------
(***************************************************************************)
(* Consume for every unit of time, every set of computation times, every     *)
(* dismiss point, and clocks that go on in any steps.                        *)
(*                                                                         *)
(* The invariant: the worker's processor time has not run ahead of the wall  *)
(* clock, and what the two readings say is off by less than a microsecond.   *)
(***************************************************************************)
EXTENDS Consume, TLAPS

-------------------------------------------------------------------------------
(* The arithmetic of Timespec *)

U == NSEC_PER_USEC

LEMMA Units == U \in Nat \ {0} /\ USEC_PER_SEC \in Nat \ {0} /\ NSEC_PER_SEC \in Nat \ {0}
BY UnitAssumption DEF NSEC_PER_SEC, U

\* The quotient and the remainder of a division.
LEMMA Division ==
    ASSUME NEW a \in Nat, NEW n \in Nat \ {0}
    PROVE  /\ a \div n \in Nat /\ (a % n) \in 0 .. n - 1
           /\ a = (a \div n) * n + (a % n)
OBVIOUS

\* What a whole number of units allows to conclude.
LEMMA WholeUnits == \A a, b \in Int, n \in Nat \ {0} : a * n > (b - 1) * n => a >= b
OBVIOUS

LEMMA Monotone == \A a, b \in Int, n \in Nat \ {0} : a >= b => a * n >= b * n
OBVIOUS

LEMMA Unfold == \A a, b, n \in Int : (a + b) * n = a * n + b * n
OBVIOUS

LEMMA Regroup == \A a, b, n \in Int : (a * b) * n = a * (b * n)
OBVIOUS

\* Division towards zero is off by less than the divisor.
LEMMA TruncIsClose ==
    ASSUME NEW d \in Int, NEW n \in Nat \ {0}
    PROVE  Trunc(d, n) \in Int /\ Trunc(d, n) * n - d \in 1 - n .. n - 1
<1>1. CASE d >= 0
  <2>1. d \in Nat
    BY <1>1
  <2> QED BY <1>1, <2>1, Division DEF Trunc
<1>2. CASE ~(d >= 0)
  <2> DEFINE q == (-d) \div n
  <2>1. -d \in Nat
    BY <1>2
  <2>2. q \in Nat /\ ((-d) % n) \in 0 .. n - 1 /\ -d = q * n + ((-d) % n)
    BY <2>1, Division
  <2>3. Trunc(d, n) = -q
    BY <1>2 DEF Trunc
  <2> HIDE DEF q
  <2>4. (-q) * n = -(q * n) /\ q * n \in Int
    BY <2>2
  <2> QED BY <2>2, <2>3, <2>4
<1> QED BY <1>1, <1>2

\* ts_sub_us() of two readings of a clock is off by less than a microsecond.
LEMMA SubIsClose ==
    ASSUME NEW later \in Nat, NEW earlier \in Nat
    PROVE  /\ ts_sub_us(Stamp(later), Stamp(earlier)) \in Int
           /\ ts_sub_us(Stamp(later), Stamp(earlier)) * U - (later - earlier)
                 \in 1 - U .. U - 1
<1> DEFINE S == NSEC_PER_SEC
           K == USEC_PER_SEC
           sl == later \div S
           se == earlier \div S
           nl == later % S
           ne == earlier % S
           t == Trunc(nl - ne, U)
<1>1. /\ sl \in Nat /\ nl \in 0 .. S - 1 /\ later = sl * S + nl
      /\ se \in Nat /\ ne \in 0 .. S - 1 /\ earlier = se * S + ne
  BY Units, Division
<1>2. ts_sub_us(Stamp(later), Stamp(earlier)) = (sl - se) * K + t
  BY DEF ts_sub_us, Stamp, U
<1>3. S = K * U /\ S \in Nat /\ K \in Nat /\ U \in Nat \ {0}
  BY Units DEF NSEC_PER_SEC, U
<1> HIDE DEF S, K, sl, se, nl, ne
<1>4. t \in Int /\ t * U - (nl - ne) \in 1 - U .. U - 1
  BY <1>1, <1>3, TruncIsClose
<1> HIDE DEF t
<1>5. (sl - se) * K \in Int
  BY <1>1, <1>3
<1>6. ((sl - se) * K + t) * U = (sl - se) * S + t * U
  <2>1. ((sl - se) * K + t) * U = ((sl - se) * K) * U + t * U
    BY <1>3, <1>4, <1>5, Unfold
  <2>2. ((sl - se) * K) * U = (sl - se) * (K * U)
    BY <1>1, <1>3, Regroup
  <2> QED BY <1>3, <2>1, <2>2
<1>7. (sl - se) * S = sl * S - se * S
  <2>1. ((sl - se) + se) * S = (sl - se) * S + se * S
    BY <1>1, <1>3, Unfold
  <2>2. (sl - se) + se = sl
    BY <1>1
  <2>3. (sl - se) * S \in Int /\ se * S \in Int
    BY <1>1, <1>3
  <2> QED BY <2>1, <2>2, <2>3
<1>8. sl * S \in Int /\ se * S \in Int /\ t * U \in Int
  BY <1>1, <1>3, <1>4
<1> QED BY <1>1, <1>2, <1>3, <1>4, <1>5, <1>6, <1>7, <1>8

-------------------------------------------------------------------------------
(* The invariant *)

Places == {"queued", "wall", "cpu", "end", "assert", "finished", "dismissed", "aborted"}

ClockInv == /\ wall \in Nat /\ cpu \in Nat /\ sent \in Nat /\ beg \in Nat
            /\ sent <= wall /\ beg <= cpu
            /\ cpu - beg <= wall - sent

\* No response time was read from the future.
ReadInv == /\ at \in Places /\ C_us \in CompTimes
           /\ resp_us \in Nat /\ elapsed_us \in Nat
           /\ resp_us * U < wall - sent + U

OutcomeInv ==
    /\ at = "dismissed" => resp_us > dismiss_point_us
    /\ at \in {"end", "assert", "finished"} => cpu - beg > (C_us - 1) * U
    /\ at \in {"assert", "finished"} =>
           elapsed_us * U - (wall - sent) \in 1 - U .. U - 1
    /\ at = "aborted" => C_us = 0

ConsumeInv == ClockInv /\ ReadInv /\ OutcomeInv

LEMMA Constants == /\ CompTimes \subseteq Nat /\ dismiss_point_us \in Nat
                   /\ UINT_RANGE \in Nat \ {0}
                   /\ \A C \in CompTimes : C < UINT_RANGE
BY ConsumeAssumption

\* Between() of two readings in order is a natural number, off by less than U.
LEMMA BetweenIsClose ==
    ASSUME NEW later \in Nat, NEW earlier \in Nat, earlier <= later
    PROVE  /\ Between(later, earlier) \in Nat
           /\ Between(later, earlier) * U \in Int
           /\ Between(later, earlier) * U - (later - earlier) \in 1 - U .. U - 1
<1> DEFINE b == Between(later, earlier)
<1>1. b \in Int /\ b * U - (later - earlier) \in 1 - U .. U - 1
  BY SubIsClose DEF Between
<1>2. U \in Nat \ {0}
  BY Units
<1> HIDE DEF b
<1>3. b * U \in Int /\ (0 - 1) * U = 0 - U
  BY <1>1, <1>2
<1>4. b * U > (0 - 1) * U
  BY <1>1, <1>2, <1>3
<1>5. b >= 0
  BY <1>1, <1>2, <1>4, WholeUnits
<1> QED BY <1>1, <1>3, <1>5 DEF b

LEMMA ConsumeStarts == ConsumeInit => ConsumeInv
<1> SUFFICES ASSUME ConsumeInit PROVE ConsumeInv
  OBVIOUS
<1>1. U \in Nat \ {0} /\ NSEC_PER_SEC \in Nat \ {0}
  BY Units
<1>2. ClockInv
  BY <1>1 DEF ConsumeInit, ClockInv
<1>3. ReadInv
  BY <1>1, <1>2 DEF ConsumeInit, ClockInv, ReadInv, Places
<1>4. OutcomeInv
  BY DEF ConsumeInit, OutcomeInv
<1> QED BY <1>2, <1>3, <1>4 DEF ConsumeInv

LEMMA ConsumeKeeps == ConsumeInv /\ [ConsumeNext]_cvars => ConsumeInv'
<1> SUFFICES ASSUME ConsumeInv, [ConsumeNext]_cvars PROVE ConsumeInv'
  OBVIOUS
<1> USE DEF ConsumeInv
<1>0. U \in Nat \ {0} /\ resp_us * U \in Int
  BY Units DEF ReadInv
<1>1. CASE Tick
  <2>1. PICK dw \in 1 .. MaxTick, dc \in 0 .. MaxTick :
            dc <= dw /\ wall' = wall + dw /\ cpu' = cpu + dc
    BY <1>1 DEF Tick
  <2>2. dw \in Nat /\ dc \in Nat /\ dc <= dw
    BY <2>1, ConsumeAssumption
  <2>3. UNCHANGED <<at, C_us, sent, beg, resp_us, elapsed_us>>
        /\ at \in {"queued", "wall", "cpu", "end"}
    BY <1>1 DEF Tick
  <2>4. ClockInv'
    BY <2>1, <2>2, <2>3 DEF ClockInv
  <2>5. ReadInv'
    BY <1>0, <2>1, <2>2, <2>3 DEF ReadInv, ClockInv
  <2>6. OutcomeInv'
    <3>1. (C_us - 1) * U \in Int
      BY <1>0, Constants DEF ReadInv
    <3> QED BY <2>1, <2>2, <2>3, <3>1 DEF OutcomeInv, ClockInv
  <2> QED BY <2>4, <2>5, <2>6
<1>2. CASE Begin
  <2>1. ClockInv'
    BY <1>2 DEF Begin, ClockInv
  <2>2. ReadInv'
    BY <1>2 DEF Begin, ReadInv, Places
  <2>3. OutcomeInv'
    BY <1>2 DEF Begin, OutcomeInv
  <2> QED BY <2>1, <2>2, <2>3
<1>3. CASE ReadWall
  <2>1. ClockInv'
    BY <1>3 DEF ReadWall, ClockInv
  <2>2. /\ resp_us' \in Nat /\ resp_us' * U \in Int
        /\ resp_us' * U - (wall - sent) \in 1 - U .. U - 1
    BY <1>3, BetweenIsClose DEF ReadWall, ClockInv
  <2>3. ReadInv'
    BY <1>0, <1>3, <2>2 DEF ReadWall, ReadInv, ClockInv, Places
  <2>4. OutcomeInv'
    BY <1>3 DEF ReadWall, OutcomeInv
  <2> QED BY <2>1, <2>3, <2>4
<1>4. CASE ReadCpu
  <2>1. ClockInv'
    BY <1>4 DEF ReadCpu, ClockInv
  <2>2. ReadInv'
    BY <1>4 DEF ReadCpu, ReadInv, Places
  <2>3. /\ Between(cpu, beg) \in Nat /\ Between(cpu, beg) * U \in Int
        /\ Between(cpu, beg) * U - (cpu - beg) \in 1 - U .. U - 1
    BY BetweenIsClose DEF ClockInv
  <2>4. ASSUME Between(cpu, beg) >= C_us
        PROVE  cpu - beg > (C_us - 1) * U
    <3>1. C_us \in Nat
      BY Constants DEF ReadInv
    <3>2. Between(cpu, beg) * U >= C_us * U
      BY <1>0, <2>3, <2>4, <3>1, Monotone
    <3>3. (C_us - 1) * U = C_us * U - U /\ C_us * U \in Int
      BY <1>0, <3>1
    <3> QED BY <1>0, <2>3, <3>2, <3>3 DEF ClockInv
  <2>5. at' = "end" => cpu - beg > (C_us - 1) * U
    BY <1>4, <2>4 DEF ReadCpu
  <2>6. at' = "dismissed" => resp_us > dismiss_point_us
    BY <1>4, Constants DEF ReadCpu, ReadInv
  <2>7. at' \in {"end", "wall", "dismissed"}
    BY <1>4 DEF ReadCpu
  <2>8. OutcomeInv'
    BY <1>4, <2>5, <2>6, <2>7 DEF ReadCpu, OutcomeInv
  <2> QED BY <2>1, <2>2, <2>8
<1>5. CASE ReadEnd
  <2>1. ClockInv'
    BY <1>5 DEF ReadEnd, ClockInv
  <2>2. /\ elapsed_us' \in Nat
        /\ elapsed_us' * U - (wall - sent) \in 1 - U .. U - 1
    BY <1>5, BetweenIsClose DEF ReadEnd, ClockInv
  <2>3. ReadInv'
    BY <1>5, <2>2 DEF ReadEnd, ReadInv, Places
  <2>4. OutcomeInv'
    BY <1>5, <2>2 DEF ReadEnd, OutcomeInv
  <2> QED BY <2>1, <2>3, <2>4
<1>6. CASE CheckElapsed
  <2>1. ClockInv'
    BY <1>6 DEF CheckElapsed, ClockInv
  <2>2. ReadInv'
    BY <1>6 DEF CheckElapsed, ReadInv, Places
  <2>3. C_us # 0 => elapsed_us >= (C_us - 1) % UINT_RANGE
    <3> SUFFICES ASSUME C_us # 0 PROVE elapsed_us >= (C_us - 1) % UINT_RANGE
      OBVIOUS
    <3>1. C_us \in Nat \ {0} /\ C_us < UINT_RANGE /\ UINT_RANGE \in Nat
      BY Constants DEF ReadInv
    <3>2. (C_us - 1) % UINT_RANGE = C_us - 1
      BY <3>1
    <3>3. /\ elapsed_us * U - (wall - sent) \in 1 - U .. U - 1
          /\ cpu - beg > (C_us - 1) * U
      BY <1>6 DEF CheckElapsed, OutcomeInv
    <3>4. (C_us - 2) * U = (C_us - 1) * U - U
          /\ (C_us - 1) * U \in Int /\ elapsed_us * U \in Int
      BY <1>0, <3>1 DEF ReadInv
    <3>5. elapsed_us * U > ((C_us - 1) - 1) * U
      BY <1>0, <3>3, <3>4, <3>1 DEF ClockInv
    <3>6. elapsed_us >= C_us - 1
      BY <1>0, <3>1, <3>5, WholeUnits DEF ReadInv
    <3> QED BY <3>2, <3>6
  <2>4. OutcomeInv'
    BY <1>6, <2>3 DEF CheckElapsed, OutcomeInv
  <2> QED BY <2>1, <2>2, <2>4
<1>7. CASE UNCHANGED cvars
  BY <1>7 DEF cvars, ClockInv, ReadInv, OutcomeInv
<1> QED BY <1>1, <1>2, <1>3, <1>4, <1>5, <1>6, <1>7 DEF ConsumeNext

LEMMA ConsumeInvariance == ConsumeSpec => []ConsumeInv
BY ConsumeStarts, ConsumeKeeps, PTL DEF ConsumeSpec

\* The worker's readings are natural numbers all along, whatever the clocks do
\* (rtqueue.c:264-278, 404-407).
THEOREM ConsumeTypes == ConsumeSpec => []ConsumeTypeOK
<1>1. ConsumeInv => ConsumeTypeOK
  BY DEF ConsumeInv, ClockInv, ReadInv, ConsumeTypeOK, Places
<1> QED BY <1>1, ConsumeInvariance, PTL

\* The assertion "tolerate 1us lost" (rtqueue.c:407) fails for no job of at least a
\* microsecond: one microsecond is enough for the two roundings.
THEOREM OneMicrosecondSuffices == ConsumeSpec => []ToleranceSuffices
<1>1. ConsumeInv => ToleranceSuffices
  BY DEF ConsumeInv, OutcomeInv, ToleranceSuffices
<1> QED BY <1>1, ConsumeInvariance, PTL

\* A dismissed job is late, for every dismiss point and every sequence of clock
\* readings (rtqueue.c:272, 276).
THEOREM DismissedJobsAreLate == ConsumeSpec => []DismissedIsLate
<1>1. ConsumeInv => DismissedIsLate
  <2> SUFFICES ASSUME ConsumeInv, at = "dismissed"
               PROVE  wall - sent > dismiss_point_us * NSEC_PER_USEC
    BY DEF DismissedIsLate
  <2>1. /\ resp_us \in Nat /\ dismiss_point_us \in Nat /\ U \in Nat \ {0}
        /\ resp_us >= dismiss_point_us + 1
    BY Units, Constants DEF ConsumeInv, ReadInv, OutcomeInv
  <2>2. resp_us * U >= (dismiss_point_us + 1) * U
    BY <2>1, Monotone
  <2>3. /\ (dismiss_point_us + 1) * U = dismiss_point_us * U + U
        /\ dismiss_point_us * U \in Int /\ resp_us * U \in Int
    BY <2>1
  <2>4. resp_us * U < wall - sent + U /\ wall \in Nat /\ sent \in Nat
    BY DEF ConsumeInv, ReadInv, ClockInv
  <2> QED BY <2>1, <2>2, <2>3, <2>4 DEF U
<1> QED BY <1>1, ConsumeInvariance, PTL

\* A finished job has had its computation time but for less than a microsecond
\* (rtqueue.c:275-277).
THEOREM FinishedJobsHaveRun == ConsumeSpec => []FinishedHasRun
<1>1. ConsumeInv => FinishedHasRun
  BY DEF ConsumeInv, OutcomeInv, FinishedHasRun, U
<1> QED BY <1>1, ConsumeInvariance, PTL

\* A reported response time is off by less than a microsecond (rtqueue.c:406).
THEOREM ReportsAreClose == ConsumeSpec => []ReportedToTheMicrosecond
<1>1. ConsumeInv => ReportedToTheMicrosecond
  BY DEF ConsumeInv, OutcomeInv, ReportedToTheMicrosecond, U
<1> QED BY <1>1, ConsumeInvariance, PTL
===============================================================================
