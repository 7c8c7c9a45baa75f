----------------------------- MODULE ReleaseProofs -----------------------------
(***************************************************************************)
(* Release for every unit of time, every distribution the parser accepts     *)
(* and any number of jobs.                                                   *)
(*                                                                         *)
(* The invariant: a distribution draws numbers only, and the timespec is the *)
(* sum so far but for what was cut off each period.                          *)
(***************************************************************************)
EXTENDS Release, TLAPS

-------------------------------------------------------------------------------
(* The arithmetic of Timespec *)

LEMMA Units == USEC_PER_SEC \in Nat \ {0} /\ NSEC_PER_SEC \in Nat \ {0}
BY UnitAssumption DEF NSEC_PER_SEC

\* The quotient and the remainder of a division.
LEMMA Division ==
    ASSUME NEW a \in Nat, NEW n \in Nat \ {0}
    PROVE  /\ a \div n \in Nat /\ (a % n) \in 0 .. n - 1
           /\ a = (a \div n) * n + (a % n)
OBVIOUS

LEMMA Unfold == \A a, b, n \in Int : (a + b) * n = a * n + b * n
OBVIOUS

\* ts_add_us() adds exactly delta_us, and leaves at most one second in tv_nsec.
LEMMA AddIsExact ==
    ASSUME NEW ts, ts.tv_sec \in Nat, ts.tv_nsec \in Int, NEW delta_us \in Int
    PROVE  /\ ts_to_ns(ts_add_us(ts, delta_us)) = ts_to_ns(ts) + delta_us * NSEC_PER_USEC
           /\ ts_add_us(ts, delta_us).tv_sec \in Nat
           /\ ts_add_us(ts, delta_us).tv_nsec \in Int
           /\ ts_add_us(ts, delta_us).tv_nsec <= NSEC_PER_SEC
<1> DEFINE N == NSEC_PER_SEC
           ns == ts.tv_nsec + delta_us * NSEC_PER_USEC
           carried == IF ns > N THEN (ns - 1) \div N ELSE 0
<1>1. N \in Nat \ {0} /\ ns \in Int
  BY Units, UnitAssumption
<1>2. ts_add_us(ts, delta_us) = [tv_sec |-> ts.tv_sec + carried,
                                 tv_nsec |-> ns - carried * N]
  BY DEF ts_add_us
<1> HIDE DEF N, ns
<1>3. carried \in Nat /\ ns - carried * N \in Int /\ ns - carried * N <= N
  <2>1. CASE ns > N
    <3>1. ns - 1 \in Nat
      BY <1>1, <2>1
    <3>2. /\ (ns - 1) \div N \in Nat /\ (ns - 1) % N \in 0 .. N - 1
          /\ ns - 1 = ((ns - 1) \div N) * N + ((ns - 1) % N)
      BY <1>1, <3>1, Division
    <3> DEFINE q == (ns - 1) \div N
               p == q * N
    <3>3. p \in Int /\ ns - 1 = p + ((ns - 1) % N) /\ carried = q
      BY <1>1, <2>1, <3>2
    <3> HIDE DEF q, p
    <3>4. ns - p \in 0 .. N
      BY <1>1, <3>2, <3>3
    <3> QED BY <3>2, <3>3, <3>4 DEF p, q
  <2>2. CASE ~(ns > N)
    BY <1>1, <2>2
  <2> QED BY <2>1, <2>2
<1>4. (ts.tv_sec + carried) * N + (ns - carried * N) = ts.tv_sec * N + ns
  <2> HIDE DEF carried
  <2>1. (ts.tv_sec + carried) * N = ts.tv_sec * N + carried * N
    BY <1>1, <1>3, Unfold
  <2> QED BY <1>1, <1>3, <2>1
<1>5. ts_to_ns(ts_add_us(ts, delta_us)) = ts.tv_sec * N + ns
  BY <1>2, <1>4 DEF ts_to_ns, N
<1>6. ts_to_ns(ts) + delta_us * NSEC_PER_USEC = ts.tv_sec * N + ns
  <2>1. ts.tv_sec * N \in Int /\ delta_us * NSEC_PER_USEC \in Int
    BY <1>1, UnitAssumption
  <2> QED BY <2>1 DEF ts_to_ns, N, ns
<1> QED BY <1>1, <1>2, <1>3, <1>5, <1>6 DEF N

\* The reading of the clock that the releases start from.
LEMMA StampIsExact ==
    ASSUME NEW ns \in Nat
    PROVE  /\ Stamp(ns).tv_sec \in Nat
           /\ Stamp(ns).tv_nsec \in 0 .. NSEC_PER_SEC - 1
           /\ ts_to_ns(Stamp(ns)) = ns
BY Units, Division DEF Stamp, ts_to_ns

-------------------------------------------------------------------------------
(* The invariant *)

PdInv ==
    /\ pd.val \in Int \cup {NAN} /\ pd.min \in Int \cup {NAN} /\ pd.max \in Int \cup {NAN}
    /\ pd.prob \in Probs
    /\ pd.prob = "FIXED" => pd.val \in Int
    /\ pd.prob = "UNIF" => pd.min \in Int /\ pd.max \in Int
    /\ pd.prob \in Ramps => pd.val \in Int /\ pd.std \in Int
    /\ pd.samples \in Seq(Int)
    /\ pd.cur_sample = 0 \/ pd.cur_sample \in 1 .. Len(pd.samples) - 1
    /\ pd.prob = "SFILE" => Len(pd.samples) > 0
    /\ DOMAIN pd = {"prob", "val", "std", "min", "max", "samples", "cur_sample"}
    /\ pd = [f \in DOMAIN pd |-> pd[f]]

ReleaseInv == PdInv /\ ReleaseTypeOK /\ DriftIsBounded

LEMMA NotANumber == NAN \notin Int
BY DistribAssumption

\* What the tokens say, before anything is filled in.
LEMMA TokenTypes ==
    ASSUME NEW t \in Tokens
    PROVE  /\ t = [prob |-> t.prob, val |-> t.val, std |-> t.std, min |-> t.min,
                   max |-> t.max, samples |-> t.samples, cur_sample |-> 0]
           /\ t.prob \in Probs
           /\ t.val \in Int \cup {NAN} /\ t.min \in Int \cup {NAN}
           /\ t.max \in Int \cup {NAN} /\ t.std \in Int \cup {NAN}
           /\ t.samples \in Seq(Int) /\ t.cur_sample = 0
<1>1. CASE t \in [prob : Probs \ {"SFILE"}, val : Values \cup {NAN}, std : Steps \cup {NAN},
                  min : Values \cup {NAN}, max : Values \cup {NAN},
                  samples : {<<>>}, cur_sample : {0}]
  <2>1. <<>> \in Seq(Int)
    OBVIOUS
  <2> QED BY <1>1, <2>1, DistribAssumption
<1>2. CASE t \in [prob : Probs \cap {"SFILE"}, val : {NAN}, std : {NAN},
                  min : Values \cup {NAN}, max : Values \cup {NAN},
                  samples : Traces, cur_sample : {0}]
  BY <1>2, DistribAssumption
<1> QED BY <1>1, <1>2 DEF Tokens

\* Every accepted distribution satisfies the invariant.
LEMMA ParsedIsSound == pd \in pd_parse_internal => PdInv
<1> SUFFICES ASSUME pd \in pd_parse_internal PROVE PdInv
  OBVIOUS
<1>1. PICK t \in Tokens : pd = WithStart(WithStep(t)) /\ Accepted(pd)
  BY DEF pd_parse_internal
<1> DEFINE s == WithStep(t)
<1>2. /\ s = [prob |-> t.prob, val |-> t.val, std |-> s.std, min |-> t.min,
              max |-> t.max, samples |-> t.samples, cur_sample |-> 0]
      /\ s.std \in Int \cup {NAN}
      /\ t.prob \in Ramps => s.std \in Int
  <2>1. FRAC \in Int /\ 2 \in Int
    BY DistribAssumption
  <2> QED BY <2>1, TokenTypes DEF WithStep
<1> HIDE DEF s
<1>3. /\ pd = [prob |-> t.prob, val |-> pd.val, std |-> s.std, min |-> t.min,
               max |-> t.max, samples |-> t.samples, cur_sample |-> 0]
      /\ pd.val \in {t.val, t.min, t.max}
  BY <1>1, <1>2 DEF WithStart, s
<1>4. /\ pd.val \in Int \cup {NAN} /\ pd.min \in Int \cup {NAN} /\ pd.max \in Int \cup {NAN}
      /\ pd.prob \in Probs /\ pd.samples \in Seq(Int) /\ pd.cur_sample = 0
  BY <1>3, TokenTypes
<1>5. pd.prob = "FIXED" => pd.val \in Int
  BY <1>1, <1>4 DEF Accepted
<1>6. pd.prob = "UNIF" => pd.min \in Int /\ pd.max \in Int
  BY <1>1, <1>4 DEF Accepted
<1>7. pd.prob \in Ramps => pd.val \in Int /\ pd.std \in Int
  BY <1>1, <1>2, <1>3, <1>4 DEF Accepted
<1>8. pd.prob = "SFILE" => Len(pd.samples) > 0
  BY <1>1, <1>4 DEF Accepted
<1>9. /\ DOMAIN pd = {"prob", "val", "std", "min", "max", "samples", "cur_sample"}
      /\ pd = [f \in DOMAIN pd |-> pd[f]]
  BY <1>3
<1> QED BY <1>4, <1>5, <1>6, <1>7, <1>8, <1>9 DEF PdInv

\* What is drawn is a number, and the next pass finds the invariant again.
LEMMA DrawnIsNumber == PdInv => Drawable \subseteq Int
<1> SUFFICES ASSUME PdInv PROVE Drawable \subseteq Int
  OBVIOUS
<1>1. pd.prob \in Random \cup Ramps \cup {"FIXED", "UNIF", "SFILE"}
  BY DistribAssumption DEF PdInv
<1>2. CASE pd.prob = "FIXED"
  <2>1. Drawable = {pd.val}
    BY <1>2 DEF Drawable, Random, Ramps
  <2> QED BY <1>2, <2>1 DEF PdInv
<1>3. CASE pd.prob = "UNIF"
  <2>1. Drawable = {pd.min} \cup (pd.min .. pd.max - 1) \cup (pd.max + 1 .. pd.min)
    BY <1>3 DEF Drawable, Random, Ramps
  <2> QED BY <1>3, <2>1 DEF PdInv
<1>4. CASE pd.prob \in Random
  <2>1. Drawable = Draws
    BY <1>4 DEF Drawable, Random, Ramps
  <2> QED BY <2>1, DistribAssumption
<1>5. CASE pd.prob \in Ramps
  <2>1. Drawable = {pd.val}
    BY <1>5 DEF Drawable, Random, Ramps
  <2> QED BY <1>5, <2>1 DEF PdInv
<1>6. CASE pd.prob = "SFILE"
  <2>1. pd.samples[pd.cur_sample + 1] \in Int
    BY <1>6 DEF PdInv
  <2>2. Drawable = {pd.samples[pd.cur_sample + 1]}
    BY <1>6 DEF Drawable, Random, Ramps
  <2> QED BY <2>1, <2>2
<1> QED BY <1>1, <1>2, <1>3, <1>4, <1>5, <1>6

LEMMA NextKeeps ==
    ASSUME PdInv, pd' = NextSpec
    PROVE  PdInv'
<1> DEFINE fields == {"prob", "val", "std", "min", "max", "samples", "cur_sample"}
<1>1. CASE pd.prob \in Ramps
  <2>1. PICK v \in Int : pd' = [pd EXCEPT !.val = Clamped(v)]
    <3>1. pd.val + pd.std \in Int /\ pd.val * pd.std \in Int
      BY <1>1 DEF PdInv
    <3> QED BY <1>1, <3>1 DEF NextSpec, Ramps
  <2>2. Clamped(v) \in Int
    BY <2>1, NotANumber DEF Clamped, AtMost, PdInv
  <2>3. /\ pd'.val = Clamped(v)
        /\ pd'.prob = pd.prob /\ pd'.std = pd.std /\ pd'.min = pd.min /\ pd'.max = pd.max
        /\ pd'.samples = pd.samples /\ pd'.cur_sample = pd.cur_sample
        /\ DOMAIN pd' = DOMAIN pd /\ pd' = [f \in DOMAIN pd' |-> pd'[f]]
    BY <2>1 DEF PdInv
  <2> QED BY <1>1, <2>2, <2>3 DEF PdInv, Ramps
<1>2. CASE pd.prob = "SFILE"
  <2>1. pd' = [pd EXCEPT !.cur_sample = (pd.cur_sample + 1) % Len(pd.samples)]
    BY <1>2 DEF NextSpec
  <2>2. Len(pd.samples) \in Nat \ {0} /\ pd.cur_sample \in Nat /\ pd.cur_sample + 1 \in Nat
    BY <1>2 DEF PdInv
  <2>3. ((pd.cur_sample + 1) % Len(pd.samples)) \in 0 .. Len(pd.samples) - 1
    <3> DEFINE a == pd.cur_sample + 1
               n == Len(pd.samples)
    <3>1. a \in Nat /\ n \in Nat \ {0}
      BY <2>2
    <3> HIDE DEF a, n
    <3>2. (a % n) \in 0 .. n - 1
      BY <3>1, Division
    <3> QED BY <3>2 DEF a, n
  <2>4. /\ pd'.cur_sample = (pd.cur_sample + 1) % Len(pd.samples)
        /\ pd'.val = pd.val
        /\ pd'.prob = pd.prob /\ pd'.std = pd.std /\ pd'.min = pd.min /\ pd'.max = pd.max
        /\ pd'.samples = pd.samples
        /\ DOMAIN pd' = DOMAIN pd /\ pd' = [f \in DOMAIN pd' |-> pd'[f]]
    BY <2>1 DEF PdInv
  <2> QED BY <1>2, <2>2, <2>3, <2>4 DEF PdInv, Ramps
<1>3. CASE pd.prob \notin Ramps /\ pd.prob # "SFILE"
  <2>1. pd' = pd
    BY <1>3 DEF NextSpec, Ramps
  <2> QED BY <2>1 DEF PdInv
<1> QED BY <1>1, <1>2, <1>3

\* Cutting a time to microseconds loses less than one, and nothing of a whole one.
LEMMA CutIsSmall ==
    ASSUME NEW a \in Int
    PROVE  /\ Trunc(a, FRAC) \in Int
           /\ Abs(Trunc(a, FRAC) * FRAC - a)
                  <= (IF a % FRAC = 0 THEN 0 ELSE 1) * (FRAC - 1)
<1>1. FRAC \in Nat \ {0}
  BY DistribAssumption
<1>2. CASE a >= 0
  <2>1. a \in Nat
    BY <1>2
  <2>2. a \div FRAC \in Nat /\ (a % FRAC) \in 0 .. FRAC - 1
        /\ a = (a \div FRAC) * FRAC + (a % FRAC)
    BY <1>1, <2>1, Division
  <2> DEFINE p == (a \div FRAC) * FRAC
             r == a % FRAC
  <2>3. p \in Int /\ a = p + r /\ r \in 0 .. FRAC - 1
    BY <1>1, <2>2
  <2>4. Trunc(a, FRAC) * FRAC = p
    BY <1>2 DEF Trunc
  <2> HIDE DEF p, r
  <2>5. Abs(p - a) <= (IF r = 0 THEN 0 ELSE 1) * (FRAC - 1)
    BY <1>1, <2>3 DEF Abs
  <2> QED BY <1>2, <2>2, <2>4, <2>5 DEF Trunc, r
<1>3. CASE ~(a >= 0)
  <2> DEFINE b == -a
             q == b \div FRAC
             p == q * FRAC
             r == b % FRAC
  <2>1. b \in Nat
    BY <1>3
  <2>2. q \in Nat /\ r \in 0 .. FRAC - 1 /\ b = p + r
    <3> HIDE DEF b
    <3> QED BY <1>1, <2>1, Division
  <2>3. Trunc(a, FRAC) = -q
    BY <1>3 DEF Trunc
  <2>4. a % FRAC = 0 => r = 0
    <3> SUFFICES ASSUME a % FRAC = 0 PROVE r = 0
      OBVIOUS
    <3> DEFINE c == a \div FRAC
               x == -c - q
    <3>1. c \in Int /\ a = c * FRAC
      BY <1>1
    <3>2. r = b - p /\ b = -a /\ r \in 0 .. FRAC - 1 /\ q \in Int
      <4> HIDE DEF q, r
      <4> QED BY <1>1, <2>2
    <3>3. x \in Int /\ x * FRAC = -(c * FRAC) - p
      <4>1. \A u, v, n \in Int : (-u - v) * n = -(u * n) - v * n
        OBVIOUS
      <4> HIDE DEF c, q
      <4> QED BY <1>1, <3>1, <3>2, <4>1
    <3>4. r = x * FRAC
      <4> DEFINE y == x * FRAC
                 z == c * FRAC
      <4>1. y = -z - p /\ r = b - p /\ b = -a /\ a = z
        BY <3>1, <3>2, <3>3
      <4>2. y \in Int /\ z \in Int /\ p \in Int /\ a \in Int
        BY <1>1, <3>1, <3>2, <3>3
      <4> HIDE DEF x, y, z, b, p, r, c
      <4>3. r = y
        BY <4>1, <4>2
      <4> QED BY <4>3 DEF y
    <3> HIDE DEF x, r
    <3>5. x < 1 /\ x > -1
      <4>1. x >= 1 => x * FRAC >= FRAC
        BY <1>1, <3>3
      <4>2. x <= -1 => x * FRAC < 0
        BY <1>1, <3>3
      <4> QED BY <1>1, <3>2, <3>3, <3>4, <4>1, <4>2
    <3> QED BY <1>1, <3>3, <3>4, <3>5
  <2>5. p \in Int /\ (-q) * FRAC = -p
    <3> HIDE DEF q
    <3> QED BY <1>1, <2>2 DEF q
  <2>6. a = -(p + r)
    BY <2>2
  <2> HIDE DEF b, q, p, r
  <2>7. Abs(-p - a) <= (IF a % FRAC = 0 THEN 0 ELSE 1) * (FRAC - 1)
    BY <1>1, <2>2, <2>4, <2>5, <2>6 DEF Abs
  <2> QED BY <2>2, <2>3, <2>5, <2>7
<1> QED BY <1>2, <1>3

\* The drift after one more release: what it was, and what is cut off the period.
LEMMA DriftGrows ==
    ASSUME NEW d \in Int, NEW c \in Nat, NEW e \in Int, NEW k \in {0, 1},
           NEW n \in Nat \ {0}, NEW m \in Nat,
           Abs(d) <= c * m * n, Abs(e) <= k * m
    PROVE  Abs(d + e * n) <= (c + k) * m * n
<1> DEFINE en == e * n
           cmn == c * m * n
           km == k * m
           kmn == km * n
<1>1. km \in Nat /\ cmn \in Nat /\ kmn \in Nat /\ en \in Int
  <2>1. km \in Nat /\ c * m \in Nat
    BY DEF km
  <2> HIDE DEF km
  <2> QED BY <2>1
<1>2. -kmn <= en /\ en <= kmn
  <2>1. e <= km /\ -km <= e
    BY <1>1 DEF Abs
  <2> HIDE DEF km
  <2>2. km * n - e * n = (km - e) * n /\ km * n + e * n = (km + e) * n
    BY <1>1
  <2>3. (km - e) * n >= 0 /\ (km + e) * n >= 0
    <3>1. \A x, y \in Nat : x * y >= 0
      OBVIOUS
    <3>2. km - e \in Nat /\ km + e \in Nat
      BY <1>1, <2>1
    <3> QED BY <3>1, <3>2
  <2> QED BY <1>1, <2>2, <2>3
<1>3. (c + k) * m * n = cmn + kmn
  <2>1. (c + k) * m = c * m + km
    BY DEF km
  <2>2. c * m \in Int /\ km \in Int
    BY DEF km
  <2> HIDE DEF km
  <2> QED BY <2>1, <2>2, Unfold
<1>4. Abs(d) <= cmn
  OBVIOUS
<1> HIDE DEF en, cmn, kmn
<1>5. Abs(d + en) <= cmn + kmn
  BY <1>1, <1>2, <1>4 DEF Abs
<1> QED BY <1>3, <1>5 DEF en

LEMMA ReleaseStarts == ReleaseInit => ReleaseInv
<1> SUFFICES ASSUME ReleaseInit PROVE ReleaseInv
  OBVIOUS
<1>1. start \in Nat
  BY Units DEF ReleaseInit
<1>2. /\ ts_next.tv_sec \in Nat /\ ts_next.tv_nsec \in 0 .. NSEC_PER_SEC - 1
      /\ ts_to_ns(ts_next) = start
  BY <1>1, StampIsExact, Units DEF ReleaseInit
<1>3. DriftIsBounded
  <2>1. elapsedPeriods = 0 /\ cut = 0 /\ FRAC \in Int /\ NSEC_PER_USEC \in Int
    BY DistribAssumption, UnitAssumption DEF ReleaseInit
  <2>2. (ts_to_ns(ts_next) - start) * FRAC - elapsedPeriods * NSEC_PER_USEC = 0
    BY <1>1, <1>2, <2>1
  <2>3. cut * (FRAC - 1) * NSEC_PER_USEC = 0
    BY <2>1
  <2> QED BY <2>2, <2>3 DEF DriftIsBounded, Abs
<1>4. PdInv
  BY ParsedIsSound DEF ReleaseInit
<1>5. ReleaseTypeOK
  <2>1. /\ pd.val \in Int \cup {NAN}
        /\ pd.cur_sample = 0 \/ pd.cur_sample \in 1 .. Len(pd.samples) - 1
    BY <1>4 DEF PdInv
  <2>2. /\ elapsedPeriods \in Int /\ retries \in 0 .. MaxRetries
        /\ jobs \in 0 .. MaxJobs /\ cut \in 0 .. jobs
    BY ReleaseAssumption DEF ReleaseInit
  <2>3. exited \in BOOLEAN
    BY Zenon DEF ReleaseInit
  <2>4. ts_next.tv_nsec \in Int /\ ts_next.tv_nsec <= NSEC_PER_SEC /\ Sleepable(ts_next)
    BY <1>2, Units DEF Sleepable
  <2> QED BY <1>1, <1>2, <2>1, <2>2, <2>3, <2>4 DEF ReleaseTypeOK
<1> QED BY <1>3, <1>4, <1>5 DEF ReleaseInv

LEMMA ReleaseKeeps == ReleaseInv /\ [ReleaseNext]_rvars => ReleaseInv'
<1> SUFFICES ASSUME ReleaseInv, [ReleaseNext]_rvars PROVE ReleaseInv'
  OBVIOUS
<1>0. /\ ts_next.tv_nsec \in Int /\ ts_next.tv_sec \in Nat /\ start \in Nat
      /\ elapsedPeriods \in Int /\ jobs \in Nat /\ cut \in Nat /\ cut <= jobs
      /\ FRAC \in Nat \ {0} /\ NSEC_PER_USEC \in Nat \ {0} /\ NSEC_PER_SEC \in Nat \ {0}
  BY Units, DistribAssumption, UnitAssumption DEF ReleaseInv, ReleaseTypeOK
<1>1. CASE ReleaseJob
  <2>1. PICK period \in Drawable :
            /\ ts_next' = ts_add_us(ts_next, Trunc(period, FRAC))
            /\ elapsedPeriods' = elapsedPeriods + period
            /\ cut' = cut + IF period % FRAC = 0 THEN 0 ELSE 1
    BY <1>1 DEF ReleaseJob
  <2> DEFINE us == Trunc(period, FRAC)
             k == IF period % FRAC = 0 THEN 0 ELSE 1
             e == us * FRAC - period
             now == ts_to_ns(ts_next)
             drift == (now - start) * FRAC - elapsedPeriods * NSEC_PER_USEC
  <2>2. period \in Int
    BY DrawnIsNumber DEF ReleaseInv
  <2>3. us \in Int /\ Abs(e) <= k * (FRAC - 1) /\ k \in {0, 1} /\ e \in Int
    <3>1. us \in Int /\ Abs(e) <= k * (FRAC - 1)
      BY <2>2, CutIsSmall
    <3>2. us * FRAC \in Int
      BY <1>0, <3>1
    <3> QED BY <2>2, <3>1, <3>2
  <2>4. /\ ts_to_ns(ts_next') = now + us * NSEC_PER_USEC
        /\ ts_next'.tv_sec \in Nat /\ ts_next'.tv_nsec \in Int
        /\ ts_next'.tv_nsec <= NSEC_PER_SEC
    BY <1>0, <2>1, <2>3, AddIsExact
  <2>5. now \in Int /\ drift \in Int
    BY <1>0 DEF ts_to_ns
  <2>6. DriftIsBounded'
    <3>1. Abs(drift) <= cut * (FRAC - 1) * NSEC_PER_USEC
      BY DEF ReleaseInv, DriftIsBounded
    <3> HIDE DEF k, e, drift
    <3>2. Abs(drift + e * NSEC_PER_USEC) <= (cut + k) * (FRAC - 1) * NSEC_PER_USEC
      <4> DEFINE m == FRAC - 1
      <4>1. m \in Nat /\ Abs(drift) <= cut * m * NSEC_PER_USEC /\ Abs(e) <= k * m
        BY <1>0, <2>3, <3>1
      <4> HIDE DEF m
      <4>2. Abs(drift + e * NSEC_PER_USEC) <= (cut + k) * m * NSEC_PER_USEC
        BY <1>0, <2>3, <2>5, <4>1, DriftGrows
      <4> QED BY <4>2 DEF m
    <3>3. drift + e * NSEC_PER_USEC
              = ((now + us * NSEC_PER_USEC) - start) * FRAC
                - (elapsedPeriods + period) * NSEC_PER_USEC
      <4> HIDE DEF now, us
      <4>1. e * NSEC_PER_USEC = us * FRAC * NSEC_PER_USEC - period * NSEC_PER_USEC
        BY <1>0, <2>2, <2>3 DEF e
      <4>2. ((now + us * NSEC_PER_USEC) - start) * FRAC
                = (now - start) * FRAC + us * FRAC * NSEC_PER_USEC
        BY <1>0, <2>3, <2>5
      <4>3. (elapsedPeriods + period) * NSEC_PER_USEC
                = elapsedPeriods * NSEC_PER_USEC + period * NSEC_PER_USEC
        BY <1>0, <2>2
      <4>4. /\ us * FRAC * NSEC_PER_USEC \in Int /\ period * NSEC_PER_USEC \in Int
            /\ (now - start) * FRAC \in Int /\ elapsedPeriods * NSEC_PER_USEC \in Int
        BY <1>0, <2>2, <2>3, <2>5
      <4> QED BY <4>1, <4>2, <4>3, <4>4 DEF drift
    <3>4. start' = start /\ cut' = cut + k /\ elapsedPeriods' = elapsedPeriods + period
      BY <1>1, <2>1 DEF ReleaseJob, k
    <3> DEFINE at == now + us * NSEC_PER_USEC
    <3>5. (at - start) * FRAC - (elapsedPeriods + period) * NSEC_PER_USEC
              = drift + e * NSEC_PER_USEC
      BY <3>3
    <3>6. Abs((at - start) * FRAC - (elapsedPeriods + period) * NSEC_PER_USEC)
              <= (cut + k) * (FRAC - 1) * NSEC_PER_USEC
      BY <3>2, <3>5, Zenon
    <3>7. ts_to_ns(ts_next') = at
      BY <2>4
    <3> HIDE DEF at
    <3> QED BY <3>4, <3>6, <3>7 DEF DriftIsBounded, ts_to_ns
  <2>7. PdInv'
    BY <1>1, NextKeeps DEF ReleaseJob, ReleaseInv
  <2>8. ReleaseTypeOK'
    <3>1. /\ pd'.val \in Int \cup {NAN}
          /\ pd'.cur_sample = 0 \/ pd'.cur_sample \in 1 .. Len(pd'.samples) - 1
      BY <2>7 DEF PdInv
    <3>2. elapsedPeriods' \in Int /\ start' \in Nat
      BY <1>0, <1>1, <2>1, <2>2 DEF ReleaseJob
    <3>3. jobs' \in 0 .. MaxJobs /\ retries' \in 0 .. MaxRetries /\ cut' \in 0 .. jobs'
      BY <1>0, <1>1, <2>1, ReleaseAssumption DEF ReleaseJob, ReleaseInv, ReleaseTypeOK
    <3>4. exited' = ~Sleepable(ts_next')
      BY <1>1, Zenon DEF ReleaseJob
    <3>5. exited' \in BOOLEAN /\ (exited' \/ Sleepable(ts_next'))
      BY <3>4, Zenon DEF Sleepable
    <3> QED BY <2>4, <3>1, <3>2, <3>3, <3>5 DEF ReleaseTypeOK, Sleepable
  <2> QED BY <2>6, <2>7, <2>8 DEF ReleaseInv
<1>2. CASE Retry
  <2>1. PdInv'
    BY <1>2, NextKeeps DEF Retry, ReleaseInv
  <2>2. ReleaseTypeOK'
    BY <1>2, <2>1, ReleaseAssumption DEF Retry, ReleaseInv, ReleaseTypeOK, Sleepable, PdInv
  <2>3. DriftIsBounded'
    BY <1>2 DEF Retry, ReleaseInv, DriftIsBounded, ts_to_ns
  <2> QED BY <2>1, <2>2, <2>3 DEF ReleaseInv
<1>3. CASE SamplerExits
  <2>1. PdInv'
    BY <1>3 DEF SamplerExits, ReleaseInv, PdInv
  <2>2. ReleaseTypeOK'
    BY <1>3 DEF SamplerExits, ReleaseInv, ReleaseTypeOK, Sleepable
  <2>3. DriftIsBounded'
    BY <1>3 DEF SamplerExits, ReleaseInv, DriftIsBounded, ts_to_ns
  <2> QED BY <2>1, <2>2, <2>3 DEF ReleaseInv
<1>4. CASE UNCHANGED rvars
  BY <1>4 DEF rvars, ReleaseInv, ReleaseTypeOK, Sleepable, DriftIsBounded, ts_to_ns, PdInv
<1> QED BY <1>1, <1>2, <1>3, <1>4 DEF ReleaseNext

LEMMA ReleaseInvariance == ReleaseSpec => []ReleaseInv
BY ReleaseStarts, ReleaseKeeps, PTL DEF ReleaseSpec

\* However long a second is, whatever the distribution and however many jobs, what
\* the releases drift from the sum of the sampled periods is less than a microsecond
\* for each period that was not whole (ts.h:6-12, rtqueue.c:606).
THEOREM ReleasesDriftLittle == ReleaseSpec => []DriftIsBounded
<1>1. ReleaseInv => DriftIsBounded
  BY DEF ReleaseInv
<1> QED BY <1>1, ReleaseInvariance, PTL

\* The nanoseconds of a release never exceed one second, and are negative only in the
\* sleep that fails for it; the index into a trace never leaves it.  Values, steps and
\* draws may be negative (ts.h:8, rtqueue.c:607, distrib.c:322-323).
THEOREM ReleaseTypes == ReleaseSpec => []ReleaseTypeOK
<1>1. ReleaseInv => ReleaseTypeOK
  BY DEF ReleaseInv
<1> QED BY <1>1, ReleaseInvariance, PTL

-------------------------------------------------------------------------------
(* How often the sampler passes in vain *)

\* How many passes ago the p-th number of the trace was last tried, the passes
\* after it only.
PassesSince(p) == IF p < pd.cur_sample THEN pd.cur_sample - 1 - p
                                       ELSE pd.cur_sample - 1 + Len(pd.samples) - p

\* A ramp that has passed in vain is in range now; a trace has not passed in vain
\* since it was last at a number in range.
RetryInv ==
    /\ pd.prob \in Ramps /\ Satisfiable =>
           /\ retries <= 1
           /\ retries = 1 => InBounds(pd.val)
    /\ pd.prob = "SFILE" =>
           \A p \in 0 .. Len(pd.samples) - 1 :
               InBounds(pd.samples[p + 1]) => retries <= PassesSince(p)

\* A pass of a ramp ends in its range, unless that is empty.
LEMMA RampEndsInRange ==
    ASSUME PdInv, pd.prob \in Ramps, Satisfiable, pd' = NextSpec
    PROVE  /\ Satisfiable' /\ InBounds(pd.val)' /\ pd'.prob \in Ramps
<1>1. pd.prob \notin {"FIXED", "UNIF", "SFILE"} /\ pd.prob \notin Random
  BY DEF Ramps, Random
<1>2. ~Less(pd.max, pd.min)
  BY <1>1 DEF Satisfiable
<1>3. PICK v \in Int : pd' = [pd EXCEPT !.val = Clamped(v)]
  <2>1. pd.val + pd.std \in Int /\ pd.val * pd.std \in Int
    BY DEF PdInv
  <2> QED BY <2>1 DEF NextSpec, Ramps
<1>4. pd'.val = Clamped(v) /\ pd'.min = pd.min /\ pd'.max = pd.max /\ pd'.prob = pd.prob
  BY <1>3 DEF PdInv
<1>5. ~Less(Clamped(v), pd.min) /\ ~Less(pd.max, Clamped(v))
  BY <1>2, NotANumber DEF PdInv, Clamped, AtMost, Less
<1>6. Satisfiable'
  BY <1>1, <1>2, <1>4 DEF Satisfiable
<1>7. InBounds(pd.val)'
  BY <1>4, <1>5 DEF InBounds, Less
<1> QED BY <1>4, <1>6, <1>7

\* A pass of a trace goes on to the next number, from the last to the first.
LEMMA TraceGoesOn ==
    ASSUME PdInv, pd.prob = "SFILE", pd' = NextSpec
    PROVE  /\ UNCHANGED <<pd.prob, pd.samples, pd.min, pd.max>>
           /\ pd.cur_sample \in 0 .. Len(pd.samples) - 1 /\ Len(pd.samples) \in Nat \ {0}
           /\ pd'.cur_sample = IF pd.cur_sample = Len(pd.samples) - 1
                               THEN 0 ELSE pd.cur_sample + 1
<1> DEFINE n == Len(pd.samples)
           c == pd.cur_sample
<1>1. n \in Nat \ {0} /\ c \in 0 .. n - 1
  BY DEF PdInv
<1>2. pd' = [pd EXCEPT !.cur_sample = (c + 1) % n]
  BY DEF NextSpec
<1>3. (c + 1) % n = IF c = n - 1 THEN 0 ELSE c + 1
  <2> HIDE DEF c, n
  <2>1. CASE c = n - 1
    BY <1>1, <2>1
  <2>2. CASE c # n - 1
    <3>1. c + 1 \in Nat /\ c + 1 < n
      BY <1>1, <2>2
    <3> QED BY <1>1, <2>2, <3>1
  <2> QED BY <2>1, <2>2
<1> QED BY <1>1, <1>2, <1>3 DEF PdInv

LEMMA RetryStarts == ReleaseInit => RetryInv
<1> SUFFICES ASSUME ReleaseInit PROVE RetryInv
  OBVIOUS
<1>1. pd.cur_sample = 0 /\ retries = 0
  <2>1. PICK t \in Tokens : pd = WithStart(WithStep(t))
    BY DEF ReleaseInit, pd_parse_internal
  <2> QED BY <2>1, TokenTypes DEF ReleaseInit, WithStart, WithStep
<1>2. pd.prob = "SFILE" => Len(pd.samples) \in Nat \ {0}
  BY ParsedIsSound DEF ReleaseInit, PdInv
<1> QED BY <1>1, <1>2 DEF RetryInv, PassesSince

LEMMA RetryKeeps ==
    ASSUME ReleaseInv, RetryInv, [ReleaseNext]_rvars
    PROVE  RetryInv'
<1>1. PdInv /\ retries \in Nat
  BY DEF ReleaseInv, ReleaseTypeOK
<1>2. CASE UNCHANGED rvars \/ SamplerExits
  <2>1. pd' = pd /\ retries' = retries
    BY <1>2 DEF rvars, SamplerExits
  <2>2. pd.prob \in Ramps => Satisfiable' = Satisfiable
    BY <2>1 DEF Satisfiable, Ramps, Random
  <2> QED BY <2>1, <2>2 DEF RetryInv, PassesSince, InBounds, Unchecked
<1>3. CASE Retry \/ ReleaseJob
  <2>1. /\ pd' = NextSpec
        /\ retries' = 0 \/ (Retry /\ retries' \in {retries, retries + 1})
    <3>1. CASE Retry
      <4>1. pd' = NextSpec /\ retries' = IF retries < MaxRetries THEN retries + 1 ELSE retries
        BY <3>1 DEF Retry
      <4>2. retries' \in {retries, retries + 1}
        BY <4>1
      <4> QED BY <3>1, <4>1, <4>2, Zenon
    <3>2. CASE ReleaseJob
      BY <3>2 DEF ReleaseJob
    <3> QED BY <1>3, <3>1, <3>2
  <2>2. pd'.prob = pd.prob /\ (pd.prob \in Ramps => Satisfiable' = Satisfiable)
    <3>1. pd' = [pd EXCEPT !.val = pd'.val] \/ pd' = [pd EXCEPT !.cur_sample = pd'.cur_sample]
          \/ pd' = pd
      BY <1>1, <2>1 DEF NextSpec, PdInv
    <3>2. pd'.prob = pd.prob /\ pd'.min = pd.min /\ pd'.max = pd.max
      BY <1>1, <3>1 DEF PdInv
    <3> QED BY <3>2 DEF Satisfiable, Ramps, Random
  <2>3. CASE pd.prob \in Ramps /\ Satisfiable
    <3>1. InBounds(pd.val)' /\ pd'.prob # "SFILE"
      BY <1>1, <2>1, <2>2, <2>3, RampEndsInRange DEF Ramps
    <3>2. Retry => retries = 0
      <4>1. Drawable = {pd.val}
        BY <2>3 DEF Drawable, Ramps, Random
      <4> QED BY <1>1, <2>3, <4>1 DEF Retry, RetryInv
    <3>3. retries' <= 1
      BY <1>1, <2>1, <3>2
    <3> QED BY <3>1, <3>3 DEF RetryInv
  <2>4. CASE pd.prob = "SFILE"
    <3>1. /\ UNCHANGED <<pd.prob, pd.samples, pd.min, pd.max>>
          /\ pd.cur_sample \in 0 .. Len(pd.samples) - 1 /\ Len(pd.samples) \in Nat \ {0}
          /\ pd'.cur_sample = IF pd.cur_sample = Len(pd.samples) - 1
                              THEN 0 ELSE pd.cur_sample + 1
      BY <1>1, <2>1, <2>4, TraceGoesOn
    <3> SUFFICES ASSUME NEW p \in 0 .. Len(pd.samples) - 1, InBounds(pd.samples[p + 1])
                 PROVE  retries' <= PassesSince(p)'
      BY <2>4, <3>1 DEF RetryInv, InBounds, Unchecked, Ramps
    <3>2. retries <= PassesSince(p)
      BY <2>4 DEF RetryInv
    <3>3. CASE retries' = 0
      BY <3>1, <3>3 DEF PassesSince
    <3>4. CASE Retry /\ retries' \in {retries, retries + 1}
      <4>1. Drawable = {pd.samples[pd.cur_sample + 1]}
        BY <2>4 DEF Drawable, Ramps, Random
      <4>2. p # pd.cur_sample
        BY <3>4, <4>1 DEF Retry
      <4>3. retries' <= retries + 1
        BY <1>1, <3>4
      <4>4. PassesSince(p)' >= PassesSince(p) + 1
        <5> DEFINE c == pd.cur_sample
                   d == pd'.cur_sample
                   n == Len(pd.samples)
        <5>1. /\ c \in 0 .. n - 1 /\ n \in Nat \ {0} /\ p \in 0 .. n - 1 /\ p # c
              /\ d = IF c = n - 1 THEN 0 ELSE c + 1
          BY <3>1, <4>2
        <5>2. PassesSince(p) = IF p < c THEN c - 1 - p ELSE c - 1 + n - p
          BY DEF PassesSince
        <5>3. PassesSince(p)' = IF p < d THEN d - 1 - p ELSE d - 1 + n - p
          BY <3>1 DEF PassesSince
        <5> HIDE DEF c, d, n
        <5>4. (IF p < d THEN d - 1 - p ELSE d - 1 + n - p)
                  >= (IF p < c THEN c - 1 - p ELSE c - 1 + n - p) + 1
          BY <5>1
        <5> QED BY <5>2, <5>3, <5>4
      <4> DEFINE then == PassesSince(p)'
                 now == PassesSince(p)
      <4>5. then \in Int /\ now \in Int
        <5>1. now \in Int
          BY <3>1 DEF PassesSince
        <5> DEFINE c == pd'.cur_sample
                   n == Len(pd'.samples)
        <5>2. c \in Int /\ n \in Int /\ p \in Int
          BY <3>1
        <5>3. then = IF p < c THEN c - 1 - p ELSE c - 1 + n - p
          BY DEF PassesSince
        <5> HIDE DEF c, n, then
        <5>4. then \in Int
          BY <5>2, <5>3
        <5> QED BY <5>1, <5>4
      <4> HIDE DEF then, now
      <4>6. retries' \in Nat /\ retries \in Nat /\ then >= now + 1 /\ retries <= now
        BY <1>1, <3>2, <3>4, <4>4 DEF then, now
      <4>7. retries' <= then
        BY <4>3, <4>5, <4>6
      <4> QED BY <4>7 DEF then
    <3> QED BY <2>1, <3>3, <3>4
  <2>5. CASE ~(pd.prob \in Ramps /\ Satisfiable) /\ pd.prob # "SFILE"
    BY <2>2, <2>5 DEF RetryInv
  <2> QED BY <2>3, <2>4, <2>5
<1> QED BY <1>2, <1>3 DEF ReleaseNext

\* Whatever the ramp or the trace, a sampler that can produce a value in range does
\* so after one pass in vain, or within one time round the trace (distrib.c:305-331).
THEOREM RetriesAreBounded == ReleaseSpec => []BoundedRetries
<1>1. ReleaseInv /\ RetryInv => BoundedRetries
  <2> SUFFICES ASSUME ReleaseInv, RetryInv, Satisfiable
               PROVE  /\ pd.prob \in Ramps => retries <= 1
                      /\ pd.prob = "SFILE" => retries < Len(pd.samples)
    BY DEF BoundedRetries
  <2>1. ASSUME pd.prob = "SFILE" PROVE retries < Len(pd.samples)
    <3>1. PICK i \in DOMAIN pd.samples : InBounds(pd.samples[i])
      BY <2>1 DEF Satisfiable, Ramps, Random
    <3>2. /\ Len(pd.samples) \in Nat \ {0} /\ DOMAIN pd.samples = 1 .. Len(pd.samples)
          /\ pd.cur_sample \in 0 .. Len(pd.samples) - 1 /\ retries \in Nat
      BY <2>1 DEF ReleaseInv, ReleaseTypeOK, PdInv
    <3> DEFINE p == i - 1
    <3>3. p \in 0 .. Len(pd.samples) - 1 /\ p + 1 = i
      BY <3>2
    <3> HIDE DEF p
    <3>4. retries <= PassesSince(p)
      BY <2>1, <3>1, <3>3 DEF RetryInv
    <3> QED BY <3>2, <3>3, <3>4 DEF PassesSince
  <2> QED BY <2>1 DEF RetryInv
<1>2. ReleaseInv /\ RetryInv /\ [ReleaseNext]_rvars => RetryInv'
  BY RetryKeeps
<1> QED BY <1>1, <1>2, RetryStarts, ReleaseInvariance, PTL DEF ReleaseSpec
===============================================================================
