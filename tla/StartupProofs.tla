------------------------------ MODULE StartupProofs ------------------------------
(****************************************************************************)
(* Startup and Estim for any number of workers, any quantile, any unit of the *)
(* heights, any computation times and any options.                           *)
(*                                                                           *)
(* The invariant says of every estimator what its markers are worth: up to   *)
(* five samples they are the samples, with the least and the greatest among  *)
(* them; from then on their places and their heights are in order, and the   *)
(* outer ones stand at the least and the greatest sample ever.               *)
(****************************************************************************)
EXTENDS Startup, FiniteSetTheorems, TLAPS

(* The invariant *)

\* The first n heights are those of samples from lo to hi, both among them.
Spans(f, n, lo, hi) ==
    /\ \A m \in 0 .. n - 1 : lo <= f[m] /\ f[m] <= hi
    /\ n > 0 => /\ \E m \in 0 .. n - 1 : f[m] = lo
                /\ \E m \in 0 .. n - 1 : f[m] = hi

\* A slot that no sample has filled yet holds 0.
FewInv(e, lo, hi) ==
    e.count < 5 => /\ \A m \in e.count .. 4 : e.heights[m] = 0
                   /\ Spans(e.heights, e.count, lo, hi)

\* What MarkersApart and HeightsInOrder say of one estimator.
Apart(pos, n) == /\ pos[0] = 1 /\ pos[4] = n
                 /\ \A m \in 0 .. 3 : pos[m] < pos[m + 1]

InOrder(h, lo, hi) == /\ h[0] = lo /\ h[4] = hi
                      /\ \A m \in 0 .. 3 : h[m] <= h[m + 1]

Estims == [count : 0 .. 5, positions : [Markers -> Int], heights : [Markers -> Int],
           des_positions : [Markers -> Int]]

\* An estimator that n samples from lo to hi were added to.
EstimOK(e, n, lo, hi) ==
    /\ e \in Estims
    /\ e.count = IF n < 5 THEN n ELSE 5
    /\ FewInv(e, lo, hi)
    /\ e.count = 5 => Apart(e.positions, n) /\ InOrder(e.heights, lo, hi)

WorkerInv(w) ==
    /\ i[w] \in Nat /\ samples[w] \in Nat /\ samples[w] <= i[w]
    /\ low[w] \in Nat /\ high[w] \in Nat /\ (samples[w] = 0 => high[w] = 0)
    /\ EstimOK(est[w], samples[w], low[w] * SCALE, high[w] * SCALE)

WriterInv == /\ writer \in Worker \cup {NONE}
             /\ writer # NONE => i[writer] > 0
             /\ EstimateAmongSamples

EstimInv ==
    /\ est \in [Worker -> Estims] /\ i \in [Worker -> Nat] /\ samples \in [Worker -> Nat]
    /\ low \in [Worker -> Nat] /\ high \in [Worker -> Nat]
    /\ \A w \in Worker : WorkerInv(w)
    /\ WriterInv

SettingsInv ==
    /\ main \in {"options", "run", "exit"}
    /\ main # "run" => writer = NONE
    /\ opts \in [dl_runtime_us : Nat, dl_period_us : Nat, u_tot : (Int \X Int) \cup {NAN},
                 prob_dismiss_wcet_us : Nat, estim_perc : BOOLEAN,
                 pop_feasible_jobs : BOOLEAN]
    /\ main = "options" /\ opts.u_tot # NAN => InRange(opts.u_tot)
    /\ ScanHasSettings

StartupInv == EstimInv /\ SettingsInv

LEMMA Numbers == /\ QN \in Nat \ {0} /\ QD \in Nat \ {0} /\ SCALE \in Nat \ {0}
                 /\ CompTimes \subseteq Nat /\ NONE \notin Worker
BY EstimAssumption

-------------------------------------------------------------------------------
(* Division *)

LEMMA Division ==
    ASSUME NEW a \in Nat, NEW n \in Nat \ {0}
    PROVE  /\ a \div n \in Nat /\ (a % n) \in 0 .. n - 1
           /\ a = (a \div n) * n + (a % n)
OBVIOUS

\* Division towards zero does not lead past the dividend.
LEMMA QuotientBelow ==
    ASSUME NEW a \in Nat, NEW n \in Nat \ {0}
    PROVE  a \div n \in 0 .. a
<1> DEFINE q == a \div n
<1>1. q \in Nat /\ (a % n) \in 0 .. n - 1 /\ a = q * n + (a % n)
  BY Division
<1>2. \A k \in Nat : k * n >= k /\ k * n \in Nat
  OBVIOUS
<1> HIDE DEF q
<1>3. q <= a
  BY <1>1, <1>2
<1> QED BY <1>1, <1>3 DEF q

LEMMA TruncBetween ==
    ASSUME NEW a \in Int, NEW n \in Nat \ {0}
    PROVE  /\ Trunc(a, n) \in Int
           /\ a >= 0 => 0 <= Trunc(a, n) /\ Trunc(a, n) <= a
           /\ a <= 0 => a <= Trunc(a, n) /\ Trunc(a, n) <= 0
<1>1. CASE a >= 0
  <2>1. a \in Nat /\ Trunc(a, n) = a \div n
    BY <1>1 DEF Trunc
  <2>2. a \div n \in 0 .. a
    BY <2>1, QuotientBelow
  <2> QED BY <1>1, <2>1, <2>2
<1>2. CASE ~(a >= 0)
  <2> DEFINE b == -a
  <2>1. b \in Nat /\ Trunc(a, n) = -(b \div n) /\ a = -b
    BY <1>2 DEF Trunc
  <2> HIDE DEF b
  <2>2. b \div n \in 0 .. b
    BY <2>1, QuotientBelow
  <2> QED BY <1>2, <2>1, <2>2
<1> QED BY <1>1, <1>2

\* A height between two samples is cut to a time between them.
LEMMA CutBetween ==
    ASSUME NEW lo \in Nat, NEW hi \in Nat, NEW S \in Nat \ {0},
           NEW y \in Int, lo * S <= y, y <= hi * S
    PROVE  y \div S \in lo .. hi
<1> DEFINE q == y \div S
           p == q + 1
<1>1. lo * S \in Nat /\ hi * S \in Nat
  OBVIOUS
<1>2. y \in Nat
  BY <1>1
<1>3. q \in Nat /\ (y % S) \in 0 .. S - 1 /\ y = q * S + (y % S)
  BY <1>2, Division
<1>4. q * S \in Nat /\ p * S = q * S + S /\ p \in Nat
  <2> HIDE DEF q
  <2> QED BY <1>3
<1> HIDE DEF q
<1>5. q * S <= hi * S /\ lo * S < p * S
  BY <1>1, <1>3, <1>4
<1> HIDE DEF p
<1>6. q <= hi /\ lo < p
  <2>1. \A a, b \in Nat : b <= a => b * S <= a * S
    OBVIOUS
  <2>2. ~(hi < q)
    <3>1. \A a, b \in Nat : a < b => a * S + S <= b * S
      <4> SUFFICES ASSUME NEW a \in Nat, NEW b \in Nat, a < b PROVE a * S + S <= b * S
        OBVIOUS
      <4> DEFINE c == a + 1
      <4>1. c * S = a * S + S /\ c <= b /\ c \in Nat
        OBVIOUS
      <4> HIDE DEF c
      <4> QED BY <2>1, <4>1
    <3> QED BY <1>1, <1>3, <1>4, <1>5, <3>1
  <2>3. ~(p <= lo)
    BY <1>1, <1>4, <1>5, <2>1
  <2> QED BY <1>3, <1>4, <2>2, <2>3
<1> QED BY <1>3, <1>6 DEF p, q

-------------------------------------------------------------------------------
(* insertion_sort() *)

\* Of the slots up to t + 1 one is the least, if one is of those up to t.
LEMMA LeastStep ==
    ASSUME NEW f \in [Markers -> Int], NEW X \in SUBSET Markers, NEW t \in 0 .. 3,
           (X \cap (0 .. t) # {}) =>
               \E k \in X \cap (0 .. t) : \A l \in X \cap (0 .. t) : f[k] <= f[l],
           X \cap (0 .. t + 1) # {}
    PROVE  \E k \in X \cap (0 .. t + 1) : \A l \in X \cap (0 .. t + 1) : f[k] <= f[l]
<1> DEFINE A == X \cap (0 .. t)
           B == X \cap (0 .. t + 1)
<1>1. \A l \in B : l \in A \/ l = t + 1
  OBVIOUS
<1>2. A \subseteq B /\ \A l \in B : f[l] \in Int
  BY DEF Markers
<1>3. CASE A = {}
  <2>1. B = {t + 1}
    BY <1>1, <1>3
  <2> QED BY <1>2, <2>1
<1>4. CASE A # {}
  <2>1. PICK k \in A : \A l \in A : f[k] <= f[l]
    BY <1>4
  <2>2. CASE t + 1 \in B /\ f[t + 1] < f[k]
    <3>1. \A l \in B : f[t + 1] <= f[l]
      <4> SUFFICES ASSUME NEW l \in B PROVE f[t + 1] <= f[l]
        OBVIOUS
      <4>1. f[l] \in Int /\ f[k] \in Int /\ f[t + 1] \in Int
        BY <1>2, <2>1, <2>2
      <4> QED BY <1>1, <2>1, <2>2, <4>1
    <3> QED BY <2>2, <3>1
  <2>3. CASE ~(t + 1 \in B /\ f[t + 1] < f[k])
    <3>1. \A l \in B : f[k] <= f[l]
      <4> SUFFICES ASSUME NEW l \in B PROVE f[k] <= f[l]
        OBVIOUS
      <4>1. f[l] \in Int /\ f[k] \in Int
        BY <1>2, <2>1
      <4> QED BY <1>1, <2>1, <2>3, <4>1
    <3> QED BY <1>2, <3>1
  <2> QED BY <2>2, <2>3
<1> QED BY <1>3, <1>4

\* Some slot is the least of any.
LEMMA Least ==
    ASSUME NEW f \in [Markers -> Int], NEW X \in SUBSET Markers, X # {}
    PROVE  \E k \in X : \A l \in X : f[k] <= f[l]
<1> DEFINE A(t) == X \cap (0 .. t)
           L(t) == A(t) # {} => \E k \in A(t) : \A l \in A(t) : f[k] <= f[l]
<1>1. L(0)
  <2>1. \A k \in A(0) : k = 0 /\ f[k] \in Int
    BY DEF Markers
  <2> QED BY <2>1
<1>2. \A t \in 0 .. 3 : L(t) => L(t + 1)
  BY LeastStep
<1>3. 0 + 1 = 1 /\ 1 + 1 = 2 /\ 2 + 1 = 3 /\ 3 + 1 = 4
  OBVIOUS
<1> HIDE DEF L
<1>4. L(1)
  BY <1>1, <1>2, <1>3
<1>5. L(2)
  BY <1>2, <1>3, <1>4
<1>6. L(3)
  BY <1>2, <1>3, <1>5
<1>7. L(4)
  BY <1>2, <1>3, <1>6
<1>8. A(4) = X
  BY DEF Markers
<1> QED BY <1>7, <1>8 DEF L

\* Some slot is the greatest.
LEMMA Greatest ==
    ASSUME NEW f \in [Markers -> Int], NEW X \in SUBSET Markers, X # {}
    PROVE  \E k \in X : \A l \in X : f[l] <= f[k]
<1> DEFINE g == [m \in Markers |-> -f[m]]
<1>1. g \in [Markers -> Int] /\ \A m \in Markers : g[m] = -f[m] /\ f[m] \in Int
  OBVIOUS
<1> HIDE DEF g
<1>2. PICK k \in X : \A l \in X : g[k] <= g[l]
  BY <1>1, Least
<1>3. \A l \in X : f[l] <= f[k]
  BY <1>1, <1>2
<1> QED BY <1>2, <1>3

\* The slots with at most, and with less than, the height v.
UpTo(f, n, v) == {k \in 0 .. n - 1 : f[k] <= v}
Below(f, n, v) == {k \in 0 .. n - 1 : f[k] < v}

LEMMA Counted ==
    ASSUME NEW n \in 0 .. 5, NEW X, X \subseteq 0 .. n - 1
    PROVE  IsFiniteSet(X) /\ Cardinality(X) \in 0 .. n
<1>1. IsFiniteSet(0 .. n - 1) /\ Cardinality(0 .. n - 1) = n
  BY FS_Interval
<1>2. IsFiniteSet(X) /\ Cardinality(X) <= Cardinality(0 .. n - 1)
  BY <1>1, FS_Subset
<1>3. Cardinality(X) \in Nat
  BY <1>2, FS_CardinalityType
<1> QED BY <1>1, <1>2, <1>3

LEMMA RankedExists ==
    ASSUME NEW f \in [Markers -> Int], NEW n \in 1 .. 5, NEW m \in 0 .. n - 1
    PROVE  \E v \in {f[k] : k \in 0 .. n - 1} :
               Cardinality(Below(f, n, v)) <= m /\ m < Cardinality(UpTo(f, n, v))
<1> DEFINE K == 0 .. n - 1
           A == {k \in K : Cardinality(Below(f, n, f[k])) <= m}
<1>1. K \subseteq Markers /\ K # {} /\ n \in 0 .. 5 /\ m \in Nat
      /\ \A k \in K : f[k] \in Int
  BY DEF Markers
<1>2. PICK k0 \in K : \A k \in K : f[k0] <= f[k]
  BY <1>1, Least
<1>3. k0 \in A
  <2>1. Below(f, n, f[k0]) = {}
    BY <1>1, <1>2 DEF Below
  <2> QED BY <1>1, <2>1, FS_EmptySet
<1>4. PICK k1 \in A : \A k \in A : f[k] <= f[k1]
  <2>1. A # {} /\ A \in SUBSET Markers
    BY <1>1, <1>3
  <2> HIDE DEF A
  <2> QED BY <2>1, Greatest
<1> DEFINE v == f[k1]
           B == {k \in K : v < f[k]}
<1>5. m < Cardinality(UpTo(f, n, v))
  <2>1. CASE B = {}
    <3>1. UpTo(f, n, v) = K
      BY <1>1, <1>4, <2>1 DEF UpTo
    <3>2. Cardinality(K) = n
      BY FS_Interval
    <3> QED BY <3>1, <3>2
  <2>2. CASE B # {}
    <3>1. PICK k2 \in B : \A k \in B : f[k2] <= f[k]
      <4>1. B \in SUBSET Markers
        BY <1>1
      <4> HIDE DEF B
      <4> QED BY <2>2, <4>1, Least
    <3>2. Below(f, n, f[k2]) = UpTo(f, n, v)
      <4>1. \A k \in K : f[k] < f[k2] <=> f[k] <= v
        BY <1>1, <1>4, <3>1
      <4> QED BY <4>1 DEF Below, UpTo
    <3>3. k2 \notin A
      BY <1>1, <1>4, <3>1
    <3>4. ~(Cardinality(UpTo(f, n, v)) <= m)
      BY <3>1, <3>2, <3>3
    <3>5. Cardinality(UpTo(f, n, v)) \in Nat
      <4>1. UpTo(f, n, v) \subseteq 0 .. n - 1
        BY DEF UpTo
      <4> QED BY <1>1, <4>1, Counted
    <3> QED BY <1>1, <3>4, <3>5
  <2> QED BY <2>1, <2>2
<1>6. v \in {f[k] : k \in 0 .. n - 1} /\ Cardinality(Below(f, n, v)) <= m
  BY <1>4
<1> QED BY <1>5, <1>6

LEMMA RankedIs ==
    ASSUME NEW f \in [Markers -> Int], NEW n \in 1 .. 5, NEW m \in 0 .. n - 1
    PROVE  /\ Ranked(f, n, m) \in {f[k] : k \in 0 .. n - 1}
           /\ Cardinality(Below(f, n, Ranked(f, n, m))) <= m
           /\ m < Cardinality(UpTo(f, n, Ranked(f, n, m)))
<1> DEFINE V == {f[k] : k \in 0 .. n - 1}
           P(v) == Cardinality(Below(f, n, v)) <= m /\ m < Cardinality(UpTo(f, n, v))
<1>1. \E v \in V : P(v)
  BY RankedExists
<1>2. Ranked(f, n, m) = CHOOSE v \in V : P(v)
  BY Zenon DEF Ranked, Below, UpTo
<1> HIDE DEF V, P
<1>3. Ranked(f, n, m) \in V /\ P(Ranked(f, n, m))
  BY <1>1, <1>2, Zenon
<1> QED BY <1>3 DEF V, P

\* insertion_sort() puts the first n in order and leaves the others alone.
LEMMA SortIs ==
    ASSUME NEW f \in [Markers -> Int], NEW n \in 1 .. 5, NEW g, g = insertion_sort(f, n)
    PROVE  /\ g \in [Markers -> Int]
           /\ \A m \in n .. 4 : g[m] = f[m]
           /\ \A m \in 0 .. n - 1 : \E k \in 0 .. n - 1 : g[m] = f[k]
           /\ \A k \in 0 .. n - 1 : g[0] <= f[k] /\ f[k] <= g[n - 1]
           /\ \A m, l \in 0 .. n - 1 : m < l => g[m] <= g[l]
<1>1. \A m \in 0 .. n - 1 :
          /\ m \in Markers /\ g[m] = Ranked(f, n, m)
          /\ \E k \in 0 .. n - 1 : g[m] = f[k]
          /\ Cardinality(Below(f, n, g[m])) <= m
          /\ m < Cardinality(UpTo(f, n, g[m]))
  <2> SUFFICES ASSUME NEW m \in 0 .. n - 1
               PROVE  /\ m \in Markers /\ g[m] = Ranked(f, n, m)
                      /\ \E k \in 0 .. n - 1 : g[m] = f[k]
                      /\ Cardinality(Below(f, n, g[m])) <= m
                      /\ m < Cardinality(UpTo(f, n, g[m]))
    OBVIOUS
  <2>1. m \in Markers /\ g[m] = Ranked(f, n, m)
    BY DEF insertion_sort, Markers
  <2> QED BY <2>1, RankedIs
<1>2. \A k \in 0 .. n - 1 : k \in Markers /\ f[k] \in Int
  BY DEF Markers
<1>3. \A m \in 0 .. n - 1 : g[m] \in Int
  BY <1>1, <1>2
<1>4. g \in [Markers -> Int] /\ \A m \in n .. 4 : g[m] = f[m]
  <2>1. g = [m \in Markers |-> IF m < n THEN Ranked(f, n, m) ELSE f[m]]
    BY DEF insertion_sort
  <2>2. \A m \in Markers : g[m] \in Int
    <3> SUFFICES ASSUME NEW m \in Markers PROVE g[m] \in Int
      OBVIOUS
    <3>1. m \in 0 .. n - 1 \/ ~(m < n)
      BY DEF Markers
    <3> QED BY <1>3, <2>1, <3>1
  <2>3. \A m \in n .. 4 : m \in Markers /\ ~(m < n)
    BY DEF Markers
  <2> QED BY <2>1, <2>2, <2>3
<1>5. \A v : /\ Below(f, n, v) \subseteq 0 .. n - 1 /\ UpTo(f, n, v) \subseteq 0 .. n - 1
             /\ IsFiniteSet(Below(f, n, v)) /\ IsFiniteSet(UpTo(f, n, v))
             /\ Cardinality(Below(f, n, v)) \in Nat /\ Cardinality(UpTo(f, n, v)) \in Nat
  <2> SUFFICES ASSUME NEW v
               PROVE  /\ Below(f, n, v) \subseteq 0 .. n - 1 /\ UpTo(f, n, v) \subseteq 0 .. n - 1
                      /\ IsFiniteSet(Below(f, n, v)) /\ IsFiniteSet(UpTo(f, n, v))
                      /\ Cardinality(Below(f, n, v)) \in Nat
                      /\ Cardinality(UpTo(f, n, v)) \in Nat
    OBVIOUS
  <2>1. Below(f, n, v) \subseteq 0 .. n - 1 /\ UpTo(f, n, v) \subseteq 0 .. n - 1 /\ n \in 0 .. 5
    BY DEF Below, UpTo
  <2>2. \A k \in 0 .. n : k \in Nat
    OBVIOUS
  <2> QED BY <2>1, <2>2, Counted
<1>6. \A k \in 0 .. n - 1 : g[0] <= f[k]
  <2> SUFFICES ASSUME NEW k \in 0 .. n - 1, ~(g[0] <= f[k]) PROVE FALSE
    OBVIOUS
  <2>1. 0 \in 0 .. n - 1
    OBVIOUS
  <2>2. k \in Below(f, n, g[0])
    BY <1>2, <1>3, <2>1 DEF Below
  <2>3. Cardinality(Below(f, n, g[0])) = 0
    BY <1>1, <1>5, <2>1
  <2> QED BY <1>5, <2>2, <2>3, FS_EmptySet
<1>7. \A k \in 0 .. n - 1 : f[k] <= g[n - 1]
  <2> SUFFICES ASSUME NEW k \in 0 .. n - 1, ~(f[k] <= g[n - 1]) PROVE FALSE
    OBVIOUS
  <2> DEFINE X == UpTo(f, n, g[n - 1])
             K == 0 .. n - 1
  <2>1. n - 1 \in K /\ n - 1 < Cardinality(X) /\ X \subseteq K /\ k \notin X /\ k \in K
    <3>1. n - 1 \in 0 .. n - 1
      OBVIOUS
    <3>2. k \notin X
      BY DEF UpTo
    <3> QED BY <1>1, <1>5, <3>1, <3>2
  <2>2. IsFiniteSet(K) /\ Cardinality(K) = n
    BY FS_Interval
  <2>3. Cardinality(X) < Cardinality(K)
    <3> HIDE DEF X, K
    <3>1. X # K
      BY <2>1
    <3>2. Cardinality(X) <= Cardinality(K) /\ (Cardinality(X) = Cardinality(K) => X = K)
      BY <2>1, <2>2, FS_Subset
    <3>3. IsFiniteSet(X) /\ Cardinality(X) \in Nat
      BY <2>1, <2>2, FS_Subset, FS_CardinalityType
    <3> QED BY <2>2, <3>1, <3>2, <3>3
  <2>4. Cardinality(X) \in Nat
    BY <1>5
  <2> HIDE DEF X, K
  <2> QED BY <2>1, <2>2, <2>3, <2>4
<1>8. \A m, l \in 0 .. n - 1 : m < l => g[m] <= g[l]
  <2> SUFFICES ASSUME NEW m \in 0 .. n - 1, NEW l \in 0 .. n - 1, m < l, ~(g[m] <= g[l])
               PROVE  FALSE
    OBVIOUS
  <2> DEFINE X == UpTo(f, n, g[l])
             Y == Below(f, n, g[m])
  <2>1. X \subseteq Y
    BY <1>2, <1>3 DEF UpTo, Below
  <2>2. /\ IsFiniteSet(Y) /\ Cardinality(X) \in Nat /\ Cardinality(Y) \in Nat
        /\ Cardinality(Y) <= m /\ l < Cardinality(X)
    BY <1>1, <1>5
  <2> HIDE DEF X, Y
  <2>3. Cardinality(X) <= Cardinality(Y)
    BY <2>1, <2>2, FS_Subset
  <2> QED BY <2>2, <2>3
<1> QED BY <1>1, <1>4, <1>6, <1>7, <1>8

\* Sorted or not, the samples are from the least to the greatest.
LEMMA SortSpans ==
    ASSUME NEW f \in [Markers -> Int], NEW n \in 1 .. 5, NEW g, g = insertion_sort(f, n),
           NEW lo \in Int, NEW hi \in Int, Spans(f, n, lo, hi)
    PROVE  Spans(g, n, lo, hi) /\ g[0] = lo /\ g[n - 1] = hi
<1>1. /\ g \in [Markers -> Int]
      /\ \A m \in 0 .. n - 1 : \E k \in 0 .. n - 1 : g[m] = f[k]
      /\ \A k \in 0 .. n - 1 : g[0] <= f[k] /\ f[k] <= g[n - 1]
  BY SortIs
<1>2. 0 \in 0 .. n - 1 /\ n - 1 \in 0 .. n - 1 /\ n > 0
  OBVIOUS
<1>3. /\ \A m \in 0 .. n - 1 : lo <= f[m] /\ f[m] <= hi
      /\ \E m \in 0 .. n - 1 : f[m] = lo
      /\ \E m \in 0 .. n - 1 : f[m] = hi
  BY <1>2 DEF Spans
<1>4. \A m \in 0 .. n - 1 : lo <= g[m] /\ g[m] <= hi
  BY <1>1, <1>3
<1>5. g[0] \in Int /\ g[n - 1] \in Int
  BY <1>1 DEF Markers
<1>6. g[0] <= lo /\ hi <= g[n - 1]
  BY <1>1, <1>3
<1>7. g[0] = lo /\ g[n - 1] = hi
  BY <1>2, <1>4, <1>5, <1>6
<1> QED BY <1>2, <1>4, <1>7 DEF Spans

-------------------------------------------------------------------------------
(* run_algorithm() *)

LEMMA MarkerNumbers ==
    /\ 0 \in Markers /\ 1 \in Markers /\ 2 \in Markers /\ 3 \in Markers /\ 4 \in Markers
    /\ \A m \in 0 .. 3 : m \in Markers /\ m + 1 \in Markers
    /\ \A m \in 1 .. 3 : m \in Markers /\ m - 1 \in Markers /\ m + 1 \in Markers
    /\ \A m \in Markers : m = 0 \/ m = 1 \/ m = 2 \/ m = 3 \/ m = 4
    /\ \A m \in 0 .. 3 : m = 0 \/ m = 1 \/ m = 2 \/ m = 3
BY DEF Markers

\* Order from one marker to the next, spelt out.
LEMMA InOrderIs ==
    ASSUME NEW h, NEW lo, NEW hi
    PROVE  InOrder(h, lo, hi) <=> /\ h[0] = lo /\ h[4] = hi
                                  /\ h[0] <= h[1] /\ h[1] <= h[2] /\ h[2] <= h[3] /\ h[3] <= h[4]
<1>1. 0 + 1 = 1 /\ 1 + 1 = 2 /\ 2 + 1 = 3 /\ 3 + 1 = 4
      /\ 0 \in 0 .. 3 /\ 1 \in 0 .. 3 /\ 2 \in 0 .. 3 /\ 3 \in 0 .. 3
  OBVIOUS
<1> QED BY <1>1, MarkerNumbers DEF InOrder

LEMMA ApartIs ==
    ASSUME NEW pos, NEW n
    PROVE  Apart(pos, n) <=> /\ pos[0] = 1 /\ pos[4] = n
                             /\ pos[0] < pos[1] /\ pos[1] < pos[2]
                             /\ pos[2] < pos[3] /\ pos[3] < pos[4]
<1>1. 0 + 1 = 1 /\ 1 + 1 = 2 /\ 2 + 1 = 3 /\ 3 + 1 = 4
      /\ 0 \in 0 .. 3 /\ 1 \in 0 .. 3 /\ 2 \in 0 .. 3 /\ 3 \in 0 .. 3
  OBVIOUS
<1> QED BY <1>1, MarkerNumbers DEF Apart

\* A value below the last marker falls into a cell.
LEMMA CellExists ==
    ASSUME NEW h \in [Markers -> Int], NEW lo, NEW hi, InOrder(h, lo, hi), NEW value \in Int
    PROVE  CellIndex(h, value) \in 1 .. 4
<1>1. h[1] \in Int /\ h[2] \in Int /\ h[3] \in Int /\ h[4] \in Int
  BY MarkerNumbers
<1> DEFINE P(m) == value < h[m] /\ \A k \in 1 .. m - 1 : value >= h[k]
<1>2. CASE ~(value >= h[4])
  <2>1. \E m \in 1 .. 4 : P(m)
    <3>1. /\ 1 \in 1 .. 4 /\ \A k \in 1 .. 1 - 1 : FALSE
          /\ 2 \in 1 .. 4 /\ \A k \in 1 .. 2 - 1 : k = 1
          /\ 3 \in 1 .. 4 /\ \A k \in 1 .. 3 - 1 : k = 1 \/ k = 2
          /\ 4 \in 1 .. 4 /\ \A k \in 1 .. 4 - 1 : k = 1 \/ k = 2 \/ k = 3
      OBVIOUS
    <3>2. CASE value < h[1]
      <4>1. P(1)
        BY <3>1, <3>2
      <4> QED BY <3>1, <4>1
    <3>3. CASE ~(value < h[1]) /\ value < h[2]
      <4>1. P(2)
        BY <1>1, <3>1, <3>3
      <4> QED BY <3>1, <4>1
    <3>4. CASE ~(value < h[1]) /\ ~(value < h[2]) /\ value < h[3]
      <4>1. P(3)
        BY <1>1, <3>1, <3>4
      <4> QED BY <3>1, <4>1
    <3>5. CASE ~(value < h[1]) /\ ~(value < h[2]) /\ ~(value < h[3])
      <4>1. P(4)
        BY <1>1, <1>2, <3>1, <3>5
      <4> QED BY <3>1, <4>1
    <3> QED BY <3>2, <3>3, <3>4, <3>5
  <2> DEFINE c == CHOOSE m \in 1 .. 4 : P(m)
  <2>2. c \in 1 .. 4
    <3> HIDE DEF P
    <3> QED BY <2>1, Zenon
  <2>3. CellIndex(h, value) = 1 \/ CellIndex(h, value) = c
    BY <1>2, Zenon DEF CellIndex
  <2> HIDE DEF c
  <2>4. 1 \in 1 .. 4
    OBVIOUS
  <2> QED BY <2>2, <2>3, <2>4, Zenon
<1>3. CASE value >= h[4]
  <2>1. CellIndex(h, value) = 1 \/ CellIndex(h, value) = 4
    BY <1>3 DEF CellIndex
  <2> QED BY <2>1
<1> QED BY <1>2, <1>3

\* The outer heights follow a value that is outside of them.
LEMMA StretchedInOrder ==
    ASSUME NEW h \in [Markers -> Int], NEW lo \in Int, NEW hi \in Int, InOrder(h, lo, hi),
           NEW value \in Int, lo <= hi
    PROVE  /\ Stretched(h, value) \in [Markers -> Int]
           /\ InOrder(Stretched(h, value), IF value < lo THEN value ELSE lo,
                                           IF value > hi THEN value ELSE hi)
<1> DEFINE g == Stretched(h, value)
<1>1. /\ h[0] \in Int /\ h[1] \in Int /\ h[2] \in Int /\ h[3] \in Int /\ h[4] \in Int
      /\ h[0] = lo /\ h[4] = hi /\ h[0] <= h[1] /\ h[1] <= h[2] /\ h[2] <= h[3] /\ h[3] <= h[4]
  BY MarkerNumbers, InOrderIs
<1>2. /\ g[0] = IF value < h[0] THEN value ELSE h[0]
      /\ g[1] = h[1] /\ g[2] = h[2] /\ g[3] = h[3]
      /\ g[4] = IF value >= h[4] THEN value ELSE h[4]
  BY MarkerNumbers DEF Stretched
<1>3. g \in [Markers -> Int]
  BY DEF Stretched
<1> HIDE DEF g
<1>4. /\ g[0] = IF value < lo THEN value ELSE lo
      /\ g[4] = IF value > hi THEN value ELSE hi
      /\ g[0] <= g[1] /\ g[1] <= g[2] /\ g[2] <= g[3] /\ g[3] <= g[4]
  BY <1>1, <1>2
<1> QED BY <1>3, <1>4, InOrderIs DEF g

\* A marker moves only where there is room.
LEMMA StepIs ==
    ASSUME NEW pos \in [Markers -> Int], NEW des, NEW m \in 1 .. 3
    PROVE  /\ Step(pos, des, m) \in {-1, 0, 1}
           /\ Step(pos, des, m) = 1 => pos[m + 1] - pos[m] > 1
           /\ Step(pos, des, m) = -1 => pos[m - 1] - pos[m] < -1
BY DEF Step

LEMMA ParabolicType ==
    ASSUME NEW h \in [Markers -> Int], NEW pos \in [Markers -> Int], NEW m \in 1 .. 3,
           NEW d \in {-1, 0, 1}, pos[m - 1] < pos[m], pos[m] < pos[m + 1]
    PROVE  parabolic(h, pos, m, d) \in Int
<1>1. /\ h[m] \in Int /\ h[m - 1] \in Int /\ h[m + 1] \in Int
      /\ pos[m] \in Int /\ pos[m - 1] \in Int /\ pos[m + 1] \in Int /\ d \in Int
  BY MarkerNumbers
<1> DEFINE before == pos[m] - pos[m - 1]
           after == pos[m + 1] - pos[m]
           both == pos[m + 1] - pos[m - 1]
<1>2. before \in Nat \ {0} /\ after \in Nat \ {0} /\ both \in Nat \ {0}
  BY <1>1
<1> DEFINE x1 == (before + d) * (h[m + 1] - h[m])
           x2 == (after - d) * (h[m] - h[m - 1])
<1>3. x1 \in Int /\ x2 \in Int
  BY <1>1, <1>2
<1> HIDE DEF x1, x2, before, after, both
<1> DEFINE t1 == Trunc(x1, after)
           t2 == Trunc(x2, before)
<1>4. t1 \in Int /\ t2 \in Int
  BY <1>2, <1>3, TruncBetween
<1> HIDE DEF t1, t2
<1> DEFINE x3 == d * (t1 + t2)
<1>5. x3 \in Int
  BY <1>1, <1>4
<1> HIDE DEF x3
<1>6. Trunc(x3, both) \in Int
  BY <1>2, <1>5, TruncBetween
<1>7. h[m] + Trunc(x3, both) \in Int
  BY <1>1, <1>6
<1> QED BY <1>7 DEF parabolic, x3, t1, t2, x1, x2, before, after, both

\* Neither the parabola nor the line leads past a neighbour.
LEMMA HeightBetween ==
    ASSUME NEW h \in [Markers -> Int], NEW pos \in [Markers -> Int], NEW m \in 1 .. 3,
           NEW d \in {-1, 0, 1}, pos[m - 1] < pos[m], pos[m] < pos[m + 1],
           h[m - 1] <= h[m], h[m] <= h[m + 1]
    PROVE  /\ Height(h, pos, m, d) \in Int
           /\ h[m - 1] <= Height(h, pos, m, d) /\ Height(h, pos, m, d) <= h[m + 1]
<1>1. /\ h[m] \in Int /\ h[m - 1] \in Int /\ h[m + 1] \in Int
      /\ pos[m] \in Int /\ pos[m - 1] \in Int /\ pos[m + 1] \in Int
  BY MarkerNumbers
<1> DEFINE newq == parabolic(h, pos, m, d)
           l == linear(h, pos, m, d)
<1>2. newq \in Int
  BY ParabolicType
<1>3. CASE d = 0
  BY <1>1, <1>3 DEF Height
<1>4. ASSUME d # 0 PROVE l \in Int /\ h[m - 1] <= l /\ l <= h[m + 1]
  <2>1. CASE d = 1
    <3> DEFINE gap == h[m + 1] - h[m]
               n == pos[m + 1] - pos[m]
               t == Trunc(gap, n)
    <3>1. gap \in Int /\ gap >= 0 /\ n \in Nat \ {0} /\ 1 * n = n
      BY <1>1
    <3>2. l = h[m] + t
      BY <2>1, <3>1 DEF linear
    <3> HIDE DEF gap, n
    <3>3. t \in Int /\ 0 <= t /\ t <= gap
      BY <3>1, TruncBetween
    <3> HIDE DEF t, l
    <3>4. gap = h[m + 1] - h[m]
      BY DEF gap
    <3> QED BY <1>1, <3>2, <3>3, <3>4
  <2>2. CASE d = -1
    <3> DEFINE gap == h[m - 1] - h[m]
               n == pos[m] - pos[m - 1]
               t == Trunc(gap, n)
    <3>1. gap \in Int /\ gap <= 0 /\ n \in Nat \ {0}
          /\ (-1) * (pos[m - 1] - pos[m]) = n /\ m + (-1) = m - 1
      BY <1>1
    <3>2. l = h[m] + t
      BY <2>2, <3>1 DEF linear
    <3> HIDE DEF gap, n
    <3>3. t \in Int /\ gap <= t /\ t <= 0
      BY <3>1, TruncBetween
    <3> HIDE DEF t, l
    <3>4. gap = h[m - 1] - h[m]
      BY DEF gap
    <3> QED BY <1>1, <3>2, <3>3, <3>4
  <2> QED BY <1>4, <2>1, <2>2
<1>5. CASE d # 0
  <2>1. Height(h, pos, m, d) = IF h[m - 1] < newq /\ newq < h[m + 1] THEN newq ELSE l
    BY <1>5 DEF Height
  <2> HIDE DEF newq, l
  <2> QED BY <1>1, <1>2, <1>4, <1>5, <2>1
<1> QED BY <1>3, <1>5

\* Heights and places as they have to be, from lo to hi and up to n.
Proper(s, n, lo, hi) ==
    /\ s = [h |-> s.h, pos |-> s.pos]
    /\ s.h \in [Markers -> Int] /\ s.pos \in [Markers -> Int]
    /\ Apart(s.pos, n) /\ InOrder(s.h, lo, hi)

\* Every single move keeps them so, also of a marker whose neighbour has just
\* been moved.
LEMMA AdjustIs ==
    ASSUME NEW s, NEW des, NEW m \in 1 .. 3, NEW n \in Int, NEW lo \in Int, NEW hi \in Int,
           Proper(s, n, lo, hi)
    PROVE  Proper(Adjust(s, des, m), n, lo, hi)
<1> DEFINE h == s.h
           pos == s.pos
<1>0. /\ h \in [Markers -> Int] /\ pos \in [Markers -> Int]
      /\ Apart(pos, n) /\ InOrder(h, lo, hi)
  BY DEF Proper
<1> DEFINE d == Step(pos, des, m)
           q == Height(h, pos, m, d)
           h2 == [h EXCEPT ![m] = q]
           pos2 == [pos EXCEPT ![m] = @ + d]
<1>1. Adjust(s, des, m) = [h |-> h2, pos |-> pos2]
  BY DEF Adjust
<1> HIDE DEF h, pos
<1>2. /\ d \in {-1, 0, 1}
      /\ d = 1 => pos[m + 1] - pos[m] > 1
      /\ d = -1 => pos[m - 1] - pos[m] < -1
  BY <1>0, StepIs
<1>3. /\ h[0] \in Int /\ h[1] \in Int /\ h[2] \in Int /\ h[3] \in Int /\ h[4] \in Int
      /\ pos[0] \in Int /\ pos[1] \in Int /\ pos[2] \in Int /\ pos[3] \in Int /\ pos[4] \in Int
  BY <1>0, MarkerNumbers
<1>4. /\ h[0] = lo /\ h[4] = hi /\ h[0] <= h[1] /\ h[1] <= h[2] /\ h[2] <= h[3] /\ h[3] <= h[4]
      /\ pos[0] = 1 /\ pos[4] = n
      /\ pos[0] < pos[1] /\ pos[1] < pos[2] /\ pos[2] < pos[3] /\ pos[3] < pos[4]
  BY <1>0, InOrderIs, ApartIs
<1>5. \/ m = 1 /\ m - 1 = 0 /\ m + 1 = 2
      \/ m = 2 /\ m - 1 = 1 /\ m + 1 = 3
      \/ m = 3 /\ m - 1 = 2 /\ m + 1 = 4
  OBVIOUS
<1>6. q \in Int /\ h[m - 1] <= q /\ q <= h[m + 1]
  <2>1. pos[m - 1] < pos[m] /\ pos[m] < pos[m + 1] /\ h[m - 1] <= h[m] /\ h[m] <= h[m + 1]
    BY <1>4, <1>5
  <2> HIDE DEF d
  <2> QED BY <1>0, <1>2, <2>1, HeightBetween
<1> HIDE DEF d, q
<1>7. /\ h2 \in [Markers -> Int] /\ h2[m] = q
      /\ \A k \in Markers : k # m => h2[k] = h[k]
  BY <1>0, <1>6, MarkerNumbers
<1>8. /\ pos2 \in [Markers -> Int] /\ pos2[m] = pos[m] + d
      /\ \A k \in Markers : k # m => pos2[k] = pos[k]
  BY <1>0, <1>2, <1>3, MarkerNumbers
<1> HIDE DEF h2, pos2
<1>9. InOrder(h2, lo, hi)
  <2>1. h2[0] = lo /\ h2[4] = hi
        /\ h2[0] <= h2[1] /\ h2[1] <= h2[2] /\ h2[2] <= h2[3] /\ h2[3] <= h2[4]
    BY <1>3, <1>4, <1>5, <1>6, <1>7, MarkerNumbers
  <2> QED BY <2>1, InOrderIs
<1>10. Apart(pos2, n)
  <2>1. pos2[0] = 1 /\ pos2[4] = n
        /\ pos2[0] < pos2[1] /\ pos2[1] < pos2[2] /\ pos2[2] < pos2[3] /\ pos2[3] < pos2[4]
    BY <1>2, <1>3, <1>4, <1>5, <1>8, MarkerNumbers
  <2> QED BY <2>1, ApartIs
<1> QED BY <1>1, <1>7, <1>8, <1>9, <1>10 DEF Proper

LEMMA IncrsType == incrs \in [Markers -> Int]
<1>1. \A m \in Markers : incrs[m] \in Int
  <2> DEFINE seq == <<0, QN, 2 * QN, QD + QN, 2 * QD>>
  <2>1. seq[0 + 1] \in Int /\ seq[1 + 1] \in Int /\ seq[2 + 1] \in Int
        /\ seq[3 + 1] \in Int /\ seq[4 + 1] \in Int
    BY Numbers
  <2>2. \A m \in Markers : incrs[m] = seq[m + 1]
    BY DEF incrs
  <2> HIDE DEF seq
  <2> QED BY <2>1, <2>2, MarkerNumbers
<1> QED BY <1>1 DEF incrs

\* One more sample for five markers.
LEMMA RunIs ==
    ASSUME NEW e \in Estims, e.count = 5, NEW n \in Int, NEW lo \in Int, NEW hi \in Int,
           Apart(e.positions, n), InOrder(e.heights, lo, hi), NEW value \in Int,
           NEW r, r = run_algorithm(e, value)
    PROVE  /\ r \in Estims /\ r.count = 5 /\ Apart(r.positions, n + 1)
           /\ InOrder(r.heights, IF value < lo THEN value ELSE lo,
                                 IF value > hi THEN value ELSE hi)
<1> DEFINE cell == CellIndex(e.heights, value)
           des == [m \in Markers |-> e.des_positions[m] + incrs[m]]
           h == Stretched(e.heights, value)
           pos == [m \in Markers |-> IF m >= cell THEN e.positions[m] + 1
                                                  ELSE e.positions[m]]
           s == [h |-> h, pos |-> pos]
           a1 == Adjust(s, des, 1)
           a2 == Adjust(a1, des, 2)
           a3 == Adjust(a2, des, 3)
           lo2 == IF value < lo THEN value ELSE lo
           hi2 == IF value > hi THEN value ELSE hi
           n2 == n + 1
<1>1. r = [count |-> e.count, positions |-> a3.pos, heights |-> a3.h, des_positions |-> des]
  BY DEF run_algorithm
<1>2. /\ e.heights \in [Markers -> Int] /\ e.positions \in [Markers -> Int]
      /\ e.des_positions \in [Markers -> Int]
  BY DEF Estims
<1>3. cell \in 1 .. 4
  BY <1>2, CellExists
<1>4. des \in [Markers -> Int]
  BY <1>2, IncrsType
<1>5. lo <= hi /\ lo2 \in Int /\ hi2 \in Int /\ n2 \in Int
  <2>1. e.heights[0] = lo /\ e.heights[4] = hi
        /\ e.heights[1] \in Int /\ e.heights[2] \in Int /\ e.heights[3] \in Int
        /\ lo <= e.heights[1] /\ e.heights[1] <= e.heights[2]
        /\ e.heights[2] <= e.heights[3] /\ e.heights[3] <= hi
    BY <1>2, InOrderIs, MarkerNumbers
  <2> QED BY <2>1
<1>6. h \in [Markers -> Int] /\ InOrder(h, lo2, hi2)
  <2> HIDE DEF h
  <2> QED BY <1>2, <1>5, StretchedInOrder DEF h
<1>7. pos \in [Markers -> Int] /\ Apart(pos, n2)
  <2> DEFINE p == e.positions
  <2> HIDE DEF cell
  <2>1. /\ p[0] \in Int /\ p[1] \in Int /\ p[2] \in Int /\ p[3] \in Int /\ p[4] \in Int
        /\ p[0] = 1 /\ p[4] = n
        /\ p[0] < p[1] /\ p[1] < p[2] /\ p[2] < p[3] /\ p[3] < p[4]
    BY <1>2, ApartIs, MarkerNumbers
  <2>2. pos \in [Markers -> Int]
    BY <1>2
  <2>3. \A m \in Markers : pos[m] = IF m >= cell THEN p[m] + 1 ELSE p[m]
    OBVIOUS
  <2> HIDE DEF p, pos
  <2>4. /\ pos[0] = p[0] /\ pos[4] = p[4] + 1
        /\ pos[1] = IF 1 >= cell THEN p[1] + 1 ELSE p[1]
        /\ pos[2] = IF 2 >= cell THEN p[2] + 1 ELSE p[2]
        /\ pos[3] = IF 3 >= cell THEN p[3] + 1 ELSE p[3]
    BY <1>3, <2>3, MarkerNumbers
  <2>5. pos[0] = 1 /\ pos[4] = n2
        /\ pos[0] < pos[1] /\ pos[1] < pos[2] /\ pos[2] < pos[3] /\ pos[3] < pos[4]
    BY <1>3, <2>1, <2>4
  <2> QED BY <2>2, <2>5, ApartIs
<1> HIDE DEF h, pos, des, lo2, hi2, n2, cell
<1>8. Proper(s, n2, lo2, hi2)
  BY <1>6, <1>7 DEF Proper
<1> HIDE DEF s
<1>9. 1 \in 1 .. 3 /\ 2 \in 1 .. 3 /\ 3 \in 1 .. 3
  OBVIOUS
<1>10. Proper(a3, n2, lo2, hi2)
  <2>1. Proper(a1, n2, lo2, hi2)
    BY <1>5, <1>8, <1>9, AdjustIs
  <2> HIDE DEF a1
  <2>2. Proper(a2, n2, lo2, hi2)
    BY <1>5, <1>9, <2>1, AdjustIs
  <2> HIDE DEF a2
  <2> QED BY <1>5, <1>9, <2>2, AdjustIs
<1> HIDE DEF a3
<1>11. r \in Estims
  BY <1>1, <1>4, <1>10 DEF Estims, Proper
<1> QED BY <1>1, <1>10, <1>11 DEF Proper, lo2, hi2, n2

-------------------------------------------------------------------------------
(* estim_add_sample() and estim_get_quantile() *)

LEMMA EmptyOK == estim_init \in Estims /\ EstimOK(estim_init, 0, 0, 0)
<1> DEFINE des == [m \in Markers |-> 4 * incrs[m] + ONE]
<1>1. des \in [Markers -> Int]
  <2>1. \A m \in Markers : incrs[m] \in Int
    BY IncrsType
  <2>2. ONE \in Int
    BY Numbers DEF ONE
  <2> QED BY <2>1, <2>2
<1>2. /\ estim_init.count = 0 /\ estim_init.heights = [m \in Markers |-> 0]
      /\ estim_init = [count |-> 0, positions |-> [m \in Markers |-> 0],
                       heights |-> [m \in Markers |-> 0], des_positions |-> des]
  BY DEF estim_init
<1> HIDE DEF des
<1>3. estim_init \in Estims
  <2>1. [m \in Markers |-> 0] \in [Markers -> Int]
    OBVIOUS
  <2> QED BY <1>1, <1>2, <2>1 DEF Estims
<1>4. FewInv(estim_init, 0, 0)
  <2>1. \A m \in 0 .. 4 : m \in Markers
    BY DEF Markers
  <2>2. \A f : Spans(f, 0, 0, 0)
    BY DEF Spans
  <2> QED BY <1>2, <2>1, <2>2 DEF FewInv
<1> QED BY <1>2, <1>3, <1>4 DEF EstimOK

\* A slot is filled: the sample is among the first, and maybe the least or the
\* greatest of them.
LEMMA FilledIs ==
    ASSUME NEW e, NEW n \in 0 .. 4, NEW lo \in Int, NEW hi \in Int, EstimOK(e, n, lo, hi),
           NEW value \in Int, n = 0 => hi <= value,
           NEW lo2, lo2 = IF n = 0 \/ value < lo THEN value ELSE lo,
           NEW hi2, hi2 = IF value > hi THEN value ELSE hi
    PROVE  /\ Filled(e, value) \in Estims /\ Filled(e, value).count = n + 1
           /\ \A m \in n + 1 .. 4 : Filled(e, value).heights[m] = 0
           /\ Spans(Filled(e, value).heights, n + 1, lo2, hi2)
<1> DEFINE f == e.heights
           g == [f EXCEPT ![n] = value]
<1>1. /\ e \in Estims /\ e.count = n /\ \A m \in n .. 4 : f[m] = 0
      /\ Spans(f, n, lo, hi)
  BY DEF EstimOK, FewInv
<1>2. Filled(e, value) = [e EXCEPT !.heights = g, !.count = n + 1]
  BY <1>1 DEF Filled, Estims
<1>3. f \in [Markers -> Int]
  BY <1>1 DEF Estims
<1>4. /\ g \in [Markers -> Int] /\ g[n] = value
      /\ \A m \in Markers : m # n => g[m] = f[m]
  <2> HIDE DEF f
  <2>1. n \in Markers
    BY DEF Markers
  <2>2. g = [k \in Markers |-> IF k = n THEN value ELSE f[k]]
    BY <1>3
  <2>3. \A k \in Markers : f[k] \in Int
    BY <1>3
  <2> HIDE DEF g
  <2>4. g \in [Markers -> Int]
    BY <2>2, <2>3
  <2> QED BY <2>1, <2>2, <2>4
<1>5. /\ Filled(e, value) \in Estims /\ Filled(e, value).count = n + 1
      /\ Filled(e, value).heights = g
  <2> HIDE DEF g
  <2>1. Filled(e, value) = [count |-> n + 1, positions |-> e.positions,
                            heights |-> g, des_positions |-> e.des_positions]
    BY <1>1, <1>2 DEF Estims
  <2>2. /\ n + 1 \in 0 .. 5 /\ e.positions \in [Markers -> Int]
        /\ e.des_positions \in [Markers -> Int]
    BY <1>1 DEF Estims
  <2> QED BY <1>4, <2>1, <2>2 DEF Estims
<1> HIDE DEF f, g
<1>6. \A m \in n + 1 .. 4 : g[m] = 0
  <2>1. \A m \in n + 1 .. 4 : m \in n .. 4 /\ m # n /\ m \in Markers
    BY DEF Markers
  <2> QED BY <1>1, <1>4, <2>1
<1>7. /\ \A m \in 0 .. n - 1 : /\ m \in Markers /\ m # n /\ m \in 0 .. (n + 1) - 1
                               /\ f[m] \in Int /\ lo <= f[m] /\ f[m] <= hi /\ g[m] = f[m]
      /\ \A m \in 0 .. (n + 1) - 1 : m = n \/ m \in 0 .. n - 1
      /\ n \in 0 .. (n + 1) - 1
  BY <1>1, <1>3, <1>4 DEF Spans, Markers
<1>8. lo2 <= value /\ value <= hi2 /\ hi <= hi2 /\ (n = 0 \/ lo2 <= lo)
      /\ lo2 \in Int /\ hi2 \in Int
  OBVIOUS
<1>9. Spans(g, n + 1, lo2, hi2)
  <2>1. \A m \in 0 .. (n + 1) - 1 : lo2 <= g[m] /\ g[m] <= hi2
    <3> SUFFICES ASSUME NEW m \in 0 .. (n + 1) - 1 PROVE lo2 <= g[m] /\ g[m] <= hi2
      OBVIOUS
    <3>1. CASE m = n
      BY <1>4, <1>8, <3>1
    <3>2. CASE m \in 0 .. n - 1
      <4>1. n # 0
        BY <3>2
      <4> QED BY <1>7, <1>8, <3>2, <4>1
    <3> QED BY <1>7, <3>1, <3>2
  <2>2. CASE n = 0
    <3>1. lo2 = value /\ hi2 = value
      BY <2>2
    <3> QED BY <1>4, <1>7, <2>1, <3>1 DEF Spans
  <2>3. CASE n # 0
    <3>1. /\ \E m \in 0 .. n - 1 : f[m] = lo
          /\ \E m \in 0 .. n - 1 : f[m] = hi
      BY <1>1, <2>3 DEF Spans
    <3>2. /\ \E m \in 0 .. (n + 1) - 1 : g[m] = lo
          /\ \E m \in 0 .. (n + 1) - 1 : g[m] = hi
      BY <1>7, <3>1
    <3>3. (lo2 = lo \/ lo2 = value) /\ (hi2 = hi \/ hi2 = value)
      OBVIOUS
    <3> QED BY <1>4, <1>7, <2>1, <3>2, <3>3 DEF Spans
  <2> QED BY <2>2, <2>3
<1> QED BY <1>5, <1>6, <1>9

\* The fifth sample sorts them and gives the markers their places.
LEMMA AddIs ==
    ASSUME NEW e, NEW n \in Nat, NEW lo \in Int, NEW hi \in Int, EstimOK(e, n, lo, hi),
           NEW value \in Int, n = 0 => hi <= value,
           NEW lo2, lo2 = IF n = 0 \/ value < lo THEN value ELSE lo,
           NEW hi2, hi2 = IF value > hi THEN value ELSE hi
    PROVE  EstimOK(estim_add_sample(e, value), n + 1, lo2, hi2)
<1> DEFINE F == Filled(e, value)
<1>1. e \in Estims /\ e.count = IF n < 5 THEN n ELSE 5
  BY DEF EstimOK
<1>2. ASSUME n < 5
      PROVE  /\ F \in Estims /\ F.count = n + 1
             /\ \A m \in n + 1 .. 4 : F.heights[m] = 0
             /\ Spans(F.heights, n + 1, lo2, hi2)
  <2>1. n \in 0 .. 4
    BY <1>2
  <2> QED BY <2>1, FilledIs
<1>3. CASE n < 4
  <2>1. estim_add_sample(e, value) = F
    BY <1>1, <1>3 DEF estim_add_sample
  <2> HIDE DEF F
  <2> QED BY <1>2, <1>3, <2>1 DEF EstimOK, FewInv
<1>4. CASE n = 4
  <2> DEFINE g == insertion_sort(F.heights, 5)
             pos == [m \in Markers |-> m + 1]
             r == estim_add_sample(e, value)
  <2>1. r = [F EXCEPT !.heights = g, !.positions = pos]
    BY <1>1, <1>4 DEF estim_add_sample
  <2> HIDE DEF F
  <2>2. /\ F \in Estims /\ F.count = 5 /\ F.heights \in [Markers -> Int]
        /\ Spans(F.heights, 5, lo2, hi2)
    BY <1>2, <1>4 DEF Estims
  <2>3. lo2 \in Int /\ hi2 \in Int /\ 5 \in 1 .. 5
    OBVIOUS
  <2>4. /\ g \in [Markers -> Int] /\ \A m, l \in 0 .. 5 - 1 : m < l => g[m] <= g[l]
        /\ g[0] = lo2 /\ g[5 - 1] = hi2
    <3> DEFINE f == F.heights
    <3> HIDE DEF f
    <3> QED BY <2>2, <2>3, SortIs, SortSpans DEF f
  <2>5. pos \in [Markers -> Int] /\ Apart(pos, 5)
    <3>1. pos \in [Markers -> Int] /\ \A m \in Markers : pos[m] = m + 1
      BY DEF Markers
    <3> HIDE DEF pos
    <3>2. pos[0] = 1 /\ pos[1] = 2 /\ pos[2] = 3 /\ pos[3] = 4 /\ pos[4] = 5
      BY <3>1, MarkerNumbers
    <3> QED BY <3>1, <3>2, ApartIs
  <2> HIDE DEF g, pos
  <2>6. InOrder(g, lo2, hi2)
    <3>1. /\ 5 - 1 = 4 /\ 0 \in 0 .. 5 - 1 /\ 1 \in 0 .. 5 - 1 /\ 2 \in 0 .. 5 - 1
          /\ 3 \in 0 .. 5 - 1 /\ 4 \in 0 .. 5 - 1 /\ 0 < 1 /\ 1 < 2 /\ 2 < 3 /\ 3 < 4
      OBVIOUS
    <3> QED BY <2>4, <3>1, InOrderIs
  <2>7. r \in Estims /\ r.count = 5 /\ r.heights = g /\ r.positions = pos
    <3> HIDE DEF r
    <3> QED BY <2>1, <2>2, <2>4, <2>5 DEF Estims
  <2> HIDE DEF r
  <2>8. EstimOK(r, 5, lo2, hi2)
    BY <2>5, <2>6, <2>7 DEF EstimOK, FewInv
  <2> QED BY <1>4, <2>8 DEF r
<1>5. CASE n > 4
  <2> DEFINE r == estim_add_sample(e, value)
  <2>1. r = run_algorithm(e, value) /\ e.count = 5
    BY <1>1, <1>5 DEF estim_add_sample
  <2>2. Apart(e.positions, n) /\ InOrder(e.heights, lo, hi)
    BY <2>1 DEF EstimOK
  <2> HIDE DEF r
  <2>3. /\ r \in Estims /\ r.count = 5 /\ Apart(r.positions, n + 1)
        /\ InOrder(r.heights, IF value < lo THEN value ELSE lo,
                              IF value > hi THEN value ELSE hi)
    BY <1>1, <2>1, <2>2, RunIs
  <2>4. InOrder(r.heights, lo2, hi2)
    <3>1. lo2 = IF value < lo THEN value ELSE lo
      BY <1>5
    <3> QED BY <2>3, <3>1
  <2>5. EstimOK(r, n + 1, lo2, hi2)
    BY <1>5, <2>3, <2>4 DEF EstimOK, FewInv
  <2> QED BY <2>5 DEF r
<1> QED BY <1>3, <1>4, <1>5

\* Sorting the first few samples changes nothing of what the estimator stands for.
LEMMA SettledIs ==
    ASSUME NEW e, NEW n \in Nat \ {0}, NEW lo \in Int, NEW hi \in Int, EstimOK(e, n, lo, hi)
    PROVE  EstimOK(Settled(e), n, lo, hi)
<1>1. e \in Estims /\ e.count = IF n < 5 THEN n ELSE 5
  BY DEF EstimOK
<1>2. CASE n < 5
  <2> DEFINE f == e.heights
             g == insertion_sort(f, n)
             s == Settled(e)
  <2>1. s = [e EXCEPT !.heights = g]
    BY <1>1, <1>2 DEF Settled
  <2>2. /\ f \in [Markers -> Int] /\ Spans(f, n, lo, hi)
        /\ \A m \in n .. 4 : f[m] = 0
    BY <1>1, <1>2 DEF Estims, EstimOK, FewInv
  <2>3. n \in 1 .. 5
    BY <1>2
  <2> HIDE DEF f
  <2>4. g \in [Markers -> Int] /\ \A m \in n .. 4 : g[m] = f[m]
    BY <2>2, <2>3, SortIs
  <2>5. Spans(g, n, lo, hi)
    BY <2>2, <2>3, SortSpans
  <2> HIDE DEF g, s
  <2>6. s \in Estims /\ s.count = n /\ s.heights = g
    BY <1>1, <1>2, <2>1, <2>4 DEF Estims
  <2> QED BY <1>2, <2>2, <2>4, <2>5, <2>6 DEF EstimOK, FewInv, s
<1>3. CASE ~(n < 5)
  <2>1. Settled(e) = e
    BY <1>1, <1>3 DEF Settled
  <2> QED BY <2>1
<1> QED BY <1>2, <1>3

\* With one sample the slot behind it is taken, with more never the slot behind
\* them.
LEMMA FewIn ==
    ASSUME NEW n \in 1 .. 4
    PROVE  /\ n = 1 => ClosestOfFew(n) = 1
           /\ n > 1 => ClosestOfFew(n) \in 0 .. n - 1
BY DEF ClosestOfFew

LEMMA FiveIn == ClosestOfFive \in 1 .. 3
<1> DEFINE off(m) == Abs(incrs[m] - incrs[2])
           P(m) == \A k \in 1 .. 3 : off(m) < off(k) \/ (off(m) = off(k) /\ m <= k)
<1>1. off(1) \in Int /\ off(2) \in Int /\ off(3) \in Int
  <2>1. incrs[1] \in Int /\ incrs[2] \in Int /\ incrs[3] \in Int
    BY IncrsType, MarkerNumbers
  <2> QED BY <2>1 DEF Abs
<1>2. \A k \in 1 .. 3 : k = 1 \/ k = 2 \/ k = 3
  OBVIOUS
<1>3. ClosestOfFive = CHOOSE m \in 1 .. 3 : P(m)
  BY Zenon DEF ClosestOfFive
<1> HIDE DEF off
<1>4. 1 \in 1 .. 3 /\ 2 \in 1 .. 3 /\ 3 \in 1 .. 3
  OBVIOUS
<1>5. P(1) \/ P(2) \/ P(3)
  <2>1. P(1) <=> off(1) <= off(2) /\ off(1) <= off(3)
    BY <1>1, <1>2, <1>4
  <2>2. P(2) <=> off(2) < off(1) /\ off(2) <= off(3)
    BY <1>1, <1>2, <1>4
  <2>3. P(3) <=> off(3) < off(1) /\ off(3) < off(2)
    BY <1>1, <1>2, <1>4
  <2> QED BY <1>1, <2>1, <2>2, <2>3
<1> HIDE DEF P
<1> QED BY <1>3, <1>4, <1>5, Zenon

\* Of one sample the result is 0; of more it lies between the least and the
\* greatest.
LEMMA ResultIs ==
    ASSUME NEW e, NEW n \in Nat \ {0}, NEW lo \in Int, NEW hi \in Int, EstimOK(e, n, lo, hi)
    PROVE  /\ n = 1 => result(e) = 0
           /\ n > 1 => result(e) \in Int /\ lo <= result(e) /\ result(e) <= hi
<1> DEFINE s == Settled(e)
           g == s.heights
<1>1. e.count = IF n < 5 THEN n ELSE 5
  BY DEF EstimOK
<1>2. EstimOK(s, n, lo, hi)
  BY SettledIs
<1> HIDE DEF s
<1>3. g \in [Markers -> Int] /\ s.count = e.count
  BY <1>1, <1>2 DEF EstimOK, Estims
<1>4. CASE n < 5
  <2> DEFINE c == ClosestOfFew(n)
  <2>1. result(e) = g[c]
    BY <1>1, <1>4 DEF result, s
  <2>2. (n = 1 => c = 1) /\ (n > 1 => c \in 0 .. n - 1)
    <3>1. n \in 1 .. 4
      BY <1>4
    <3> QED BY <3>1, FewIn
  <2>3. \A m \in n .. 4 : g[m] = 0
    BY <1>1, <1>2, <1>3, <1>4 DEF EstimOK, FewInv
  <2>4. \A m \in 0 .. n - 1 : lo <= g[m] /\ g[m] <= hi
    BY <1>1, <1>2, <1>3, <1>4 DEF EstimOK, FewInv, Spans
  <2> HIDE DEF c, g
  <2>5. n = 1 => 1 \in n .. 4
    OBVIOUS
  <2>6. c \in 0 .. n - 1 => c \in Markers
    BY <1>4 DEF Markers
  <2> QED BY <1>3, <2>1, <2>2, <2>3, <2>4, <2>5, <2>6
<1>5. CASE ~(n < 5)
  <2>1. result(e) = g[ClosestOfFive] /\ n > 1
    BY <1>1, <1>5 DEF result, s
  <2>2. InOrder(g, lo, hi)
    BY <1>1, <1>2, <1>3, <1>5 DEF EstimOK
  <2> HIDE DEF g
  <2>3. ClosestOfFive = 1 \/ ClosestOfFive = 2 \/ ClosestOfFive = 3
    BY FiveIn
  <2>4. /\ g[0] = lo /\ g[4] = hi /\ g[1] \in Int /\ g[2] \in Int /\ g[3] \in Int
        /\ lo <= g[1] /\ g[1] <= g[2] /\ g[2] <= g[3] /\ g[3] <= hi
    BY <1>3, <2>2, InOrderIs, MarkerNumbers
  <2>5. \A m \in 1 .. 3 : g[m] \in Int /\ lo <= g[m] /\ g[m] <= hi
    <3>1. \A m \in 1 .. 3 : m = 1 \/ m = 2 \/ m = 3
      OBVIOUS
    <3> QED BY <2>4, <3>1
  <2> QED BY <2>1, <2>5, FiveIn
<1> QED BY <1>4, <1>5

-------------------------------------------------------------------------------
(* The steps of the workers *)

LEMMA Scaled ==
    /\ \A a \in Nat : a * SCALE \in Nat
    /\ \A a, b \in Nat : a < b <=> a * SCALE < b * SCALE
<1>1. \A a \in Nat : a * SCALE \in Nat
  BY Numbers
<1>2. ASSUME NEW a \in Nat, NEW b \in Nat PROVE a < b <=> a * SCALE < b * SCALE
  <2>1. CASE a < b
    <3> DEFINE k == b - a
    <3>1. k \in Nat \ {0} /\ b = a + k
      BY <2>1
    <3> HIDE DEF k
    <3>2. b * SCALE = a * SCALE + k * SCALE /\ k * SCALE \in Nat \ {0}
      BY <3>1, Numbers
    <3> QED BY <1>1, <2>1, <3>2
  <2>2. CASE ~(a < b)
    <3> DEFINE k == a - b
    <3>1. k \in Nat /\ a = b + k
      BY <2>2
    <3> HIDE DEF k
    <3>2. a * SCALE = b * SCALE + k * SCALE /\ k * SCALE \in Nat
      BY <3>1, Numbers
    <3> QED BY <1>1, <2>2, <3>2
  <2> QED BY <2>1, <2>2
<1> QED BY <1>1, <1>2

LEMMA EstimInitInv == EstimInit => EstimInv
<1> SUFFICES ASSUME EstimInit PROVE EstimInv
  OBVIOUS
<1>1. /\ est \in [Worker -> Estims] /\ i \in [Worker -> Nat] /\ samples \in [Worker -> Nat]
      /\ low \in [Worker -> Nat] /\ high \in [Worker -> Nat]
  BY EmptyOK DEF EstimInit
<1>2. ASSUME NEW w \in Worker PROVE WorkerInv(w)
  <2>1. est[w] = estim_init /\ i[w] = 0 /\ samples[w] = 0 /\ low[w] = 0 /\ high[w] = 0
    BY DEF EstimInit
  <2>2. 0 * SCALE = 0
    BY Numbers
  <2> QED BY <2>1, <2>2, EmptyOK DEF WorkerInv
<1>3. WriterInv
  BY DEF EstimInit, WriterInv, EstimateAmongSamples
<1> QED BY <1>1, <1>2, <1>3 DEF EstimInv

LEMMA DismissedInv == ASSUME NEW w \in Worker PROVE EstimInv /\ Dismissed(w) => EstimInv'
<1> SUFFICES ASSUME EstimInv, Dismissed(w) PROVE EstimInv'
  OBVIOUS
<1>1. /\ UNCHANGED <<est, comp_time_perc_us, samples, low, high, writer>>
      /\ i' = [i EXCEPT ![w] = @ + 1]
  BY DEF Dismissed, Pulls
<1>2. i \in [Worker -> Nat] /\ i' \in [Worker -> Nat] /\ \A v \in Worker : i'[v] >= i[v]
  BY <1>1 DEF EstimInv
<1>3. ASSUME NEW v \in Worker PROVE WorkerInv(v)'
  <2>1. WorkerInv(v) /\ i[v] \in Nat /\ i'[v] \in Nat /\ i'[v] >= i[v]
    BY <1>2 DEF EstimInv
  <2>2. samples[v] <= i'[v]
    BY <2>1 DEF WorkerInv
  <2> QED BY <1>1, <2>1, <2>2 DEF WorkerInv
<1>4. WriterInv'
  <2>1. WriterInv
    BY DEF EstimInv
  <2>2. writer # NONE => /\ i[writer] \in Nat /\ i'[writer] \in Nat /\ i'[writer] >= i[writer]
                         /\ samples[writer] \in Nat
    BY <1>2, <2>1 DEF WriterInv, EstimInv
  <2> QED BY <1>1, <2>1, <2>2 DEF WriterInv, EstimateAmongSamples
<1> QED BY <1>1, <1>2, <1>3, <1>4 DEF EstimInv

LEMMA FinishedInv ==
    ASSUME NEW w \in Worker, NEW C_us \in CompTimes
    PROVE  EstimInv /\ Finished(w, C_us) => EstimInv'
<1> SUFFICES ASSUME EstimInv, Finished(w, C_us) PROVE EstimInv'
  OBVIOUS
<1> DEFINE n == samples[w]
           lo == low[w] * SCALE
           hi == high[w] * SCALE
           value == C_us * SCALE
           lo2 == IF n = 0 \/ value < lo THEN value ELSE lo
           hi2 == IF value > hi THEN value ELSE hi
           added == estim_add_sample(est[w], value)
<1>1. /\ est \in [Worker -> Estims] /\ i \in [Worker -> Nat] /\ samples \in [Worker -> Nat]
      /\ low \in [Worker -> Nat] /\ high \in [Worker -> Nat]
      /\ WorkerInv(w) /\ WriterInv /\ C_us \in Nat
  BY Numbers DEF EstimInv
<1>2. /\ i' = [i EXCEPT ![w] = i[w] + 1]
      /\ samples' = [samples EXCEPT ![w] = n + 1]
      /\ low' = [low EXCEPT ![w] = IF n = 0 \/ C_us < low[w] THEN C_us ELSE low[w]]
      /\ high' = [high EXCEPT ![w] = IF C_us > high[w] THEN C_us ELSE high[w]]
  BY DEF Finished, Pulls, Sampled
<1>3. \/ /\ i[w] > 0 /\ est' = [est EXCEPT ![w] = Settled(added)]
         /\ comp_time_perc_us' = estim_get_quantile(added) /\ writer' = w
      \/ /\ ~(i[w] > 0) /\ est' = [est EXCEPT ![w] = added]
         /\ UNCHANGED <<comp_time_perc_us, writer>>
  BY DEF Finished
<1>4. /\ n \in Nat /\ lo \in Int /\ hi \in Int /\ value \in Int /\ lo2 \in Int /\ hi2 \in Int
      /\ n = 0 => hi <= value
  <2>1. low[w] \in Nat /\ high[w] \in Nat /\ n \in Nat /\ (n = 0 => high[w] = 0)
    BY <1>1 DEF WorkerInv
  <2>2. lo \in Nat /\ hi \in Nat /\ value \in Nat /\ 0 * SCALE = 0
    BY <1>1, <2>1, Numbers, Scaled
  <2> QED BY <2>1, <2>2
<1>5. /\ i' \in [Worker -> Nat] /\ samples' \in [Worker -> Nat]
      /\ low' \in [Worker -> Nat] /\ high' \in [Worker -> Nat]
      /\ i'[w] = i[w] + 1 /\ samples'[w] = n + 1
      /\ low'[w] = IF n = 0 \/ C_us < low[w] THEN C_us ELSE low[w]
      /\ high'[w] = IF C_us > high[w] THEN C_us ELSE high[w]
      /\ \A v \in Worker : v # w => /\ i'[v] = i[v] /\ samples'[v] = samples[v]
                                    /\ low'[v] = low[v] /\ high'[v] = high[v]
  BY <1>1, <1>2
<1>6. low'[w] * SCALE = lo2 /\ high'[w] * SCALE = hi2
  <2>1. low[w] \in Nat /\ high[w] \in Nat /\ C_us \in Nat
    BY <1>1
  <2>2. (C_us < low[w] <=> value < lo) /\ (C_us > high[w] <=> value > hi)
    <3>1. (C_us < low[w] <=> value < lo) /\ (high[w] < C_us <=> hi < value)
      BY <2>1, Scaled
    <3> QED BY <1>4, <2>1, <3>1
  <2> QED BY <1>5, <2>2
<1>7. EstimOK(est[w], n, lo, hi)
  BY <1>1 DEF WorkerInv
<1> HIDE DEF n, lo, hi, value, lo2, hi2
<1>8. EstimOK(added, n + 1, lo2, hi2)
  <2>1. /\ lo2 = IF n = 0 \/ value < lo THEN value ELSE lo
        /\ hi2 = IF value > hi THEN value ELSE hi
    BY DEF lo2, hi2
  <2> QED BY <1>4, <1>7, <2>1, AddIs
<1> HIDE DEF added
<1>9. /\ EstimOK(Settled(added), n + 1, lo2, hi2)
      /\ n + 1 = 1 => result(added) = 0
      /\ n + 1 > 1 => result(added) \in Int /\ lo2 <= result(added) /\ result(added) <= hi2
  <2> DEFINE n1 == n + 1
  <2>1. n1 \in Nat \ {0} /\ EstimOK(added, n1, lo2, hi2)
    BY <1>4, <1>8
  <2> HIDE DEF n1
  <2>2. /\ EstimOK(Settled(added), n1, lo2, hi2)
        /\ n1 = 1 => result(added) = 0
        /\ n1 > 1 => result(added) \in Int /\ lo2 <= result(added) /\ result(added) <= hi2
    BY <1>4, <2>1, SettledIs, ResultIs
  <2> QED BY <2>2 DEF n1
<1>10. est' \in [Worker -> Estims] /\ EstimOK(est'[w], n + 1, lo2, hi2)
       /\ \A v \in Worker : v # w => est'[v] = est[v]
  <2>1. added \in Estims /\ Settled(added) \in Estims
    BY <1>8, <1>9 DEF EstimOK
  <2> QED BY <1>1, <1>3, <1>8, <1>9, <2>1
<1>11. ASSUME NEW v \in Worker PROVE WorkerInv(v)'
  <2>1. WorkerInv(v)
    BY DEF EstimInv
  <2>2. CASE v # w
    BY <1>5, <1>10, <2>1, <2>2 DEF WorkerInv
  <2>3. CASE v = w
    <3>1. n + 1 <= i[w] + 1 /\ n + 1 # 0
      BY <1>1, <1>4 DEF WorkerInv, n
    <3> QED BY <1>5, <1>6, <1>10, <2>3, <3>1 DEF WorkerInv
  <2> QED BY <2>2, <2>3
<1>12. WriterInv'
  <2>1. CASE i[w] > 0
    <3>1. /\ writer' = w /\ comp_time_perc_us' = result(added) \div SCALE
          /\ i'[w] = i[w] + 1 /\ samples'[w] = n + 1 /\ i[w] \in Nat
      BY <1>1, <1>3, <1>5, <2>1 DEF estim_get_quantile
    <3>2. CASE n + 1 > 1
      <4> DEFINE l == low'[w]
                 h == high'[w]
                 y == result(added)
      <4>1. /\ l \in Nat /\ h \in Nat /\ y \in Int /\ SCALE \in Nat \ {0}
            /\ l * SCALE <= y /\ y <= h * SCALE
        BY <1>5, <1>6, <1>9, <3>2, Numbers
      <4> HIDE DEF l, h, y
      <4>2. y \div SCALE \in l .. h
        BY <4>1, CutBetween
      <4>3. comp_time_perc_us' \in low'[w] .. high'[w]
        BY <3>1, <4>2 DEF l, h, y
      <4> QED BY <3>1, <3>2, <4>3 DEF WriterInv, EstimateAmongSamples
    <3>3. CASE ~(n + 1 > 1)
      <4>1. n = 0 /\ result(added) = 0
        BY <1>4, <1>9, <3>3
      <4>2. 0 \div SCALE = 0
        <5>1. 0 \div SCALE \in 0 .. 0
          BY Numbers, QuotientBelow
        <5> QED BY <5>1
      <4> QED BY <2>1, <3>1, <4>1, <4>2 DEF WriterInv, EstimateAmongSamples
    <3> QED BY <3>2, <3>3
  <2>2. CASE ~(i[w] > 0)
    <3>1. UNCHANGED <<comp_time_perc_us, writer>> /\ WriterInv
      BY <1>1, <1>3, <2>2
    <3>2. CASE writer = NONE
      BY <3>1, <3>2 DEF WriterInv, EstimateAmongSamples
    <3>3. CASE writer # NONE
      <4>1. writer \in Worker /\ writer # w
        BY <2>2, <3>1, <3>3 DEF WriterInv
      <4>2. /\ i'[writer] = i[writer] /\ samples'[writer] = samples[writer]
            /\ low'[writer] = low[writer] /\ high'[writer] = high[writer]
        BY <1>5, <4>1
      <4> QED BY <3>1, <3>3, <4>2 DEF WriterInv, EstimateAmongSamples
    <3> QED BY <3>2, <3>3
  <2> QED BY <2>1, <2>2
<1> QED BY <1>5, <1>10, <1>11, <1>12 DEF EstimInv

LEMMA EstimNextInv == EstimInv /\ EstimNext => EstimInv'
BY DismissedInv, FinishedInv DEF EstimNext

-------------------------------------------------------------------------------
(* The options *)

LEMMA Settings == /\ Runtimes \subseteq Nat /\ Periods \subseteq Nat
                  /\ Utils \subseteq Int \X (Nat \ {0}) /\ NAN \notin Int \X Int
                  /\ Percs \subseteq Nat /\ WcetOpts \subseteq Nat
BY StartupAssumption

LEMMA EstimUnchanged ==
    EstimInv /\ Unpulled /\ (comp_time_perc_us' = comp_time_perc_us \/ writer = NONE)
        => EstimInv'
BY DEF EstimInv, WorkerInv, WriterInv, EstimateAmongSamples, Unpulled

LEMMA InitInv == StartupInit => StartupInv
<1> SUFFICES ASSUME StartupInit PROVE StartupInv
  OBVIOUS
<1>1. EstimInv
  BY EstimInitInv DEF StartupInit
<1>2. writer = NONE /\ main = "options" /\ opts.u_tot = NAN
  BY DEF StartupInit, EstimInit
<1>3. opts \in [dl_runtime_us : Nat, dl_period_us : Nat, u_tot : (Int \X Int) \cup {NAN},
                prob_dismiss_wcet_us : Nat, estim_perc : BOOLEAN,
                pop_feasible_jobs : BOOLEAN]
  BY DEF StartupInit
<1> QED BY <1>1, <1>2, <1>3 DEF StartupInv, SettingsInv, ScanHasSettings

\* While options are read nothing is estimated, and a utilization that was given
\* is in range.
LEMMA OptionInv == StartupInv /\ Option => StartupInv'
<1> SUFFICES ASSUME StartupInv, Option PROVE StartupInv'
  OBVIOUS
<1> DEFINE O == [dl_runtime_us : Nat, dl_period_us : Nat, u_tot : (Int \X Int) \cup {NAN},
                 prob_dismiss_wcet_us : Nat, estim_perc : BOOLEAN,
                 pop_feasible_jobs : BOOLEAN]
<1>1. /\ EstimInv /\ main = "options" /\ writer = NONE /\ opts \in O
      /\ opts.u_tot # NAN => InRange(opts.u_tot)
      /\ Unpulled
  BY DEF StartupInv, SettingsInv, Option
<1>2. EstimInv' /\ writer' = NONE
  BY <1>1, EstimUnchanged DEF Unpulled
<1>3. /\ main' \in {"options", "exit"} /\ opts' \in O
      /\ opts'.u_tot # NAN => InRange(opts'.u_tot)
  <2>1. CASE \E v \in Runtimes : opts' = [opts EXCEPT !.dl_runtime_us = v] /\ main' = main
    <3>1. PICK v \in Nat : opts' = [opts EXCEPT !.dl_runtime_us = v] /\ main' = main
      BY <2>1, Settings
    <3>2. opts' \in O /\ opts'.u_tot = opts.u_tot
      BY <1>1, <3>1
    <3> QED BY <1>1, <3>1, <3>2
  <2>2. CASE \E v \in Periods : opts' = [opts EXCEPT !.dl_period_us = v] /\ main' = main
    <3>1. PICK v \in Nat : opts' = [opts EXCEPT !.dl_period_us = v] /\ main' = main
      BY <2>2, Settings
    <3>2. opts' \in O /\ opts'.u_tot = opts.u_tot
      BY <1>1, <3>1
    <3> QED BY <1>1, <3>1, <3>2
  <2>3. CASE \E v \in WcetOpts : opts' = [opts EXCEPT !.prob_dismiss_wcet_us = v] /\ main' = main
    <3>1. PICK v \in Nat : opts' = [opts EXCEPT !.prob_dismiss_wcet_us = v] /\ main' = main
      BY <2>3, Settings
    <3>2. opts' \in O /\ opts'.u_tot = opts.u_tot
      BY <1>1, <3>1
    <3> QED BY <1>1, <3>1, <3>2
  <2>4. CASE opts' = [opts EXCEPT !.estim_perc = TRUE] /\ main' = main
    <3>1. opts' \in O /\ opts'.u_tot = opts.u_tot
      BY <1>1, <2>4
    <3> QED BY <1>1, <2>4, <3>1
  <2>5. CASE \E u \in Utils : InRange(u) /\ opts' = [opts EXCEPT !.u_tot = u] /\ main' = main
    <3>1. PICK u \in Utils : InRange(u) /\ opts' = [opts EXCEPT !.u_tot = u] /\ main' = main
      BY <2>5
    <3>2. u \in Int \X Int
      BY Settings
    <3>3. opts' \in O /\ opts'.u_tot = u
      BY <1>1, <3>1, <3>2
    <3> QED BY <1>1, <3>1, <3>3
  <2>6. CASE main' = "exit" /\ UNCHANGED opts
    BY <1>1, <2>6
  <2>7. CASE \E perc \in Percs : /\ opts' = [opts EXCEPT !.pop_feasible_jobs = @ \/ perc > 0]
                                 /\ main' = main
    <3>1. PICK perc \in Percs : /\ opts' = [opts EXCEPT !.pop_feasible_jobs = @ \/ perc > 0]
                                /\ main' = main
      BY <2>7
    <3> DEFINE b == opts.pop_feasible_jobs \/ perc > 0
    <3>2. b \in BOOLEAN /\ opts' = [opts EXCEPT !.pop_feasible_jobs = b]
      BY <3>1
    <3> HIDE DEF b
    <3>3. opts' \in O /\ opts'.u_tot = opts.u_tot
      BY <1>1, <3>2
    <3> QED BY <1>1, <3>1, <3>3
  <2> QED BY <2>1, <2>2, <2>3, <2>4, <2>5, <2>6, <2>7
          DEF Option, Sets, Utilization, Percentile
<1> HIDE DEF O
<1> QED BY <1>2, <1>3 DEF StartupInv, SettingsInv, ScanHasSettings, O

\* The checks, and the utilization that is filled in: a budget below its period
\* is a utilization in range.
LEMMA StartInv == StartupInv /\ Start => StartupInv'
<1> SUFFICES ASSUME StartupInv, Start PROVE StartupInv'
  OBVIOUS
<1> DEFINE O == [dl_runtime_us : Nat, dl_period_us : Nat, u_tot : (Int \X Int) \cup {NAN},
                 prob_dismiss_wcet_us : Nat, estim_perc : BOOLEAN,
                 pop_feasible_jobs : BOOLEAN]
           u == <<opts.dl_runtime_us, opts.dl_period_us>>
<1>1. /\ EstimInv /\ main = "options" /\ writer = NONE /\ opts \in O
      /\ opts.u_tot # NAN => InRange(opts.u_tot)
      /\ Unpulled /\ UNCHANGED comp_time_perc_us
      /\ opts' = WithUtilization /\ main' = IF Checks THEN "run" ELSE "exit"
  BY DEF StartupInv, SettingsInv, Start
<1>2. EstimInv' /\ writer' = NONE
  BY <1>1, EstimUnchanged DEF Unpulled
<1>3. u \in Int \X Int /\ u # NAN /\ u[1] = opts.dl_runtime_us /\ u[2] = opts.dl_period_us
      /\ opts.dl_runtime_us \in Nat /\ opts.dl_period_us \in Nat
  BY <1>1, Settings
<1> HIDE DEF u
<1>4. /\ opts' = opts /\ (opts.u_tot # NAN \/ opts.dl_period_us = 0)
      \/ opts' = [opts EXCEPT !.u_tot = u]
  BY <1>1 DEF WithUtilization, u
<1>5. /\ opts' \in O
      /\ opts'.dl_runtime_us = opts.dl_runtime_us /\ opts'.dl_period_us = opts.dl_period_us
      /\ opts'.prob_dismiss_wcet_us = opts.prob_dismiss_wcet_us
      /\ opts'.pop_feasible_jobs = opts.pop_feasible_jobs
      /\ \/ opts'.u_tot = opts.u_tot /\ (opts.u_tot # NAN \/ opts.dl_period_us = 0)
         \/ opts'.u_tot = u
  BY <1>1, <1>3, <1>4
<1>6. ScanHasSettings'
  <2> SUFFICES ASSUME main' = "run", opts'.pop_feasible_jobs
               PROVE  /\ Reservation'
                      /\ opts'.u_tot # NAN /\ InRange(opts'.u_tot)
                      /\ \/ opts'.prob_dismiss_wcet_us = 0
                         \/ opts'.prob_dismiss_wcet_us >= comp_time_perc_us'
    BY DEF ScanHasSettings
  <2>1. Checks
    BY <1>1
  <2>2. Reservation /\ opts.dl_runtime_us > 0 /\ opts.dl_runtime_us < opts.dl_period_us
    BY <1>3, <1>5, <2>1 DEF Checks, Reservation
  <2>3. InRange(u)
    BY <1>3, <2>2 DEF InRange
  <2>4. opts'.u_tot # NAN /\ InRange(opts'.u_tot)
    BY <1>1, <1>3, <1>5, <2>2, <2>3
  <2>5. \/ opts.prob_dismiss_wcet_us = 0
        \/ opts.prob_dismiss_wcet_us >= comp_time_perc_us
    BY <2>1 DEF Checks
  <2> QED BY <1>1, <1>5, <2>2, <2>4, <2>5 DEF Reservation
<1>7. main' \in {"run", "exit"}
  BY <1>1
<1> QED BY <1>2, <1>5, <1>6, <1>7 DEF StartupInv, SettingsInv

\* An estimate takes the place of the percentile that was checked, once and for
\* all.
LEMMA EstimateInv == StartupInv /\ Estimate => StartupInv'
<1> SUFFICES ASSUME StartupInv, Estimate PROVE StartupInv'
  OBVIOUS
<1>1. EstimInv /\ SettingsInv /\ main = "run" /\ EstimNext /\ UNCHANGED <<main, opts>>
  BY DEF StartupInv, Estimate
<1>2. EstimInv'
  BY <1>1, EstimNextInv
<1>3. writer' = NONE => writer = NONE /\ comp_time_perc_us' = comp_time_perc_us
  BY <1>1, Numbers DEF EstimNext, Dismissed, Finished
<1> QED BY <1>1, <1>2, <1>3 DEF StartupInv, SettingsInv, ScanHasSettings, Reservation

LEMMA StepInv == StartupInv /\ [StartupNext]_upvars => StartupInv'
<1> SUFFICES ASSUME StartupInv, [StartupNext]_upvars PROVE StartupInv'
  OBVIOUS
<1>1. CASE Option
  BY <1>1, OptionInv
<1>2. CASE Start
  BY <1>2, StartInv
<1>3. CASE Estimate
  BY <1>3, EstimateInv
<1>4. CASE UNCHANGED upvars
  BY <1>4 DEF upvars, evars, StartupInv, EstimInv, WorkerInv, WriterInv,
              EstimateAmongSamples, SettingsInv, ScanHasSettings, Reservation
<1> QED BY <1>1, <1>2, <1>3, <1>4 DEF StartupNext

-------------------------------------------------------------------------------
(* The theorems *)

\* In every execution, for any number of workers and options, every estimator is
\* in a state its samples account for, and the settings are those that were
\* checked (estim.c, rtqueue.c:396-401, 446-557).
THEOREM StartupIsSafe == StartupSpec => []StartupInv
<1>1. StartupInit => StartupInv
  BY InitInv
<1>2. StartupInv /\ [StartupNext]_upvars => StartupInv'
  BY StepInv
<1> QED BY <1>1, <1>2, PTL DEF StartupSpec

\* The markers stay apart, for any quantile and any number of samples:
\* parabolic() and linear() never divide by zero (estim.c:68-88).
THEOREM MarkersStayApart == StartupSpec => []MarkersApart
<1>1. StartupInv => MarkersApart
  <2> SUFFICES ASSUME StartupInv, NEW w \in Worker, est[w].count = 5
               PROVE  /\ est[w].positions[0] = 1 /\ est[w].positions[4] = samples[w]
                      /\ \A m \in 0 .. 3 : est[w].positions[m] < est[w].positions[m + 1]
    BY DEF MarkersApart
  <2>1. Apart(est[w].positions, samples[w])
    BY DEF StartupInv, EstimInv, WorkerInv, EstimOK
  <2> QED BY <2>1 DEF Apart
<1> QED BY <1>1, StartupIsSafe, PTL

\* Their heights stay in order, from the least sample ever to the greatest, for
\* any computation times and any unit (estim.c:52-58, 81-86).
THEOREM HeightsStayInOrder == StartupSpec => []HeightsInOrder
<1>1. StartupInv => HeightsInOrder
  <2> SUFFICES ASSUME StartupInv, NEW w \in Worker, est[w].count = 5
               PROVE  /\ est[w].heights[0] = low[w] * SCALE
                      /\ est[w].heights[4] = high[w] * SCALE
                      /\ \A m \in 0 .. 3 : est[w].heights[m] <= est[w].heights[m + 1]
    BY DEF HeightsInOrder
  <2>1. InOrder(est[w].heights, low[w] * SCALE, high[w] * SCALE)
    BY DEF StartupInv, EstimInv, WorkerInv, EstimOK
  <2> QED BY <2>1 DEF InOrder
<1> QED BY <1>1, StartupIsSafe, PTL

\* The estimate all workers admit jobs by is a time its writer could have
\* measured, or the 0 of a writer with one sample that came after a dismissed job
\* (estim.c:92-112, rtqueue.c:396-401).
THEOREM EstimateIsMeasured == StartupSpec => []EstimateAmongSamples
<1>1. StartupInv => EstimateAmongSamples
  BY DEF StartupInv, EstimInv, WriterInv
<1> QED BY <1>1, StartupIsSafe, PTL

\* The deadline scan never runs without a reservation, a utilization in ]0, 1]
\* and, until there is an estimate, a worst case that is 0 or not below the
\* percentile, in whatever order the options were given (rtqueue.c:446-489,
\* 528-557).
THEOREM ScanIsConfigured == StartupSpec => []ScanHasSettings
<1>1. StartupInv => ScanHasSettings
  BY DEF StartupInv, SettingsInv
<1> QED BY <1>1, StartupIsSafe, PTL

===============================================================================
