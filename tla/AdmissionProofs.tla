---------------------------- MODULE AdmissionProofs ----------------------------
(***************************************************************************)
(* The admission test for every budget, period and utilization, every        *)
(* percentile and worst case, and every order of the reservation's ticks.    *)
(*                                                                         *)
(* What the reservation still owes by the deadline of the job (Owed) says,   *)
(* in whole numbers and for any moment, what budget_to_deadline() computes   *)
(* for the moment of the decision.  A tick in which the worker runs lowers   *)
(* it by one at most, any other tick does not lower it: so what was counted  *)
(* on is there at the deadline.  The old policy never computes a budget; that *)
(* its finish time is early enough only if the percentile is owed by then is *)
(* the lemma FinishMeansOwed.                                                *)
(***************************************************************************)
EXTENDS Admission, TLAPS

LEMMA Sizes == Q \in Nat \ {0} /\ P \in Nat \ {0} /\ Q < P
BY AdmissionAssumption

LEMMA Numbers ==
    /\ Q \in Nat \ {0} /\ P \in Nat \ {0} /\ Q < P
    /\ UN \in Nat /\ UD \in Nat \ {0} /\ UN <= UD /\ UD * Q <= UN * P
    /\ CompTimes \subseteq Nat /\ Wcets \subseteq Nat /\ MaxSlack \in Nat
BY AdmissionAssumption

-------------------------------------------------------------------------------
(* Division *)

LEMMA Division ==
    ASSUME NEW a \in Int, NEW n \in Nat \ {0}
    PROVE  /\ a \div n \in Int /\ (a % n) \in 0 .. n - 1
           /\ a = (a \div n) * n + (a % n)
OBVIOUS

LEMMA Between ==
    ASSUME NEW d \in Int, NEW n \in Nat \ {0}, -n < d * n, d * n < n
    PROVE  d = 0
OBVIOUS

LEMMA Times == \A a, b, n \in Int : (a - b) * n = a * n - b * n
OBVIOUS

LEMMA Order == \A a, b \in Int, n \in Nat : a <= b => a * n <= b * n
OBVIOUS

\* A quotient and a remainder that fit are the quotient and the remainder.
LEMMA Quotient ==
    ASSUME NEW a \in Int, NEW n \in Nat \ {0}, NEW q \in Int, NEW m \in 0 .. n - 1,
           a = q * n + m
    PROVE  a \div n = q /\ a % n = m
<1> DEFINE d == (a \div n) - q
<1>1. /\ a \div n \in Int /\ (a % n) \in 0 .. n - 1
      /\ a = (a \div n) * n + (a % n)
  BY Division
<1>2. (a \div n) * n \in Int /\ q * n \in Int
  BY <1>1
<1>3. d * n = m - (a % n)
  BY <1>1, <1>2, Times
<1>4. d = 0
  BY <1>1, <1>3, Between
<1> QED BY <1>1, <1>2, <1>4

\* The quotient is the greatest multiple that is not above.
LEMMA Floor ==
    ASSUME NEW a \in Int, NEW n \in Nat \ {0}, NEW q \in Int
    PROVE  q <= a \div n <=> q * n <= a
<1>1. /\ a \div n \in Int /\ (a % n) \in 0 .. n - 1
      /\ a = (a \div n) * n + (a % n)
  BY Division
<1>2. (a \div n) * n \in Int /\ q * n \in Int
  BY <1>1
<1>3. ASSUME q <= a \div n PROVE q * n <= a
  BY <1>1, <1>2, <1>3, Order
<1>4. ASSUME ~(q <= a \div n) PROVE ~(q * n <= a)
  <2>1. (a \div n) + 1 <= q /\ (a \div n) + 1 \in Int
    BY <1>1, <1>4
  <2>2. ((a \div n) + 1) * n <= q * n
    BY <2>1, Order
  <2>3. ((a \div n) + 1) * n = (a \div n) * n + n
    BY <1>1
  <2> QED BY <1>1, <1>2, <2>2, <2>3
<1> QED BY <1>3, <1>4

\* One unit more: the remainder grows, or a period is complete.
LEMMA NextUnit ==
    ASSUME NEW y \in Nat, NEW n \in Nat \ {0}
    PROVE  \/ /\ (y + 1) \div n = y \div n
              /\ (y + 1) % n = (y % n) + 1
           \/ /\ (y + 1) \div n = (y \div n) + 1
              /\ (y + 1) % n = 0 /\ (y % n) = n - 1
<1> DEFINE q == y \div n
           m == y % n
           z == y + 1
<1>1. q \in Int /\ m \in 0 .. n - 1 /\ y = q * n + m
  BY Division
<1>2. z \in Int /\ z = y + 1
  OBVIOUS
<1> HIDE DEF q, m, z
<1>3. q * n \in Int /\ (q + 1) * n = q * n + n
  BY <1>1
<1>4. CASE m + 1 < n
  <2> DEFINE k == m + 1
  <2>1. k \in 0 .. n - 1 /\ z = q * n + k
    BY <1>1, <1>2, <1>3, <1>4
  <2> HIDE DEF k
  <2>2. z \div n = q /\ z % n = k
    BY <1>1, <1>2, <2>1, Quotient
  <2> QED BY <2>2 DEF k, q, m, z
<1>5. CASE ~(m + 1 < n)
  <2> DEFINE p == q + 1
  <2>1. m = n - 1 /\ p \in Int /\ z = p * n + 0 /\ 0 \in 0 .. n - 1
    BY <1>1, <1>2, <1>3, <1>5
  <2> HIDE DEF p
  <2>2. z \div n = p /\ z % n = 0
    BY <1>2, <2>1, Quotient
  <2> QED BY <2>1, <2>2 DEF p, q, m, z
<1> QED BY <1>4, <1>5

-------------------------------------------------------------------------------
(* What a budget is worth *)

\* The budget of a period is used no sooner than it can be, and within the period.
LEMMA UsedInPeriod == D \in Q .. P
<1> DEFINE N == UN * P
<1>1. N \in Int /\ Q * UD \in Int /\ Q * UD <= N
  BY Numbers
<1>2. P * UD \in Int /\ N <= P * UD /\ (P + 1) * UD = P * UD + UD
  BY Numbers, Order
<1>3. D = N \div UD
  BY DEF D
<1> HIDE DEF N
<1>4. D \in Int /\ Q <= D
  BY <1>1, <1>3, Numbers, Division, Floor
<1>5. ~(P + 1 <= D)
  <2>1. ~((P + 1) * UD <= N) /\ P + 1 \in Int
    BY <1>1, <1>2, Numbers
  <2> QED BY <1>1, <1>3, <2>1, Numbers, Floor
<1> QED BY <1>4, <1>5, Numbers

\* Of a span that begins, too.
LEMMA UsedInSpan ==
    ASSUME NEW span \in Nat
    PROVE  (UN * span) \div UD \in 0 .. span
<1> DEFINE N == UN * span
<1>1. N \in Int /\ 0 * UD <= N
  BY Numbers
<1>2. span * UD \in Int /\ N <= span * UD /\ (span + 1) * UD = span * UD + UD
  BY Numbers, Order
<1> HIDE DEF N
<1>3. N \div UD \in Int /\ 0 <= N \div UD
  BY <1>1, Numbers, Division, Floor
<1>4. ~(span + 1 <= N \div UD)
  <2>1. ~((span + 1) * UD <= N) /\ span + 1 \in Int
    BY <1>1, <1>2, Numbers
  <2> QED BY <1>1, <2>1, Numbers, Floor
<1> QED BY <1>3, <1>4 DEF N

\* The division of the code, cut towards zero, makes no difference.
LEMMA WorthIsRest ==
    ASSUME NEW b \in Int, NEW span \in Nat, NEW t \in Nat
    PROVE  Worth(b, span, t) = Rest(b, (UN * span) \div UD, t)
<1> DEFINE N == UN * span
           A == N \div UD
           late == N - UD * t
<1>1. N \in Int /\ t * UD \in Int /\ UD * t = t * UD /\ late = N - t * UD /\ late \in Int
  BY Numbers
<1>2. A \in Int /\ (N % UD) \in 0 .. UD - 1 /\ N = A * UD + (N % UD) /\ A * UD \in Int
  <2> HIDE DEF N
  <2> QED BY <1>1, Numbers, Division
<1>3. lmax(0, Trunc(late, UD)) = lmax(0, A - t)
  <2> HIDE DEF N, A, late
  <2>1. CASE late >= 0
    <3>1. late = (A - t) * UD + (N % UD)
      BY <1>1, <1>2, <2>1, Numbers, Times
    <3>2. late \div UD = A - t
      <4> DEFINE q == A - t
                 m == N % UD
      <4>1. q \in Int /\ m \in 0 .. UD - 1 /\ late = q * UD + m
        BY <1>2, <3>1
      <4> HIDE DEF q, m
      <4>2. late \div UD = q
        BY <1>1, <4>1, Numbers, Quotient
      <4> QED BY <4>2 DEF q
    <3> QED BY <2>1, <3>2 DEF Trunc
  <2>2. CASE ~(late >= 0)
    <3>1. ~(t <= A)
      <4>1. ~(t * UD <= N)
        BY <1>1, <2>2
      <4> QED BY <1>1, <4>1, Numbers, Floor DEF A
    <3>2. Trunc(late, UD) = -((-late) \div UD) /\ (-late) \div UD \in Int
          /\ 0 <= (-late) \div UD
      <4> DEFINE l == -late
      <4>1. l \in Int /\ 0 * UD <= l
        BY <1>1, <2>2, Numbers
      <4>2. Trunc(late, UD) = -(l \div UD)
        BY <2>2 DEF Trunc
      <4> HIDE DEF l
      <4>3. l \div UD \in Int /\ 0 <= l \div UD
        BY <4>1, Numbers, Division, Floor
      <4> QED BY <4>2, <4>3 DEF l
    <3> QED BY <1>2, <3>1, <3>2 DEF lmax
  <2> QED BY <2>1, <2>2
<1> QED BY <1>3 DEF Worth, Rest

\* A tick: the time passes, and one unit of the budget at most.
LEMMA RestTicks ==
    ASSUME NEW b \in Nat, NEW used \in Int, NEW t \in Int
    PROVE  /\ Rest(b, used - 1, t - 1) = Rest(b, used, t)
           /\ b > 0 => Rest(b - 1, used - 1, t - 1) + 1 >= Rest(b, used, t)
BY DEF Rest, lmax

-------------------------------------------------------------------------------
(* What a reservation delivers *)

LEMMA FurtherGrows ==
    ASSUME NEW y \in Nat
    PROVE  /\ Further(y) \in Nat
           /\ Further(y) <= Further(y + 1)
           /\ Further(y + P) = Further(y) + Q
           /\ y < P => Further(y) = Rest(Q, D, y)
           /\ Further(P) = Q
<1> DEFINE q == y \div P
           m == y % P
<1>1. q \in Int /\ m \in 0 .. P - 1 /\ y = q * P + m
  BY Sizes, Division
<1>2. q \in Nat
  <2>1. 0 * P <= y /\ 0 \in Int
    BY Sizes
  <2> QED BY <1>1, <2>1, Sizes, Floor
<1> DEFINE full == q * Q
<1>3. full \in Nat /\ (q + 1) * Q = full + Q
  BY <1>2, Sizes
<1>4. Further(y) = full + Rest(Q, D, m)
  BY DEF Further
<1>5. \A t \in 0 .. P - 1 : /\ Rest(Q, D, t) \in 0 .. Q
                            /\ Rest(Q, D, t) <= Rest(Q, D, t + 1)
  BY UsedInPeriod, Sizes DEF Rest, lmax
<1>6. Rest(Q, D, 0) = 0
  BY UsedInPeriod, Sizes DEF Rest, lmax
<1>7. Further(y) \in Nat
  <2> HIDE DEF full, m
  <2> QED BY <1>1, <1>3, <1>4, <1>5, Sizes
<1>8. Further(y) <= Further(y + 1)
  <2>1. CASE (y + 1) \div P = q /\ (y + 1) % P = m + 1
    <3>1. Further(y + 1) = full + Rest(Q, D, m + 1)
      BY <2>1 DEF Further
    <3>2. Rest(Q, D, m) \in Int /\ Rest(Q, D, m + 1) \in Int
          /\ Rest(Q, D, m) <= Rest(Q, D, m + 1)
      <4> HIDE DEF m
      <4> QED BY <1>1, UsedInPeriod, Sizes DEF Rest, lmax
    <3> HIDE DEF full, m
    <3> QED BY <1>3, <1>4, <3>1, <3>2
  <2>2. CASE (y + 1) \div P = q + 1 /\ (y + 1) % P = 0
    <3>1. Further(y + 1) = full + Q + 0
      BY <1>3, <1>6, <2>2 DEF Further
    <3> HIDE DEF full, m
    <3> QED BY <1>1, <1>3, <1>4, <1>5, <3>1, Sizes
  <2> QED BY <2>1, <2>2, NextUnit, Sizes
<1>9. Further(y + P) = Further(y) + Q
  <2> DEFINE z == y + P
             p == q + 1
  <2>1. (y + P) \div P = q + 1 /\ (y + P) % P = m
    <3>1. z \in Int /\ p \in Int /\ z = p * P + m
      <4> HIDE DEF q, m
      <4> QED BY <1>1, Sizes
    <3> HIDE DEF z, p, m
    <3>2. z \div P = p /\ z % P = m
      BY <1>1, <3>1, Sizes, Quotient
    <3> QED BY <3>2 DEF z, p
  <2>2. Further(y + P) = (full + Q) + Rest(Q, D, m)
    BY <1>3, <2>1 DEF Further
  <2>3. Rest(Q, D, m) \in Int
    <3> HIDE DEF m
    <3> QED BY <1>1, <1>5
  <2> HIDE DEF full, m
  <2> QED BY <1>3, <1>4, <2>2, <2>3, Sizes
<1>10. y < P => Further(y) = Rest(Q, D, y)
  <2> SUFFICES ASSUME y < P PROVE Further(y) = Rest(Q, D, y)
    OBVIOUS
  <2>1. y = 0 * P + y /\ y \in 0 .. P - 1
    BY Sizes
  <2>2. y \div P = 0 /\ y % P = y
    BY <2>1, Sizes, Quotient
  <2>3. Rest(Q, D, y) \in Int
    BY <1>5, <2>1
  <2> QED BY <2>2, <2>3, Sizes DEF Further
<1>11. Further(P) = Q
  <2>1. P = 1 * P + 0 /\ 0 \in 0 .. P - 1
    BY Sizes
  <2>2. P \div P = 1 /\ P % P = 0
    BY <2>1, Sizes, Quotient
  <2> QED BY <1>6, <2>2, Sizes DEF Further
<1> QED BY <1>7, <1>8, <1>9, <1>10, <1>11

\* What budget_to_deadline() computes is what will be delivered.
LEMMA CodeCounts ==
    ASSUME NEW b \in Nat, NEW span \in Nat, NEW s \in Nat
    PROVE  budget_to_deadline(b, span, s) = Delivered(b, (UN * span) \div UD, span, s)
<1>1. CASE s <= span
  <2>1. budget_to_deadline(b, span, s) = Worth(b, span, s)
    BY <1>1 DEF budget_to_deadline
  <2> QED BY <1>1, <2>1, WorthIsRest DEF Delivered
<1>2. CASE ~(s <= span)
  <2> DEFINE y == s - span
             full == (y \div P) * Q
  <2>1. y \in Nat /\ ~(y <= 0)
    BY <1>2
  <2>2. budget_to_deadline(b, span, s) = b + full + Worth(Q, P, y % P)
    BY <2>1 DEF budget_to_deadline
  <2>3. (y % P) \in 0 .. P - 1 /\ y \div P \in Int
    <3> HIDE DEF y
    <3> QED BY <2>1, Sizes, Division
  <2>4. Worth(Q, P, y % P) = Rest(Q, D, y % P)
    <3> HIDE DEF y
    <3> QED BY <2>3, Sizes, WorthIsRest DEF D
  <2>5. Rest(Q, D, y % P) \in Int /\ full \in Int
    <3> HIDE DEF y
    <3> QED BY <2>3, Sizes, UsedInPeriod DEF Rest, lmax
  <2>6. Delivered(b, (UN * span) \div UD, span, s) = b + (full + Rest(Q, D, y % P))
    BY <1>2 DEF Delivered, Further
  <2> HIDE DEF full, y
  <2> QED BY <2>2, <2>4, <2>5, <2>6
<1> QED BY <1>1, <1>2

LEMMA DeliveredType ==
    ASSUME NEW b \in Nat, NEW used \in Int, NEW span \in Int, NEW s \in Int
    PROVE  Delivered(b, used, span, s) \in Nat
<1>1. CASE s <= span
  BY <1>1 DEF Delivered, Rest, lmax
<1>2. CASE ~(s <= span)
  <2>1. s - span \in Nat
    BY <1>2
  <2>2. Further(s - span) \in Nat
    BY <2>1, FurtherGrows
  <2> QED BY <1>2, <2>2 DEF Delivered
<1> QED BY <1>1, <1>2

\* More is delivered by a later deadline.
LEMMA DeliveredGrows ==
    ASSUME NEW b \in Nat, NEW used \in Int, NEW span \in Nat, NEW s \in Nat
    PROVE  Delivered(b, used, span, s) <= Delivered(b, used, span, s + 1)
<1>1. CASE s + 1 <= span
  BY <1>1 DEF Delivered, Rest, lmax
<1>2. CASE s = span
  <2>1. Further(1) \in Nat
    BY FurtherGrows
  <2>2. Rest(b, used, s) \in 0 .. b
    BY DEF Rest, lmax
  <2>3. Delivered(b, used, span, s + 1) = b + Further(1)
    BY <1>2 DEF Delivered
  <2> QED BY <1>2, <2>1, <2>2, <2>3 DEF Delivered
<1>3. CASE s > span
  <2> DEFINE y == s - span
  <2>1. y \in Nat /\ s + 1 - span = y + 1
    BY <1>3
  <2>2. Further(y) \in Nat /\ Further(y + 1) \in Nat /\ Further(y) <= Further(y + 1)
    BY <2>1, FurtherGrows
  <2> QED BY <1>3, <2>1, <2>2 DEF Delivered
<1> QED BY <1>1, <1>2, <1>3

\* A tick before the last of the period.
LEMMA DeliveredTicks ==
    ASSUME NEW b \in Nat, NEW used \in Int, NEW span \in Nat, NEW s \in Nat
    PROVE  /\ Delivered(b, used - 1, span - 1, s - 1) = Delivered(b, used, span, s)
           /\ b > 0 => Delivered(b - 1, used - 1, span - 1, s - 1) + 1
                           >= Delivered(b, used, span, s)
<1>1. CASE s <= span
  BY <1>1, RestTicks DEF Delivered
<1>2. CASE ~(s <= span)
  <2>1. (s - 1) - (span - 1) = s - span /\ s - span \in Nat
    BY <1>2
  <2>2. Further(s - span) \in Nat
    BY <2>1, FurtherGrows
  <2>3. /\ Delivered(b, used, span, s) = b + Further(s - span)
        /\ Delivered(b, used - 1, span - 1, s - 1) = b + Further(s - span)
        /\ Delivered(b - 1, used - 1, span - 1, s - 1) = (b - 1) + Further(s - span)
    BY <1>2, <2>1 DEF Delivered
  <2> QED BY <2>2, <2>3
<1> QED BY <1>1, <1>2

\* The last tick of a period, after which there is a new budget: what is left of
\* the old one is at most the tick itself.
LEMMA DeliveredRenews ==
    ASSUME NEW b \in Nat, NEW used \in Int, NEW s \in Nat \ {0}
    PROVE  Delivered(Q, D, P, s - 1) + b >= Delivered(b, used, 1, s)
<1> DEFINE y == s - 1
<1>1. y \in Nat /\ s - 1 = y /\ Further(y) \in Nat
  BY FurtherGrows
<1>2. Delivered(Q, D, P, y) = Further(y)
  <2>1. CASE y < P
    <3>1. Further(y) = Rest(Q, D, y)
      BY <1>1, <2>1, FurtherGrows
    <3> HIDE DEF y
    <3> QED BY <1>1, <2>1, <3>1, Sizes DEF Delivered
  <2>2. CASE y = P
    <3>1. Rest(Q, D, P) = Q
      BY UsedInPeriod, Sizes DEF Rest, lmax
    <3>2. Further(P) = Q
      BY <1>1, FurtherGrows
    <3> QED BY <2>2, <3>1, <3>2 DEF Delivered
  <2>3. CASE y > P
    <3> DEFINE z == y - P
    <3>1. z \in Nat /\ z + P = y
      BY <1>1, <2>3, Sizes
    <3>2. Further(z + P) = Further(z) + Q /\ Further(z) \in Nat
      BY <3>1, FurtherGrows
    <3>3. Delivered(Q, D, P, y) = Q + Further(z)
      BY <1>1, <2>3, Sizes DEF Delivered
    <3> QED BY <3>1, <3>2, <3>3, Sizes
  <2> QED BY <1>1, <2>1, <2>2, <2>3, Sizes
<1>3. Delivered(b, used, 1, s) <= b + Further(y)
  <2>1. CASE s = 1
    <3>1. Rest(b, used, 1) \in 0 .. b
      BY DEF Rest, lmax
    <3> QED BY <1>1, <2>1, <3>1 DEF Delivered
  <2>2. CASE s # 1
    BY <1>1, <2>2 DEF Delivered
  <2> QED BY <2>1, <2>2
<1>4. Delivered(b, used, 1, s) \in Nat
  <2>1. s \in Int /\ 1 \in Int
    OBVIOUS
  <2> QED BY <2>1, DeliveredType
<1> HIDE DEF y
<1> QED BY <1>1, <1>2, <1>3, <1>4

\* By e units after k periods, k budgets and the rest of one have been delivered.
LEMMA FurtherAtLeast ==
    ASSUME NEW y \in Nat, NEW k \in Nat, NEW e \in 0 .. P, k * P + e <= y
    PROVE  Further(y) >= k * Q + Rest(Q, D, e)
<1> DEFINE q == y \div P
           m == y % P
           full == q * Q
<1>1. q \in Int /\ m \in 0 .. P - 1 /\ y = q * P + m
  BY Sizes, Division
<1>2. k * P \in Nat /\ k * P <= y
  BY Sizes
<1>3. k <= q
  BY <1>2, Sizes, Floor
<1>4. Further(y) = full + Rest(Q, D, m)
  BY DEF Further
<1> HIDE DEF q, m
<1>5. /\ Rest(Q, D, m) \in 0 .. Q /\ Rest(Q, D, e) \in 0 .. Q
      /\ e <= m => Rest(Q, D, e) <= Rest(Q, D, m)
  BY <1>1, UsedInPeriod, Sizes DEF Rest, lmax
<1>6. k * Q \in Int /\ full \in Int
  BY <1>1, Sizes
<1>7. CASE k = q
  <2>1. e <= m
    BY <1>1, <1>2, <1>7
  <2> HIDE DEF full
  <2>2. full = k * Q
    BY <1>7 DEF full
  <2> QED BY <1>4, <1>5, <1>6, <2>1, <2>2, Sizes
<1>8. CASE k # q
  <2>1. k + 1 <= q /\ k + 1 \in Int
    BY <1>1, <1>3, <1>8
  <2>2. (k + 1) * Q <= full /\ (k + 1) * Q = k * Q + Q
    BY <1>1, <2>1, Sizes, Order
  <2> HIDE DEF full
  <2> QED BY <1>4, <1>5, <1>6, <2>2, Sizes
<1> QED BY <1>7, <1>8

-------------------------------------------------------------------------------
(* The old policy *)

\* The budgets begun by a percentile beyond the one that is left.
LEMMA BudgetsBegun ==
    ASSUME NEW c \in Nat
    PROVE  /\ lceil(c, Q) \in Nat
           /\ c % Q = 0 => lceil(c, Q) * Q = c
           /\ c % Q # 0 => (lceil(c, Q) - 1) * Q + (c % Q) = c
           /\ c = 0 <=> lceil(c, Q) = 0
<1> DEFINE q == c \div Q
           m == c % Q
           z == c + Q - 1
<1>1. q \in Int /\ m \in 0 .. Q - 1 /\ c = q * Q + m
  BY Sizes, Division
<1>2. z \in Nat /\ z = c + Q - 1 /\ lceil(c, Q) = z \div Q
  BY Sizes DEF lceil, Trunc
<1>3. q \in Nat
  <2>1. 0 * Q <= c /\ 0 \in Int
    BY Sizes
  <2> QED BY <1>1, <2>1, Sizes, Floor
<1> HIDE DEF q, m, z
<1>4. q * Q \in Nat /\ (q + 1) * Q = q * Q + Q /\ (q > 0 => q * Q >= Q)
  BY <1>3, Sizes
<1>5. CASE m = 0
  <2> DEFINE k == Q - 1
  <2>1. k \in 0 .. Q - 1 /\ z = q * Q + k
    BY <1>1, <1>2, <1>4, <1>5, Sizes
  <2> HIDE DEF k
  <2>2. z \div Q = q
    BY <1>2, <1>3, <2>1, Sizes, Quotient
  <2>3. lceil(c, Q) = q /\ c = q * Q
    BY <1>1, <1>2, <1>4, <1>5, <2>2
  <2>4. c = 0 <=> q = 0
    BY <1>3, <1>4, <2>3, Sizes
  <2> QED BY <1>3, <1>5, <2>3, <2>4 DEF m
<1>6. CASE m # 0
  <2> DEFINE k == m - 1
             p == q + 1
  <2>1. k \in 0 .. Q - 1 /\ p \in Int /\ z = p * Q + k
    BY <1>1, <1>2, <1>4, <1>6, Sizes
  <2> HIDE DEF k, p
  <2>2. z \div Q = p
    BY <1>2, <2>1, Sizes, Quotient
  <2>3. lceil(c, Q) = q + 1
    BY <1>2, <2>2 DEF p
  <2> QED BY <1>1, <1>3, <1>4, <1>6, <2>3, Sizes DEF m
<1> QED BY <1>5, <1>6

\* The finish time for later periods, without the division.
LEMMA FinishOfLater ==
    ASSUME NEW B \in Int, NEW n \in Int
    PROVE  (UD * (B + n * P) - (UD - UN) * P) \div UD = B + (n - 1) * P + D
<1> DEFINE N == UN * P
           k == B + (n - 1) * P
           a == UD * (B + n * P) - (UD - UN) * P
<1>1. N \in Int /\ k \in Int
  BY Numbers
<1>2. a = k * UD + N
  <2>1. n * P \in Int /\ (n - 1) * P = n * P - P
    BY Sizes
  <2> DEFINE l == B + n * P
  <2>2. l \in Int /\ k = l - P
    BY <2>1, Sizes
  <2>3. (UD - UN) * P = UD * P - N /\ UD * P = P * UD /\ P * UD \in Int
    BY Numbers
  <2> HIDE DEF l, k, N
  <2>4. k * UD = l * UD - P * UD /\ UD * l = l * UD /\ l * UD \in Int
    BY <2>2, Numbers, Times
  <2>5. a = UD * l - (UD - UN) * P
    BY DEF l
  <2> QED BY <1>1, <2>3, <2>4, <2>5
<1> HIDE DEF N, k, a
<1>3. D \in Int /\ (N % UD) \in 0 .. UD - 1 /\ N = D * UD + (N % UD)
  BY <1>1, Numbers, Division DEF D, N
<1> DEFINE q == k + D
           m == N % UD
<1>4. q * UD = k * UD + D * UD /\ k * UD \in Int /\ D * UD \in Int
  BY <1>1, <1>3, Numbers
<1>5. a \in Int /\ q \in Int /\ m \in 0 .. UD - 1 /\ a = q * UD + m
  BY <1>1, <1>2, <1>3, <1>4
<1> HIDE DEF q, m
<1>6. a \div UD = q
  BY <1>5, Numbers, Quotient
<1> QED BY <1>6 DEF q, a, k

\* A job that the old policy takes, beside its two edges, is owed its percentile
\* by its deadline (rtqueue.c:207-226).
LEMMA FinishMeansOwed ==
    ASSUME AdmissionTypeOK, UndecidedInv, decision = "none", slack_ns >= 0, ~Edge,
           slack_ns >= finish_time_ns(P - x)
    PROVE  Owed >= C_ns
<1> DEFINE B == P - x
           A == due - x
           s == slack_ns
           C == C_ns
           fine == opts.fine_tune
           F == FinishTime(B)
           ft == FineTune
<1>1. /\ B \in 1 .. P /\ r \in 0 .. Q /\ (r = 0 \/ r <= A) /\ A = (UN * B) \div UD
      /\ s \in Nat /\ C \in Nat /\ fine \in BOOLEAN /\ A \in Int
  <2>1. x \in 0 .. P - 1 /\ due \in Int
    BY Sizes DEF AdmissionTypeOK
  <2>2. C_ns \in Nat
    BY Numbers DEF AdmissionTypeOK
  <2>3. due = x + (UN * (P - x)) \div UD
    BY DEF UndecidedInv
  <2>4. (UN * B) \div UD \in Int
    BY <2>1, Sizes, UsedInSpan
  <2> HIDE DEF B
  <2>5. due = x + (UN * B) \div UD
    BY <2>3 DEF B
  <2>6. slack_ns \in Nat
    BY Numbers DEF AdmissionTypeOK
  <2> QED BY <2>1, <2>2, <2>4, <2>5, <2>6, Sizes DEF AdmissionTypeOK, B
<1>2. Owed = Delivered(r, A, B, s)
  BY DEF Owed
<1>3. s >= F - ft
  BY DEF finish_time_ns
<1>4. ASSUME s > B PROVE Owed >= r
  <2>1. s - B \in Nat
    BY <1>1, <1>4
  <2>2. Further(s - B) \in Nat
    BY <2>1, FurtherGrows
  <2>3. Owed = r + Further(s - B)
    BY <1>1, <1>2, <1>4 DEF Delivered
  <2> HIDE DEF B, s
  <2> QED BY <1>1, <2>2, <2>3
<1>5. CASE C < r
  <2> DEFINE N == UN * B
             M == (UD - UN) * s
             a == UD * B - M
  <2>1. F = a \div UD /\ ft = IF fine THEN r - C ELSE 0
    BY <1>5 DEF FinishTime, FineTune
  <2>2. CASE s <= B
    <3>1. A * UD <= N /\ N \in Int
      <4>1. N \in Int /\ A = N \div UD
        BY <1>1, Numbers
      <4> HIDE DEF N, A
      <4> QED BY <4>1, Numbers, Floor, Division
    <3>2. (UD - UN) * s <= (UD - UN) * B
      <4>1. UD - UN \in Nat
        BY Numbers
      <4> DEFINE k == UD - UN
      <4> HIDE DEF k, s, B
      <4>2. s * k <= B * k
        BY <1>1, <2>2, <4>1, Order DEF k
      <4>3. k * s = s * k /\ k * B = B * k
        BY <1>1, <4>1 DEF k
      <4> QED BY <4>2, <4>3 DEF k
    <3>3. (UD - UN) * B = UD * B - N /\ UD * B \in Int /\ M \in Int
      BY <1>1, Numbers
    <3> HIDE DEF N, M, s, B, A
    <3>4. A * UD <= a /\ a \in Int /\ A * UD \in Int
      BY <1>1, <3>1, <3>2, <3>3, Numbers DEF M
    <3> HIDE DEF a
    <3>5. A <= a \div UD /\ a \div UD \in Int
      BY <1>1, <3>4, Numbers, Floor, Division
    <3>6. A - s <= r - C
      <4> HIDE DEF F, ft, fine, C
      <4> QED BY <1>1, <1>3, <1>5, <2>1, <3>5, Sizes
    <3>7. Owed = Rest(r, A, s)
      BY <1>2, <2>2 DEF Delivered
    <3> QED BY <1>1, <1>5, <3>6, <3>7, Sizes DEF Rest, lmax
  <2>3. CASE ~(s <= B)
    <3>1. s > B
      BY <1>1, <2>3
    <3>2. Owed \in Nat
      <4> HIDE DEF A, B, s
      <4>1. r \in Nat /\ A \in Int /\ B \in Int /\ s \in Int
        BY <1>1, Sizes
      <4> QED BY <1>2, <4>1, DeliveredType
    <3> QED BY <1>1, <1>4, <1>5, <3>1, <3>2, Sizes
  <2> QED BY <2>2, <2>3
<1>6. CASE ~(C < r)
  <2> DEFINE c == C - r
             n == lceil(c, Q)
             m == c % Q
  <2>1. c \in Nat /\ C = r + c
    BY <1>1, <1>6, Sizes
  <2>2. /\ n \in Nat /\ (c = 0 <=> n = 0) /\ m \in 0 .. Q - 1
        /\ m = 0 => n * Q = c
        /\ m # 0 => (n - 1) * Q + m = c
    <3> HIDE DEF c
    <3>1. m \in 0 .. Q - 1
      <4>1. c \in Int
        BY <2>1
      <4> QED BY <4>1, Sizes, Division
    <3>2. /\ n \in Nat /\ (c = 0 <=> n = 0)
          /\ m = 0 => n * Q = c
          /\ m # 0 => (n - 1) * Q + m = c
      BY <2>1, BudgetsBegun
    <3> QED BY <3>1, <3>2
  <2>3. /\ F = (UD * (B + n * P) - (UD - UN) * P) \div UD
        /\ ft = IF fine THEN Q - m ELSE 0
    BY <1>6 DEF FinishTime, FineTune
  <2>4. F = B + (n - 1) * P + D
    <3> HIDE DEF n, B, F
    <3> QED BY <1>1, <2>2, <2>3, FinishOfLater
  <2>5. fine => m # 0
    BY <1>1, <1>6, Sizes DEF Edge
  <2>6. D \in Q .. P
    BY UsedInPeriod
  <2>7. CASE c = 0
    <3>1. n = 0 /\ m = 0 /\ ~fine /\ ft = 0
      <4>1. m = 0
        BY <2>7, Sizes
      <4> QED BY <2>2, <2>3, <2>5, <2>7, <4>1
    <3>2. F = B - P + D
      <4> HIDE DEF n, F, B
      <4>1. (0 - 1) * P = -P
        BY Sizes
      <4> QED BY <1>1, <2>4, <2>6, <3>1, <4>1, Sizes
    <3>3. due <= D /\ due \in Int /\ x \in Int
      <4>1. ~(UD * due > UN * P) /\ due \in Int /\ UD * due = due * UD /\ x \in Int
        BY <1>1, <2>1, <2>7, Numbers DEF Edge, AdmissionTypeOK
      <4> DEFINE N == UN * P
      <4>2. N \in Int /\ due * UD <= N
        BY <4>1, Numbers
      <4>3. D = N \div UD
        BY DEF D
      <4> HIDE DEF N
      <4> QED BY <4>1, <4>2, <4>3, Numbers, Floor
    <3>4. A <= s
      <4> HIDE DEF F, ft, n, m
      <4> QED BY <1>1, <1>3, <2>6, <3>1, <3>2, <3>3, Sizes
    <3>5. CASE s <= B
      <4>1. Owed = Rest(r, A, s)
        BY <1>2, <3>5 DEF Delivered
      <4> HIDE DEF A, s
      <4> QED BY <1>1, <2>1, <2>7, <3>4, <4>1, Sizes DEF Rest, lmax
    <3>6. CASE ~(s <= B)
      <4>1. s > B
        BY <1>1, <3>6
      <4> QED BY <1>1, <1>4, <2>1, <2>7, <4>1, Sizes
    <3> QED BY <3>5, <3>6
  <2>8. CASE c # 0
    <3> DEFINE k == n - 1
               e == D - ft
               y == s - B
    <3>1. k \in Nat /\ ft \in 0 .. Q - 1 /\ e \in 1 .. P
      <4> HIDE DEF n, m, c, ft, fine
      <4> QED BY <1>1, <2>2, <2>3, <2>5, <2>6, <2>8, Sizes
    <3>2. k * P \in Nat
      <4> HIDE DEF k
      <4> QED BY <3>1, Sizes
    <3>3. k * P + e <= y /\ y \in Nat /\ s > B
      <4>1. F = B + k * P + D
        BY <2>4
      <4> HIDE DEF F, ft, k
      <4> QED BY <1>1, <1>3, <2>6, <3>1, <3>2, <4>1, Sizes
    <3>4. Further(y) >= k * Q + Rest(Q, D, e) /\ Further(y) \in Nat
      <4> HIDE DEF y, k, e
      <4>1. e \in 0 .. P /\ k \in Nat /\ y \in Nat /\ k * P + e <= y
        BY <3>1, <3>3
      <4>2. Further(y) >= k * Q + Rest(Q, D, e)
        BY <4>1, FurtherAtLeast
      <4>3. Further(y) \in Nat
        BY <4>1, FurtherGrows
      <4> QED BY <4>2, <4>3
    <3>5. Rest(Q, D, e) = Q - ft
      <4> HIDE DEF ft
      <4> QED BY <2>6, <3>1, Sizes DEF Rest, lmax
    <3>6. k * Q + Q - ft >= c
      <4>1. n * Q = k * Q + Q /\ k * Q \in Int
        <5> HIDE DEF n
        <5> QED BY <2>2, Sizes
      <4>2. CASE m = 0
        <5>1. ft = 0
          BY <1>1, <2>3, <2>5, <4>2
        <5> HIDE DEF n, m, c, ft, k
        <5>2. k * Q + Q = c
          BY <2>2, <4>1, <4>2
        <5> QED BY <2>1, <4>1, <5>1, <5>2, Sizes
      <4>3. CASE m # 0
        <5>1. ft \in {0, Q - m} /\ k * Q + m = c
          BY <1>1, <2>2, <2>3, <4>3
        <5> HIDE DEF n, m, c, ft, k
        <5> QED BY <2>1, <2>2, <4>1, <5>1, Sizes
      <4> QED BY <4>2, <4>3
    <3>7. Owed = r + Further(y)
      BY <1>1, <1>2, <3>3 DEF Delivered
    <3>8. k * Q \in Int
      <4> HIDE DEF k
      <4> QED BY <3>1, Sizes
    <3> HIDE DEF c, k, y, ft, e
    <3> QED BY <1>1, <2>1, <3>1, <3>4, <3>5, <3>6, <3>7, <3>8, Sizes
  <2> QED BY <2>7, <2>8
<1> QED BY <1>5, <1>6

-------------------------------------------------------------------------------
(* The invariant *)

\* The ranges of the variables, as the steps below use them.
LEMMA Ranges ==
    ASSUME AdmissionTypeOK
    PROVE  /\ x \in Nat /\ x < P /\ r \in 0 .. Q /\ due \in 0 .. P
           /\ (r = 0 \/ x + r <= due)
           /\ slack_ns \in Int /\ C_ns \in Nat /\ opts.wcet \in Nat
           /\ avail_ns \in Nat /\ got \in Nat /\ edge \in BOOLEAN
           /\ (slack_ns >= 0 => Owed \in Nat)
<1>1. /\ x \in Nat /\ x < P /\ r \in 0 .. Q /\ due \in 0 .. P
      /\ (r = 0 \/ x + r <= due)
      /\ avail_ns \in Nat /\ got \in Nat /\ edge \in BOOLEAN
  BY Sizes DEF AdmissionTypeOK
<1>2. slack_ns \in Int /\ C_ns \in Nat /\ opts.wcet \in Nat
  <2>1. CompTimes \subseteq Nat /\ Wcets \subseteq Nat /\ MaxSlack \in Nat
    BY Numbers
  <2>2. opts \in [fine_tune : BOOLEAN, wcet : Wcets]
    BY DEF AdmissionTypeOK
  <2>3. opts.wcet \in Wcets
    BY <2>2
  <2>4. slack_ns \in -1 .. MaxSlack /\ C_ns \in CompTimes
    BY DEF AdmissionTypeOK
  <2>5. slack_ns \in Int
    BY <2>1, <2>4
  <2>6. C_ns \in Nat /\ opts.wcet \in Nat
    BY <2>1, <2>3, <2>4
  <2> QED BY <2>5, <2>6
<1>3. r \in Nat /\ due - x \in Int /\ P - x \in Int
  BY <1>1, Sizes
<1>4. Owed \in Nat
  BY <1>2, <1>3, DeliveredType DEF Owed
<1> QED BY <1>1, <1>2, <1>4

LEMMA InitInv == AdmissionInit => AdmissionInv
<1> SUFFICES ASSUME AdmissionInit PROVE AdmissionInv
  OBVIOUS
<1> DEFINE B == P - x
<1>1. x \in 0 .. P - 1 /\ B \in Nat
  BY Sizes DEF AdmissionInit
<1>2. (UN * B) \div UD \in 0 .. B
  <2> HIDE DEF B
  <2> QED BY <1>1, UsedInSpan
<1>3. due = x + (UN * B) \div UD
  BY DEF AdmissionInit
<1> HIDE DEF B
<1>4. due \in 0 .. P /\ r \in 0 .. Q /\ (r = 0 \/ x + r <= due)
  BY <1>1, <1>2, <1>3, Sizes DEF AdmissionInit, B
<1> QED BY <1>1, <1>3, <1>4
        DEF AdmissionInit, AdmissionInv, AdmissionTypeOK, UndecidedInv, OwedInv, B

LEMMA DropInv == AdmissionInv /\ Drop => AdmissionInv'
BY DEF AdmissionInv, AdmissionTypeOK, UndecidedInv, OwedInv, Drop, Decided

LEMMA DeterministicInv == AdmissionInv /\ Deterministic => AdmissionInv'
<1> SUFFICES ASSUME AdmissionInv, Deterministic PROVE AdmissionInv'
  OBVIOUS
<1> USE DEF AdmissionInv
<1>1. /\ decision = "none" /\ slack_ns >= 0 /\ edge' = Edge
      /\ UNCHANGED <<avail_ns, x, r, due, opts, C_ns, slack_ns, got>>
      /\ decision' \in {"taken", "left"}
      /\ decision' = "taken" => slack_ns >= finish_time_ns(P - x)
  BY DEF Deterministic, Decided
<1>2. AdmissionTypeOK'
  <2>1. Edge \in BOOLEAN
    BY DEF Edge
  <2> QED BY <1>1, <2>1 DEF AdmissionTypeOK
<1>3. OwedInv'
  <2> SUFFICES ASSUME decision' = "taken"
               PROVE  /\ slack_ns' >= 0
                      /\ got' + Owed' >= avail_ns'
                      /\ ~edge' => got' + Owed' >= C_ns'
    BY DEF OwedInv
  <2>1. Owed' = Owed /\ Owed \in Nat /\ got = 0 /\ avail_ns = 0 /\ C_ns \in Nat
    BY <1>1, Ranges DEF Owed, UndecidedInv
  <2>2. ~Edge => Owed >= C_ns
    BY <1>1, FinishMeansOwed
  <2> QED BY <1>1, <2>1, <2>2
<1>4. UndecidedInv'
  BY <1>1 DEF UndecidedInv
<1> QED BY <1>2, <1>3, <1>4

\* What the new policy reckons with is what the reservation owes.
LEMMA CountsOwed ==
    ASSUME AdmissionTypeOK, UndecidedInv, decision = "none", slack_ns >= 0
    PROVE  /\ budget_to_deadline(r, P - x, slack_ns) = Owed
           /\ Owed \in Nat
<1> DEFINE B == P - x
<1>1. /\ r \in Nat /\ B \in Nat /\ slack_ns \in Nat /\ Owed \in Nat
      /\ x \in Nat /\ due \in Int
  BY Ranges, Sizes
<1>2. (UN * B) \div UD \in Int
  <2> HIDE DEF B
  <2> QED BY <1>1, UsedInSpan
<1>3. due - x = (UN * B) \div UD
  <2>1. due = x + (UN * B) \div UD
    BY DEF UndecidedInv
  <2> HIDE DEF B
  <2> QED BY <1>1, <1>2, <2>1
<1>4. budget_to_deadline(r, B, slack_ns) = Delivered(r, (UN * B) \div UD, B, slack_ns)
  <2> HIDE DEF B
  <2> QED BY <1>1, CodeCounts
<1> QED BY <1>1, <1>3, <1>4 DEF Owed

LEMMA ProbabilisticInv == AdmissionInv /\ Probabilistic => AdmissionInv'
<1> SUFFICES ASSUME AdmissionInv, Probabilistic PROVE AdmissionInv'
  OBVIOUS
<1> USE DEF AdmissionInv
<1> DEFINE avail == avail_ns'
<1>1. /\ decision = "none" /\ slack_ns >= 0 /\ opts.wcet # 0
      /\ UNCHANGED <<edge, x, r, due, opts, C_ns, slack_ns, got>>
      /\ ByBudget(avail)
  BY DEF Probabilistic, ByBudget, Decided
<1>2. avail = Owed /\ Owed \in Nat
  BY <1>1, CountsOwed DEF Probabilistic
<1>3. C_ns \in Nat /\ opts.wcet \in Nat /\ got = 0 /\ Owed' = Owed
  BY <1>1, Ranges DEF Owed, UndecidedInv
<1> HIDE DEF avail
<1>4. /\ decision' \in {"left", "taken"}
      /\ decision' = "taken" => avail >= opts.wcet \/ avail >= C_ns
  BY <1>1 DEF ByBudget, Decided
<1>5. AdmissionTypeOK'
  BY <1>1, <1>2, <1>4 DEF AdmissionTypeOK, avail
<1>6. OwedInv'
  BY <1>1, <1>2, <1>3, <1>4 DEF OwedInv, avail
<1>7. UndecidedInv'
  BY <1>4 DEF UndecidedInv
<1> QED BY <1>5, <1>6, <1>7

LEMMA Gains ==
    \A before, now, n, owes, owed \in Nat :
        now = before + n /\ owes + n >= owed
            => /\ now + owes >= before + owed
               /\ before + owed \in Nat /\ now + owes \in Nat
OBVIOUS

\* A tick takes from what is owed no more than it gives the worker, and leaves
\* the reservation with a budget that it can still give.
LEMMA TickInv == ASSUME NEW runs \in BOOLEAN PROVE AdmissionInv /\ Tick(runs) => AdmissionInv'
<1> SUFFICES ASSUME AdmissionInv, Tick(runs) PROVE AdmissionInv'
  OBVIOUS
<1> USE DEF AdmissionInv
<1> DEFINE left == IF runs THEN r - 1 ELSE r
           gain == IF runs THEN 1 ELSE 0
<1>1. /\ x \in Nat /\ x < P /\ r \in 0 .. Q /\ due \in 0 .. P
      /\ (r = 0 \/ x + r <= due)
      /\ slack_ns \in Int /\ C_ns \in Nat /\ opts.wcet \in Nat
      /\ avail_ns \in Nat /\ got \in Nat
  BY Ranges
<1>2. /\ decision = "taken" /\ slack_ns > 0 /\ slack_ns' = slack_ns - 1
      /\ (runs => r > 0) /\ (~runs => r <= due - x - 1 \/ r = 0)
      /\ UNCHANGED <<opts, C_ns, decision, avail_ns, edge>>
  BY DEF Tick
<1>3. got' = got + gain /\ gain \in {0, 1}
  BY <1>1 DEF Tick
<1>4. left + gain = r /\ left \in Nat
  BY <1>1, <1>2, Sizes
<1>5. /\ x + 1 = P  => x' = 0 /\ r' = left + Q /\ due' = D
      /\ x + 1 # P  => x' = x + 1 /\ r' = left /\ due' = due
  BY DEF Tick, D
<1>6. Owed \in Nat
  BY <1>2, Ranges
<1>7. CASE x + 1 = P
  <2>1. left = 0
    BY <1>1, <1>2, <1>7, Sizes
  <2>2. x' = 0 /\ r' = Q /\ due' = D
    <3> HIDE DEF left
    <3> QED BY <1>5, <1>7, <2>1, Sizes
  <2>3. D \in Q .. P
    BY UsedInPeriod
  <2> HIDE DEF left, gain
  <2>4. AdmissionTypeOK'
    <3>1. /\ x' \in 0 .. P - 1 /\ due' \in 0 .. P /\ r' \in 0 .. Q /\ x' + r' <= due'
          /\ got' \in Nat
      BY <1>1, <1>3, <2>2, <2>3, Sizes
    <3>2. slack_ns' \in -1 .. MaxSlack
      BY <1>2, Numbers DEF AdmissionTypeOK
    <3> QED BY <1>2, <3>1, <3>2 DEF AdmissionTypeOK
  <2>5. Owed' + gain >= Owed /\ Owed' \in Nat
    <3>1. P - x = 1 /\ gain = r /\ r \in Nat
      BY <1>1, <1>3, <1>4, <1>7, <2>1, Sizes
    <3>2. D - 0 = D /\ P - 0 = P
      BY <2>3, Sizes
    <3>3. Owed' = Delivered(Q, D, P, slack_ns - 1)
      BY <1>2, <2>2, <3>2 DEF Owed
    <3>4. due - x \in Int /\ slack_ns \in Nat \ {0}
      BY <1>1, <1>2
    <3>5. Delivered(Q, D, P, slack_ns - 1) + r >= Delivered(r, due - x, 1, slack_ns)
      BY <3>1, <3>4, DeliveredRenews
    <3>6. Owed = Delivered(r, due - x, 1, slack_ns)
      BY <3>1 DEF Owed
    <3>7. Owed' \in Nat
      <4>1. Q \in Nat /\ D \in Int /\ P \in Int /\ slack_ns - 1 \in Int
        BY <2>3, <3>4, Sizes
      <4> QED BY <3>3, <4>1, DeliveredType
    <3> QED BY <1>6, <3>1, <3>3, <3>5, <3>6, <3>7
  <2>6. OwedInv'
    <3>1. got' + Owed' >= got + Owed /\ got + Owed \in Nat /\ got' + Owed' \in Nat
      <4>1. got \in Nat /\ got' = got + gain /\ gain \in Nat /\ got' \in Nat
        BY <1>1, <1>3
      <4> QED BY <1>6, <2>5, <4>1, Gains
    <3> DEFINE before == got + Owed
               now == got' + Owed'
    <3>2. /\ slack_ns' >= 0
          /\ before >= avail_ns
          /\ ~edge => before >= C_ns \/ (opts.wcet # 0 /\ before >= opts.wcet)
      BY <1>1, <1>2 DEF OwedInv
    <3>3. now >= before /\ before \in Nat /\ now \in Nat
      BY <3>1
    <3> HIDE DEF before, now
    <3>4. now >= avail_ns /\ (before >= C_ns => now >= C_ns)
          /\ (before >= opts.wcet => now >= opts.wcet)
      BY <1>1, <3>2, <3>3
    <3> QED BY <1>2, <3>2, <3>4 DEF OwedInv, now
  <2> QED BY <1>2, <2>4, <2>6 DEF UndecidedInv
<1>8. CASE x + 1 # P
  <2>1. x' = x + 1 /\ r' = left /\ due' = due
    BY <1>5, <1>8
  <2>2. /\ x' \in 0 .. P - 1 /\ r' \in 0 .. Q /\ (r' = 0 \/ x' + r' <= due')
    BY <1>1, <1>2, <1>8, <2>1, Sizes
  <2> HIDE DEF left, gain
  <2>4. AdmissionTypeOK'
    <3>1. got' \in Nat
      BY <1>1, <1>3
    <3>2. slack_ns' \in -1 .. MaxSlack
      BY <1>2, Numbers DEF AdmissionTypeOK
    <3> QED BY <1>2, <2>1, <2>2, <3>1, <3>2 DEF AdmissionTypeOK
  <2>5. Owed' + gain >= Owed /\ Owed' \in Nat
    <3> DEFINE used == due - x
               span == P - x
               s == slack_ns
    <3>1. used \in Int /\ span \in Nat /\ s \in Nat /\ r \in Nat
          /\ due - (x + 1) = used - 1 /\ P - (x + 1) = span - 1
      BY <1>1, <1>2, Sizes
    <3>2. Owed' = Delivered(left, used - 1, span - 1, s - 1)
      BY <1>2, <2>1, <3>1 DEF Owed
    <3>3. Owed = Delivered(r, used, span, s)
      BY DEF Owed
    <3> HIDE DEF used, span, s
    <3>4. Delivered(left, used - 1, span - 1, s - 1) \in Nat
      <4>1. used - 1 \in Int /\ span - 1 \in Int /\ s - 1 \in Int
        BY <3>1
      <4> QED BY <1>4, <4>1, DeliveredType
    <3>5. CASE gain = 0
      BY <1>4, <3>1, <3>2, <3>3, <3>4, <3>5, DeliveredTicks
    <3>6. CASE gain = 1
      <4>1. left = r - 1 /\ r > 0
        BY <1>1, <1>4, <3>6, Sizes
      <4> QED BY <3>1, <3>2, <3>3, <3>4, <3>6, <4>1, DeliveredTicks
    <3> QED BY <1>3, <3>5, <3>6
  <2>6. OwedInv'
    <3>1. got' + Owed' >= got + Owed /\ got + Owed \in Nat /\ got' + Owed' \in Nat
      <4>1. got \in Nat /\ got' = got + gain /\ gain \in Nat /\ got' \in Nat
        BY <1>1, <1>3
      <4> QED BY <1>6, <2>5, <4>1, Gains
    <3> DEFINE before == got + Owed
               now == got' + Owed'
    <3>2. /\ slack_ns' >= 0
          /\ before >= avail_ns
          /\ ~edge => before >= C_ns \/ (opts.wcet # 0 /\ before >= opts.wcet)
      BY <1>1, <1>2 DEF OwedInv
    <3>3. now >= before /\ before \in Nat /\ now \in Nat
      BY <3>1
    <3> HIDE DEF before, now
    <3>4. now >= avail_ns /\ (before >= C_ns => now >= C_ns)
          /\ (before >= opts.wcet => now >= opts.wcet)
      BY <1>1, <3>2, <3>3
    <3> QED BY <1>2, <3>2, <3>4 DEF OwedInv, now
  <2> QED BY <1>2, <2>4, <2>6 DEF UndecidedInv
<1> QED BY <1>7, <1>8

LEMMA StepInv == AdmissionInv /\ [AdmissionNext]_avars => AdmissionInv'
<1> SUFFICES ASSUME AdmissionInv, [AdmissionNext]_avars PROVE AdmissionInv'
  OBVIOUS
<1>1. CASE Drop
  BY <1>1, DropInv
<1>2. CASE Deterministic
  BY <1>2, DeterministicInv
<1>3. CASE Probabilistic
  BY <1>3, ProbabilisticInv
<1>4. CASE \E runs \in BOOLEAN : Tick(runs)
  BY <1>4, TickInv
<1>5. CASE UNCHANGED avars
  BY <1>5 DEF avars, AdmissionInv, AdmissionTypeOK, UndecidedInv, OwedInv, Owed
<1> QED BY <1>1, <1>2, <1>3, <1>4, <1>5 DEF AdmissionNext

-------------------------------------------------------------------------------
(* The theorems *)

\* In every execution, for every budget, period and utilization, a worker finds
\* no more budget than its reservation can still give it, and of what a decision
\* counted on nothing is lost to the order of the ticks (rtqueue.c:164-246).
THEOREM AdmissionIsSafe == AdmissionSpec => []AdmissionInv
<1>1. AdmissionInit => AdmissionInv
  BY InitInv
<1>2. AdmissionInv /\ [AdmissionNext]_avars => AdmissionInv'
  BY StepInv
<1> QED BY <1>1, <1>2, PTL DEF AdmissionSpec

\* At the deadline of the job nothing is owed any more.
LEMMA OwedAtDeadline ==
    ASSUME AdmissionInv, decision = "taken", slack_ns = 0
    PROVE  Owed = 0
<1>1. /\ x \in Nat /\ x < P /\ r \in 0 .. Q /\ due \in 0 .. P /\ (r = 0 \/ x + r <= due)
  BY Ranges DEF AdmissionInv
<1>2. Owed = Rest(r, due - x, 0)
  BY <1>1, Sizes DEF Owed, Delivered
<1> QED BY <1>1, <1>2, Sizes DEF Rest, lmax

\* What budget_to_deadline() counts on is executed by the deadline of the job,
\* whatever else the processor does in between (rtqueue.c:171-179, 234-236).
THEOREM BudgetDelivered == AdmissionSpec => []BudgetIsDelivered
<1>1. AdmissionInv => BudgetIsDelivered
  <2> SUFFICES ASSUME AdmissionInv, decision = "taken", slack_ns = 0 PROVE got >= avail_ns
    BY DEF BudgetIsDelivered
  <2>1. got \in Nat /\ Owed = 0 /\ got + Owed >= avail_ns
    BY Ranges, OwedAtDeadline DEF AdmissionInv, OwedInv
  <2> QED BY <2>1
<1> QED BY <1>1, AdmissionIsSafe, PTL

\* A job that either policy took has had its percentile executed at its
\* deadline, or the worst case where that is the smaller, but for the two edges
\* of the old policy (rtqueue.c:207-246).
THEOREM PercentileDelivered == AdmissionSpec => []PercentileInTime
<1>1. AdmissionInv => PercentileInTime
  <2> SUFFICES ASSUME AdmissionInv, decision = "taken", slack_ns = 0, ~edge
               PROVE  got >= C_ns \/ (opts.wcet # 0 /\ got >= opts.wcet)
    BY DEF PercentileInTime
  <2>1. /\ got \in Nat /\ Owed = 0
        /\ got + Owed >= C_ns \/ (opts.wcet # 0 /\ got + Owed >= opts.wcet)
    BY Ranges, OwedAtDeadline DEF AdmissionInv, OwedInv
  <2>2. got + Owed = got
    BY <2>1
  <2> QED BY <2>1, <2>2
<1> QED BY <1>1, AdmissionIsSafe, PTL

\* A later deadline is never worth less, across the two branches of
\* budget_to_deadline() and from one period to the next (rtqueue.c:171-179).
THEOREM LaterIsWorthMore == AdmissionSpec => []LaterIsMore
<1>1. AdmissionInv => LaterIsMore
  <2> SUFFICES ASSUME AdmissionInv, slack_ns >= 0
               PROVE  budget_to_deadline(r, P - x, slack_ns)
                          <= budget_to_deadline(r, P - x, slack_ns + 1)
    BY DEF LaterIsMore
  <2> DEFINE B == P - x
             U == (UN * B) \div UD
  <2>1. r \in Nat /\ B \in Nat /\ slack_ns \in Nat /\ slack_ns + 1 \in Nat
    BY Ranges, Sizes DEF AdmissionInv
  <2>2. U \in Int
    <3> HIDE DEF B
    <3> QED BY <2>1, UsedInSpan
  <2>3. /\ budget_to_deadline(r, B, slack_ns) = Delivered(r, U, B, slack_ns)
        /\ budget_to_deadline(r, B, slack_ns + 1) = Delivered(r, U, B, slack_ns + 1)
    <3> HIDE DEF B
    <3> QED BY <2>1, CodeCounts
  <2>4. Delivered(r, U, B, slack_ns) <= Delivered(r, U, B, slack_ns + 1)
    <3> HIDE DEF B, U
    <3> QED BY <2>1, <2>2, DeliveredGrows
  <2> QED BY <2>3, <2>4
<1> QED BY <1>1, AdmissionIsSafe, PTL

===============================================================================
