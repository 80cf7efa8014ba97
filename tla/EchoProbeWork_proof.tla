------------------------ MODULE EchoProbeWork_proof -------------------------
(***************************************************************************)
(* What the operators of ScanPlan and EchoProbeWork return, for every      *)
(* range, number of repetitions and batch: the lemmas that the theorems of *)
(* ScanJob_proof and PluginHost_proof rest on.                             *)
(***************************************************************************)
EXTENDS EchoProbeWork, FiniteSetTheorems, TLAPS

-----------------------------------------------------------------------------
(* Arithmetic                                                              *)

LEMMA LeastNumber ==
    ASSUME NEW T, T \subseteq Nat, T # {}
    PROVE  \E m \in T : \A n \in T : m <= n
<1> DEFINE R == OpToRel(<, Nat)
<1>1. IsWellFoundedOn(R, Nat)
  BY NatLessThanWellFounded
<1> HIDE DEF R
<1>2. PICK m \in T : \A n \in T : <<n, m>> \notin R
  BY <1>1, WFMin
<1>3. ASSUME NEW n \in T PROVE m <= n
  <2>1. <<n, m>> \notin OpToRel(<, Nat)
    BY <1>2 DEF R
  <2> QED
    BY <2>1 DEF OpToRel
<1> QED
  BY <1>3

LEMMA Division ==
    ASSUME NEW a \in Int, NEW b \in Nat \ {0}
    PROVE  /\ a \div b \in Int
           /\ a % b \in 0..b - 1
           /\ a = (a \div b) * b + (a % b)
  OBVIOUS

LEMMA QuotientIs ==
    ASSUME NEW b \in Nat \ {0}, NEW q \in Int, NEW m \in 0..b - 1
    PROVE  (q * b + m) \div b = q /\ (q * b + m) % b = m
  OBVIOUS

LEMMA Multiples ==
    ASSUME NEW s \in Nat \ {0}, NEW i \in Int, NEW j \in Int
    PROVE  /\ i < j <=> i * s < j * s
           /\ i <= j <=> i * s <= j * s
           /\ i * s \in Int
<1>1. i * s \in Int /\ j * s \in Int /\ (j - i) * s = j * s - i * s
  OBVIOUS
<1>2. \A k \in Int : k > 0 => k * s > 0
  OBVIOUS
<1>3. \A k \in Int : k <= 0 => k * s <= 0
  OBVIOUS
<1>4. \A k \in Int : k = 0 <=> k * s = 0
  OBVIOUS
<1> QED
  BY <1>1, <1>2, <1>3, <1>4

LEMMA MultipleFits ==
    ASSUME NEW s \in Nat \ {0}, NEW d \in Nat, NEW j \in Nat
    PROVE  j * s <= d <=> j <= d \div s
<1> DEFINE q == d \div s
<1>1. q \in Int /\ d % s \in 0..s - 1 /\ d = q * s + (d % s)
  BY Division
<1> HIDE DEF q
<1>2. j <= q <=> j * s <= q * s
  BY <1>1, Multiples
<1>3. j >= q + 1 <=> j * s >= (q + 1) * s
  BY <1>1, Multiples
<1>4. (q + 1) * s = q * s + s /\ j * s \in Int /\ q * s \in Int
  BY <1>1
<1> QED
  BY <1>1, <1>2, <1>3, <1>4 DEF q

LEMMA NextMultiple ==
    ASSUME NEW v \in Int, NEW k \in Int, NEW s \in Int
    PROVE  (v + s) + (k - 2) * s = v + (k - 1) * s
  OBVIOUS

LEMMA SameIntegers ==
    ASSUME NEW s \in Seq(Int), NEW t \in Seq(Int), Len(s) = Len(t),
           \A k \in 1..Len(s) : s[k] = t[k]
    PROVE  s = t
  OBVIOUS

-----------------------------------------------------------------------------
(* The quotient in 32-bit floats                                           *)

\* There is a largest power that fits, and the next one does not.
LEMMA ScaleIs ==
    ASSUME NEW a \in Nat, NEW b \in Nat, a <= b, NEW u, u = Scale(a, b)
    PROVE  /\ u \in Nat \ {0}
           /\ a * u <= b
           /\ u = 8388608 \/ b < 2 * (a * u)
           /\ 2 * a <= b => u >= 2
<1>1. \E p \in Powers : a * p <= b /\ (p = 8388608 \/ b < 2 * (a * p))
  BY DEF Powers
<1>2. u \in Powers /\ a * u <= b /\ (u = 8388608 \/ b < 2 * (a * u))
  BY <1>1 DEF Scale
<1>3. u \in Nat \ {0}
  BY <1>2 DEF Powers
<1>4. 2 * a <= b => u >= 2
  <2>1. u = 1 => a * u = a
    OBVIOUS
  <2> QED
    BY <1>2, <1>3, <2>1
<1> QED
  BY <1>2, <1>3, <1>4

LEMMA NearestIs ==
    ASSUME NEW n \in Nat, NEW d \in Nat \ {0}, NEW k \in Nat
    PROVE  /\ Nearest(n, d) \in Nat
           /\ n <= k * d => Nearest(n, d) <= k
           /\ k * d <= n => k <= Nearest(n, d)
           /\ (2 * k + 1) * d < 2 * n => k < Nearest(n, d)
<1> DEFINE q == n \div d
           r == n % d
<1>1. q \in Nat /\ r \in 0..d - 1 /\ n = q * d + r
  OBVIOUS
<1>2. Nearest(n, d) \in {q, q + 1}
      /\ (Nearest(n, d) = q + 1 => 2 * r >= d)
      /\ (Nearest(n, d) = q => 2 * r <= d)
  <2>1. Nearest(n, d) = IF 2 * r > d \/ (2 * r = d /\ q % 2 = 1) THEN q + 1 ELSE q
    BY DEF Nearest
  <2> HIDE DEF q, r
  <2> QED
    BY <1>1, <2>1
<1> HIDE DEF q, r
<1> DEFINE m == Nearest(n, d)
<1>3. ASSUME n <= k * d PROVE m <= k
  <2>1. k < q => (k + 1) * d <= q * d
    BY <1>1
  <2>2. (k + 1) * d = k * d + d /\ k * d \in Nat /\ q * d \in Nat
    BY <1>1
  <2>3. q <= k
    BY <1>1, <1>3, <2>1, <2>2
  <2>4. q = k => r = 0
    BY <1>1, <1>3, <2>2
  <2> QED
    BY <1>1, <1>2, <2>3, <2>4
<1>4. ASSUME k * d <= n PROVE k <= m
  <2>1. q < k => (q + 1) * d <= k * d
    BY <1>1
  <2>2. (q + 1) * d = q * d + d /\ k * d \in Nat /\ q * d \in Nat
    BY <1>1
  <2>3. k <= q
    BY <1>1, <1>4, <2>1, <2>2
  <2> QED
    BY <1>1, <1>2, <2>3
<1>5. ASSUME (2 * k + 1) * d < 2 * n PROVE k < m
  <2>1. (2 * k + 1) * d = 2 * (k * d) + d /\ k * d \in Nat /\ q * d \in Nat
    BY <1>1
  <2>2. k * d <= n
    BY <1>5, <2>1
  <2>3. k <= m
    BY <1>4, <2>2
  <2>4. m = k => FALSE
    <3>1. CASE m = q
      BY <1>1, <1>2, <1>5, <2>1, <3>1
    <3>2. CASE m = q + 1
      <4> SUFFICES ASSUME k = q + 1 PROVE FALSE
        BY <3>2
      <4>1. (q + 1) * d = q * d + d /\ k * d = q * d + d
        BY <1>1
      <4> QED
        BY <1>1, <2>2, <4>1
    <3> QED
      BY <1>2, <3>1, <3>2
  <2> QED
    BY <1>1, <1>2, <2>3, <2>4
<1> QED
  BY <1>1, <1>2, <1>3, <1>4, <1>5

LEMMA CeilingBetween ==
    ASSUME NEW n \in Nat, NEW d \in Nat \ {0}, NEW k \in Nat, k * d < n, n <= (k + 1) * d
    PROVE  CeilingOf(n, d) = k + 1
<1> DEFINE m == n - 1 - k * d
<1>1. k * d \in Nat /\ (k + 1) * d = k * d + d
  OBVIOUS
<1>2. m \in 0..d - 1 /\ n + d - 1 = (k + 1) * d + m
  BY <1>1
<1> HIDE DEF m
<1>3. ((k + 1) * d + m) \div d = k + 1
  BY <1>2, QuotientIs
<1> QED
  BY <1>2, <1>3 DEF CeilingOf

LEMMA CeilingParts ==
    ASSUME NEW n \in Nat \ {0}, NEW d \in Nat \ {0}
    PROVE  \E k \in Nat : k * d < n /\ n <= (k + 1) * d
<1> DEFINE k == (n - 1) \div d
           r == (n - 1) % d
<1>1. k \in Nat /\ r \in 0..d - 1 /\ n - 1 = k * d + r
  OBVIOUS
<1> HIDE DEF k, r
<1>2. (k + 1) * d = k * d + d /\ k * d \in Nat
  BY <1>1
<1>3. k * d < n /\ n <= (k + 1) * d
  BY <1>1, <1>2
<1> QED
  BY <1>1, <1>3

\* Above 2^24 a float is a multiple of a power of two above 2^24 itself.
LEMMA SpacedIs ==
    ASSUME NEW n \in Nat, NEW d \in Nat \ {0}, Digits24 * d < n
    PROVE  Spaced(n, d) \in Nat /\ Spaced(n, d) >= Digits24
<1> DEFINE a == 8388608 * d
           u == Scale(a, n)
           m == Nearest(n, d * u)
<1>1. a \in Nat /\ 2 * a < n
  BY DEF Digits24
<1> HIDE DEF a
<1>2. u \in Nat \ {0} /\ a * u <= n /\ u >= 2
  <2>1. a <= n /\ 2 * a <= n /\ u = Scale(a, n)
    BY <1>1
  <2> HIDE DEF u
  <2> QED
    BY <1>1, <2>1, ScaleIs
<1> HIDE DEF u
<1>3. d * u \in Nat \ {0} /\ a * u = 8388608 * (d * u)
  BY <1>2 DEF a
<1>4. m \in Nat /\ 8388608 <= m
  BY <1>2, <1>3, NearestIs
<1> HIDE DEF m
<1>5. m * u \in Nat /\ m * 2 <= m * u
  BY <1>2, <1>4
<1>6. Spaced(n, d) = m * u
  BY DEF Spaced, Digits24, m, u, a
<1> QED
  BY <1>4, <1>5, <1>6 DEF Digits24

LEMMA FloatIs ==
    ASSUME NEW n \in Nat \ {0}
    PROVE  /\ Float(n) \in Nat \ {0}
           /\ n <= Digits24 => Float(n) = n
           /\ n > Digits24 => Float(n) >= Digits24
<1>1. CASE n <= Digits24
  BY <1>1 DEF Float, Digits24
<1>2. CASE n > Digits24
  <2>1. Digits24 * 1 < n
    BY <1>2 DEF Digits24
  <2>2. Spaced(n, 1) \in Nat /\ Spaced(n, 1) >= Digits24
    BY <2>1, SpacedIs
  <2> QED
    BY <1>2, <2>2 DEF Float, Digits24
<1> QED
  BY <1>1, <1>2 DEF Digits24

LEMMA CeilingOfFloatType ==
    ASSUME NEW n \in Nat \ {0}, NEW d \in Nat \ {0}
    PROVE  CeilingOfFloat(n, d) \in Nat \ {0}
<1>1. CASE n <= d
  BY <1>1 DEF CeilingOfFloat
<1>2. CASE d < n /\ n <= Digits24 * d
  <2> DEFINE u == Scale(n, Digits24 * d)
             m == Nearest(n * u, d)
  <2>1. u \in Nat \ {0}
    BY <1>2, ScaleIs DEF Digits24
  <2> HIDE DEF u
  <2>2. n * u \in Nat /\ 1 * d <= n * u
    <3> HIDE DEF m
    <3>1. 1 * n <= u * n /\ u * n \in Int
      BY <2>1, Multiples
    <3>2. u * n = n * u /\ 1 * n = n /\ 1 * d = d
      BY <2>1
    <3>3. n <= n * u /\ n * u \in Int
      BY <3>1, <3>2
    <3> DEFINE a == n * u
    <3> HIDE DEF a
    <3>4. a \in Nat /\ d <= a
      BY <1>2, <3>3 DEF a
    <3> QED
      BY <3>2, <3>4 DEF a
  <2>3. m \in Nat \ {0}
    BY <2>2, NearestIs
  <2> HIDE DEF m
  <2>4. PICK k \in Nat : k * u < m /\ m <= (k + 1) * u
    BY <2>1, <2>3, CeilingParts
  <2>5. CeilingOf(m, u) = k + 1
    BY <2>1, <2>3, <2>4, CeilingBetween
  <2>6. CeilingOfFloat(n, d) = CeilingOf(m, u)
    BY <1>2 DEF CeilingOfFloat, m, u
  <2> QED
    BY <2>5, <2>6
<1>3. CASE d < n /\ Digits24 * d < n
  <2>1. ~(n <= d) /\ ~(n <= Digits24 * d)
    BY <1>3 DEF Digits24
  <2>2. CeilingOfFloat(n, d) = Spaced(n, d)
    BY <2>1 DEF CeilingOfFloat
  <2> QED
    BY <1>3, <2>2, SpacedIs DEF Digits24
<1> QED
  BY <1>1, <1>2, <1>3 DEF Digits24

(***************************************************************************)
(* Below 2^24 the float quotient has the ceiling of the exact one: what    *)
(* exceeds a whole number does so by more than half a last digit, 1 / 2u,  *)
(* and is not rounded down to it.                                          *)
(***************************************************************************)
LEMMA CeilingOfFloatIsExact ==
    ASSUME NEW n \in Nat \ {0}, NEW d \in Nat \ {0}, n < Digits24
    PROVE  CeilingOfFloat(n, d) = CeilingOf(n, d)
<1>1. PICK k \in Nat : k * d < n /\ n <= (k + 1) * d
  BY CeilingParts
<1>2. CeilingOf(n, d) = k + 1
  BY <1>1, CeilingBetween
<1>3. CASE n <= d
  <2>1. k = 0
    <3>1. k >= 1 => k * d >= 1 * d
      OBVIOUS
    <3> QED
      BY <1>1, <1>3, <3>1
  <2> QED
    BY <1>2, <1>3, <2>1 DEF CeilingOfFloat
<1>4. CASE d < n
  <2> DEFINE b == Digits24 * d
             u == Scale(n, b)
             a == n * u
             m == Nearest(a, d)
  <2>1. b \in Nat /\ b = 16777216 * d /\ n <= b
    BY DEF Digits24
  <2>2. u \in Nat \ {0} /\ (u = 8388608 \/ b < 2 * a)
    BY <2>1, ScaleIs
  <2>3. a \in Nat /\ d < 2 * u
    <3>1. a \in Nat
      BY <2>2
    <3>2. CASE u = 8388608
      BY <1>4, <3>2 DEF Digits24
    <3>3. CASE b < 2 * a
      <4>1. n * u <= 16777215 * u
        BY <2>2 DEF Digits24
      <4> HIDE DEF u
      <4> QED
        BY <2>1, <2>2, <3>3, <4>1
    <3> QED
      BY <2>2, <3>1, <3>2, <3>3
  <2> HIDE DEF u, b
  <2>4. a >= (k * d) * u + u /\ a <= ((k + 1) * d) * u
    <3>1. n >= k * d + 1
      BY <1>1
    <3>2. n * u >= (k * d + 1) * u /\ n * u <= ((k + 1) * d) * u
      <4> DEFINE lo == k * d + 1
                 hi == (k + 1) * d
      <4>1. lo \in Int /\ hi \in Int /\ lo <= n /\ n <= hi
        BY <1>1
      <4> HIDE DEF lo, hi
      <4>2. lo * u <= n * u /\ n * u <= hi * u
        BY <2>2, <4>1, Multiples
      <4> QED
        BY <4>2 DEF lo, hi
    <3>3. (k * d + 1) * u = (k * d) * u + u
      BY <2>2
    <3> QED
      BY <3>2, <3>3
  <2> HIDE DEF a
  <2>5. (k * d) * u = (k * u) * d /\ ((k + 1) * d) * u = ((k + 1) * u) * d
    BY <2>2
  <2>6. k * u \in Nat /\ (k + 1) * u \in Nat
    BY <2>2
  <2>7. m <= (k + 1) * u
    BY <2>3, <2>4, <2>5, <2>6, NearestIs
  <2>8. k * u < m /\ m \in Nat
    <3> DEFINE j == k * u
    <3>1. j \in Nat /\ a >= j * d + u
      BY <2>4, <2>5, <2>6
    <3> HIDE DEF j
    <3>2. (2 * j + 1) * d = 2 * (j * d) + d /\ j * d \in Nat
      BY <3>1
    <3>3. (2 * j + 1) * d < 2 * a
      BY <2>2, <2>3, <3>1, <3>2
    <3> HIDE DEF m
    <3>4. j < Nearest(a, d) /\ Nearest(a, d) \in Nat
      BY <2>3, <3>1, <3>3, NearestIs
    <3> QED
      BY <3>4 DEF j, m
  <2> HIDE DEF m
  <2>9. CeilingOf(m, u) = k + 1
    BY <2>2, <2>7, <2>8, CeilingBetween
  <2>10. CeilingOfFloat(n, d) = CeilingOf(m, u)
    <3>1. ~(n <= d)
      BY <1>4
    <3> QED
      BY <2>1, <3>1 DEF CeilingOfFloat, m, u, a, b
  <2> QED
    BY <1>2, <2>9, <2>10
<1> QED
  BY <1>3, <1>4

\* The repetitions of a batch of any size, asked fewer than 2^24 times.
LEMMA FloatCeilingIsExact ==
    ASSUME NEW c \in Nat \ {0}, NEW n \in Nat \ {0}, c < Digits24
    PROVE  CeilingOfFloat(Float(c), Float(n)) = CeilingOf(c, n)
<1>1. Float(c) = c
  BY FloatIs DEF Digits24
<1>2. CASE n <= Digits24
  <2>1. Float(n) = n
    BY <1>2, FloatIs
  <2> QED
    BY <1>1, <2>1, CeilingOfFloatIsExact
<1>3. CASE n > Digits24
  <2>1. Float(n) \in Nat \ {0} /\ c <= Float(n)
    BY <1>3, FloatIs DEF Digits24
  <2>2. CeilingOfFloat(c, Float(n)) = 1
    BY <2>1 DEF CeilingOfFloat
  <2>3. 0 * n < c /\ c <= (0 + 1) * n
    BY <1>3 DEF Digits24
  <2>4. CeilingOf(c, n) = 0 + 1
    BY <2>3, CeilingBetween
  <2> QED
    BY <1>1, <2>2, <2>4
<1> QED
  BY <1>2, <1>3 DEF Digits24

-----------------------------------------------------------------------------
(* The frequencies of a range                                              *)

LimitsOK(r) == r.begin \in Int /\ r.step \in Int /\ r.end \in Int

\* The condition of the do-while loop.
Goes(r, v) == IF r.step > 0 THEN v <= r.end ELSE v >= r.end

Gap(a, b) == IF a < b THEN b - a ELSE a - b

\* How many frequencies the loop takes from v on.
Length(r, v) == IF Goes(r, v) THEN Gap(v, r.end) \div Gap(r.step, 0) + 1 ELSE 1

Progression(r, v) == [k \in 1..Length(r, v) |-> v + (k - 1) * r.step]

\* f is what the recursive definition in Enumerate defines.
IsFrom(r, f) ==
    f = [v \in Int |-> <<v>> \o IF Goes(r, v + r.step) THEN f[v + r.step] ELSE <<>>]

LEMMA EnumerateUnfolded ==
    ASSUME NEW r
    PROVE  Enumerate(r) = (CHOOSE f : IsFrom(r, f))[r.begin]
  BY DEF Enumerate, IsFrom, Goes

\* One more frequency, as far as the loop goes.
LEMMA LengthNext ==
    ASSUME NEW r, LimitsOK(r), r.step # 0, NEW v \in Int
    PROVE  /\ Length(r, v) \in Nat \ {0}
           /\ Goes(r, v + r.step) => Length(r, v) = Length(r, v + r.step) + 1
           /\ ~Goes(r, v + r.step) => Length(r, v) = 1
           /\ Goes(r, v + r.step) => Goes(r, v) /\ Gap(v + r.step, r.end) < Gap(v, r.end)
<1> DEFINE s == Gap(r.step, 0)
           a == Gap(v, r.end)
           b == Gap(v + r.step, r.end)
<1>1. s \in Nat \ {0} /\ a \in Nat /\ b \in Nat
  BY DEF LimitsOK, Gap
<1>2. /\ Goes(r, v + r.step) => Goes(r, v) /\ a = b + s
      /\ Goes(r, v) /\ ~Goes(r, v + r.step) => a < s
  BY DEF LimitsOK, Gap, Goes
<1>3. /\ Length(r, v) = IF Goes(r, v) THEN a \div s + 1 ELSE 1
      /\ Length(r, v + r.step) = IF Goes(r, v + r.step) THEN b \div s + 1 ELSE 1
  BY DEF Length
<1> HIDE DEF s, a, b
<1>4. a \div s \in Nat /\ (b + s) \div s = b \div s + 1 /\ (a < s => a \div s = 0)
  BY <1>1
<1>5. Goes(r, v + r.step) => b < a
  BY <1>1, <1>2
<1> QED
  BY <1>1, <1>2, <1>3, <1>4, <1>5 DEF a, b

LEMMA ProgressionNext ==
    ASSUME NEW r, LimitsOK(r), r.step # 0, NEW v \in Int
    PROVE  Progression(r, v) =
             <<v>> \o IF Goes(r, v + r.step) THEN Progression(r, v + r.step) ELSE <<>>
<1>1. r.step \in Int /\ v + r.step \in Int
  BY DEF LimitsOK
<1>2. \A w \in Int : Progression(r, w) \in Seq(Int) /\ Len(Progression(r, w)) = Length(r, w)
  <2> SUFFICES ASSUME NEW w \in Int
               PROVE  Progression(r, w) \in Seq(Int) /\ Len(Progression(r, w)) = Length(r, w)
    OBVIOUS
  <2>1. Length(r, w) \in Nat
    BY LengthNext
  <2> QED
    BY <1>1, <2>1 DEF Progression
<1>3. CASE Goes(r, v + r.step)
  <2> DEFINE n == Length(r, v + r.step)
             t == Progression(r, v + r.step)
  <2>1. n \in Nat /\ Length(r, v) = n + 1 /\ t \in Seq(Int) /\ Len(t) = n
    BY <1>1, <1>2, <1>3, LengthNext
  <2>2. \A k \in 1..n : t[k] = (v + r.step) + (k - 1) * r.step
    BY DEF Progression
  <2> HIDE DEF n, t
  <2>3. <<v>> \o t \in Seq(Int) /\ Len(<<v>> \o t) = n + 1
    BY <2>1
  <2>4. ASSUME NEW k \in 1..n + 1 PROVE (<<v>> \o t)[k] = v + (k - 1) * r.step
    <3>1. CASE k = 1
      BY <1>1, <2>1, <3>1
    <3>2. CASE k # 1
      <4>1. k - 1 \in 1..n /\ (<<v>> \o t)[k] = t[k - 1]
        BY <2>1, <3>2
      <4>2. t[k - 1] = (v + r.step) + (k - 2) * r.step
        BY <2>2, <4>1
      <4>3. k \in Int /\ (v + r.step) + (k - 2) * r.step = v + (k - 1) * r.step
        <5>1. k \in Int
          BY <2>1
        <5> QED
          BY <1>1, <5>1, NextMultiple
      <4> QED
        BY <4>1, <4>2, <4>3
    <3> QED
      BY <3>1, <3>2
  <2>5. /\ Progression(r, v) \in Seq(Int) /\ Len(Progression(r, v)) = n + 1
        /\ \A k \in 1..n + 1 : Progression(r, v)[k] = v + (k - 1) * r.step
    BY <1>2, <2>1 DEF Progression
  <2>6. Progression(r, v) = <<v>> \o t
    BY <2>1, <2>3, <2>4, <2>5, SameIntegers
  <2> QED
    BY <1>3, <2>6 DEF t
<1>4. CASE ~Goes(r, v + r.step)
  <2>1. Progression(r, v) = [k \in 1..1 |-> v + (k - 1) * r.step]
    BY <1>4, LengthNext DEF Progression
  <2>2. Progression(r, v) = <<v>>
    BY <1>1, <2>1
  <2> QED
    BY <1>4, <2>2
<1> QED
  BY <1>3, <1>4

\* The recursive definition has one solution: a first v at which two differ
\* from the end on would be followed by another.
LEMMA FromIsProgression ==
    ASSUME NEW r, LimitsOK(r), r.step # 0, NEW f, IsFrom(r, f), NEW v \in Int
    PROVE  f[v] = Progression(r, v)
<1> DEFINE Bad == {w \in Int : f[w] # Progression(r, w)}
           T   == {Gap(w, r.end) : w \in Bad}
<1> SUFFICES ASSUME Bad # {} PROVE FALSE
  OBVIOUS
<1>1. T \subseteq Nat /\ T # {}
  BY DEF Gap, LimitsOK
<1>2. PICK m \in T : \A n \in T : m <= n
  BY <1>1, LeastNumber
<1>3. PICK w \in Bad : m = Gap(w, r.end)
  BY <1>2
<1>4. w \in Int /\ w + r.step \in Int
  BY DEF LimitsOK
<1>5. f[w] = <<w>> \o IF Goes(r, w + r.step) THEN f[w + r.step] ELSE <<>>
  BY <1>4 DEF IsFrom
<1>6. Progression(r, w) =
        <<w>> \o IF Goes(r, w + r.step) THEN Progression(r, w + r.step) ELSE <<>>
  BY <1>4, ProgressionNext
<1>7. Goes(r, w + r.step) /\ w + r.step \in Bad
  BY <1>3, <1>4, <1>5, <1>6
<1>8. Gap(w + r.step, r.end) < m
  BY <1>3, <1>4, <1>7, LengthNext
<1>9. m <= Gap(w + r.step, r.end)
  BY <1>2, <1>7
<1>10. m \in Nat /\ Gap(w + r.step, r.end) \in Nat
  BY <1>1, <1>4 DEF Gap, LimitsOK
<1> QED
  BY <1>8, <1>9, <1>10

LEMMA EnumerateIsProgression ==
    ASSUME NEW r, LimitsOK(r), r.step # 0
    PROVE  /\ Enumerate(r) = Progression(r, r.begin)
           /\ Enumerate(r) \in Seq(Int)
           /\ Len(Enumerate(r)) = Length(r, r.begin)
           /\ Length(r, r.begin) \in Nat \ {0}
<1> DEFINE g == [v \in Int |-> Progression(r, v)]
<1>1. r.begin \in Int /\ r.step \in Int
  BY DEF LimitsOK
<1>2. IsFrom(r, g)
  <2>1. \A v \in Int : g[v] =
          <<v>> \o IF Goes(r, v + r.step) THEN g[v + r.step] ELSE <<>>
    BY <1>1, ProgressionNext
  <2> QED
    BY <2>1 DEF IsFrom
<1> HIDE DEF g
<1> DEFINE f == CHOOSE h : IsFrom(r, h)
<1>3. IsFrom(r, f)
  BY <1>2
<1> HIDE DEF f
<1>4. Enumerate(r) = f[r.begin]
  BY EnumerateUnfolded DEF f
<1>5. Enumerate(r) = Progression(r, r.begin)
  BY <1>1, <1>3, <1>4, FromIsProgression
<1>6. Length(r, r.begin) \in Nat \ {0}
  BY <1>1, LengthNext
<1>7. /\ Progression(r, r.begin) \in Seq(Int)
      /\ Len(Progression(r, r.begin)) = Length(r, r.begin)
  BY <1>1, <1>6 DEF Progression
<1> QED
  BY <1>5, <1>6, <1>7

LEMMA CompletedLimits ==
    ASSUME NEW range \in ScanRange, NEW current \in Int
    PROVE  LimitsOK(Completed(range, current))
<1>1. ASSUME NEW option \in Optional(Int), NEW default \in Int
      PROVE  ValueOr(option, default) \in Int
  <2>1. option \in Seq(Int) /\ (option # <<>> => option[1] \in Int)
    BY DEF Optional
  <2> QED
    BY <2>1 DEF ValueOr, Unset
<1>2. DefaultStep \in Int
  BY DefaultStepAssumption
<1> QED
  BY <1>1, <1>2 DEF ScanRange, Completed, LimitsOK

-----------------------------------------------------------------------------
(* Sequences of anything                                                   *)

IsSeq(s) == \E S : s \in Seq(S)

LEMMA FunctionIsSeq ==
    ASSUME NEW s, NEW m \in Nat, s = [k \in 1..m |-> s[k]]
    PROVE  IsSeq(s) /\ Len(s) = m /\ DOMAIN s = 1..m
<1> DEFINE S == {s[k] : k \in 1..m}
<1>1. s \in [1..m -> S]
  OBVIOUS
<1>2. s \in Seq(S) /\ DOMAIN s = 1..m
  BY <1>1
<1> HIDE DEF S
<1>3. Len(s) = m
  BY <1>2
<1>4. IsSeq(s)
  BY <1>2 DEF IsSeq
<1> QED
  BY <1>2, <1>3, <1>4

LEMMA EmptyIsSeq == IsSeq(<<>>)
<1>1. <<>> \in Seq({})
  OBVIOUS
<1> QED
  BY <1>1 DEF IsSeq

LEMMA SingleIsSeq ==
    ASSUME NEW v
    PROVE  IsSeq(<<v>>) /\ Len(<<v>>) = 1 /\ <<v>>[1] = v
<1>1. <<v>> \in Seq({v})
  OBVIOUS
<1> QED
  BY <1>1 DEF IsSeq

LEMMA SeqDomain ==
    ASSUME NEW s, IsSeq(s)
    PROVE  Len(s) \in Nat /\ DOMAIN s = 1..Len(s)
  BY DEF IsSeq

LEMMA ConcatIsSeq ==
    ASSUME NEW s, NEW t, IsSeq(s), IsSeq(t)
    PROVE  /\ IsSeq(s \o t)
           /\ Len(s) \in Nat /\ Len(t) \in Nat
           /\ Len(s \o t) = Len(s) + Len(t)
           /\ DOMAIN t = 1..Len(t)
           /\ DOMAIN (s \o t) = 1..Len(s) + Len(t)
           /\ \A n \in 1..Len(s) : (s \o t)[n] = s[n]
           /\ \A n \in Len(s) + 1..Len(s) + Len(t) : (s \o t)[n] = t[n - Len(s)]
<1>1. PICK S : s \in Seq(S)
  BY DEF IsSeq
<1>2. PICK T : t \in Seq(T)
  BY DEF IsSeq
<1>3. s \in Seq(S \cup T) /\ t \in Seq(S \cup T)
  BY <1>1, <1>2
<1>4. s \o t \in Seq(S \cup T)
  BY <1>3
<1> QED
  BY <1>3, <1>4 DEF IsSeq

-----------------------------------------------------------------------------
(* Frames                                                                  *)

\* n times s is a sequence of elements of s.
LEMMA TimesIsSeq ==
    ASSUME NEW n \in Nat, NEW s, IsSeq(s), Len(s) \in Nat \ {0}
    PROVE  /\ IsSeq(Times(n, s))
           /\ Len(Times(n, s)) = n * Len(s) /\ Len(Times(n, s)) \in Nat
           /\ n # 0 => Len(Times(n, s)) # 0
           /\ \A k \in 1..Len(Times(n, s)) : \E i \in 1..Len(s) : Times(n, s)[k] = s[i]
<1> DEFINE m == n * Len(s)
           i(k) == ((k - 1) % Len(s)) + 1
<1>1. m \in Nat /\ (n # 0 => m # 0)
  OBVIOUS
<1>2. Times(n, s) = [k \in 1..m |-> s[i(k)]]
  BY DEF Times
<1>3. \A k \in 1..m : i(k) \in 1..Len(s)
  BY <1>1
<1>4. Times(n, s) = [k \in 1..m |-> Times(n, s)[k]]
  BY <1>2
<1> HIDE DEF m, i
<1>5. IsSeq(Times(n, s)) /\ Len(Times(n, s)) = m
  BY <1>1, <1>4, FunctionIsSeq
<1> QED
  BY <1>1, <1>2, <1>3, <1>5 DEF m

\* Emit appends the frames, all at the present tuning.
LEMMA EmitAtTuning ==
    ASSUME NEW frames, IsSeq(frames), IsSeq(air), Emit(frames)
    PROVE  /\ IsSeq(air')
           /\ Len(air) \in Nat /\ Len(frames) \in Nat
           /\ Len(air') = Len(air) + Len(frames)
           /\ \A n \in 1..Len(air) : air'[n] = air[n]
           /\ \A n \in Len(air) + 1..Len(air') :
                 air'[n].at = tuned /\ air'[n].kind = frames[n - Len(air)]
<1> DEFINE e == [k \in DOMAIN frames |-> [kind |-> frames[k], at |-> tuned]]
<1>1. Len(frames) \in Nat /\ DOMAIN frames = 1..Len(frames)
  BY DEF IsSeq
<1>2. IsSeq(e) /\ DOMAIN e = 1..Len(frames) /\ Len(e) = Len(frames)
  BY <1>1, FunctionIsSeq
<1>3. \A k \in 1..Len(frames) : e[k].at = tuned /\ e[k].kind = frames[k]
  BY <1>1
<1>4. air' = air \o e
  BY DEF Emit
<1> HIDE DEF e
<1>5. /\ IsSeq(air') /\ Len(air) \in Nat /\ Len(air') = Len(air) + Len(frames)
      /\ \A n \in 1..Len(air) : air'[n] = air[n]
      /\ \A n \in Len(air) + 1..Len(air') : air'[n] = e[n - Len(air)]
  BY <1>2, <1>4, ConcatIsSeq
<1>6. \A n \in Len(air) + 1..Len(air') : n - Len(air) \in 1..Len(frames)
  BY <1>1, <1>5
<1> QED
  BY <1>1, <1>3, <1>5, <1>6

LEMMA InjectionIsSeq ==
    ASSUME NEW p
    PROVE  IsSeq(InjectedFrames(p)) /\ Len(InjectedFrames(p)) \in Nat \ {0}
<1>1. DataFrame(p) \in {"NDP", "data"}
  BY DEF DataFrame
<1>2. InjectedFrames(p) \in Seq({"NDPA", "NDP", "data"})
  <2>1. CASE p.napa
    BY <1>1, <2>1 DEF InjectedFrames
  <2>2. CASE ~p.napa
    BY <1>1, <2>2 DEF InjectedFrames
  <2> QED
    BY <2>1, <2>2
<1>3. Len(InjectedFrames(p)) \in {1, 2}
  BY <1>1 DEF InjectedFrames
<1> QED
  BY <1>2, <1>3 DEF IsSeq

\* The frames of a batch, and the number of injections they stand for.
BatchSize(p) == IF p.cf_repeat > p.batchLength THEN p.batchLength ELSE p.cf_repeat

BatchParts(p) == IF DataFrame(p) = "data" THEN SplitParts ELSE 1

LEMMA BatchIsSeq ==
    ASSUME NEW p, p.cf_repeat \in Nat \ {0}, p.batchLength \in Nat \ {0}
    PROVE  /\ IsSeq(BatchFrames(p)) /\ Len(BatchFrames(p)) \in Nat \ {0}
           /\ ~p.napa =>
                /\ Len(BatchFrames(p)) = BatchSize(p) * BatchParts(p)
                /\ \A k \in 1..Len(BatchFrames(p)) : BatchFrames(p)[k] # "NDPA"
<1> DEFINE n     == BatchSize(p)
           parts == BatchParts(p)
           first == IF p.napa THEN <<"NDPA">> ELSE <<>>
           rest  == Times(parts, <<DataFrame(p)>>)
<1>1. n \in Nat \ {0} /\ parts \in Nat \ {0}
  BY WorkAssumption DEF BatchSize, BatchParts
<1>2. /\ IsSeq(<<DataFrame(p)>>) /\ Len(<<DataFrame(p)>>) = 1
      /\ DataFrame(p) # "NDPA"
      /\ \A i \in 1..1 : <<DataFrame(p)>>[i] = DataFrame(p)
  BY SingleIsSeq DEF DataFrame
<1>3. IsSeq(rest) /\ Len(rest) = parts /\ \A k \in 1..Len(rest) : rest[k] # "NDPA"
  <2> DEFINE d == <<DataFrame(p)>>
  <2>1. IsSeq(d) /\ Len(d) \in Nat \ {0} /\ parts \in Nat
    BY <1>1, <1>2
  <2>2. Len(d) = 1 /\ \A i \in 1..1 : d[i] # "NDPA"
    BY <1>2
  <2> HIDE DEF parts, d
  <2>3. /\ IsSeq(Times(parts, d)) /\ Len(Times(parts, d)) \in Nat
        /\ Len(Times(parts, d)) = parts * Len(d)
        /\ \A k \in 1..Len(Times(parts, d)) : \E i \in 1..Len(d) : Times(parts, d)[k] = d[i]
    BY <2>1, TimesIsSeq
  <2>4. parts * Len(d) = parts
    BY <1>1, <2>2
  <2>5. rest = Times(parts, d)
    BY DEF d
  <2> HIDE DEF rest
  <2> QED
    BY <2>2, <2>3, <2>4, <2>5
<1>4. IsSeq(first) /\ (~p.napa => Len(first) = 0)
  BY EmptyIsSeq, SingleIsSeq
<1>5. BatchFrames(p) = Times(n, first \o rest)
  BY DEF BatchFrames, BatchSize, BatchParts
<1> HIDE DEF n, parts, first, rest
<1>6. /\ IsSeq(first \o rest) /\ Len(first \o rest) \in Nat \ {0}
      /\ ~p.napa => /\ Len(first \o rest) = parts
                    /\ \A k \in 1..Len(first \o rest) : (first \o rest)[k] # "NDPA"
  <2>1. /\ IsSeq(first \o rest) /\ Len(first) \in Nat
        /\ Len(first \o rest) = Len(first) + Len(rest)
        /\ \A k \in Len(first) + 1..Len(first) + Len(rest) :
              (first \o rest)[k] = rest[k - Len(first)]
    BY <1>3, <1>4, ConcatIsSeq
  <2> QED
    BY <1>1, <1>3, <1>4, <2>1
<1>7. /\ IsSeq(BatchFrames(p)) /\ Len(BatchFrames(p)) \in Nat \ {0}
      /\ Len(BatchFrames(p)) = n * Len(first \o rest)
      /\ \A k \in 1..Len(BatchFrames(p)) :
            \E i \in 1..Len(first \o rest) : BatchFrames(p)[k] = (first \o rest)[i]
  <2> DEFINE t == first \o rest
  <2>1. IsSeq(t) /\ Len(t) \in Nat \ {0} /\ n \in Nat /\ n # 0
    BY <1>1, <1>6
  <2> HIDE DEF t
  <2>2. /\ IsSeq(Times(n, t)) /\ Len(Times(n, t)) \in Nat
        /\ Len(Times(n, t)) = n * Len(t) /\ Len(Times(n, t)) # 0
        /\ \A k \in 1..Len(Times(n, t)) : \E i \in 1..Len(t) : Times(n, t)[k] = t[i]
    BY <2>1, TimesIsSeq
  <2> QED
    BY <1>5, <2>2 DEF t
<1> QED
  BY <1>6, <1>7 DEF n, parts

LEMMA BatchRepeatsIsNat ==
    ASSUME job.cf_repeat \in Nat \ {0}, Len(prebuilt) \in Nat \ {0}
    PROVE  BatchRepeats \in Nat \ {0}
BY FloatIs, CeilingOfFloatType DEF BatchRepeats

-----------------------------------------------------------------------------
(* The types of the variables of a job                                     *)

Positive == Nat \ {0}

\* The parameters of a job have the types of the options.
JobOK(p) ==
    /\ p.cf \in ScanRange /\ p.sf \in ScanRange
    /\ p.cf_repeat \in Positive /\ p.round_repeat \in Positive /\ p.batchLength \in Positive
    /\ p.custom_channels \in Seq(Int)

LEMMA ParametersAreOK == JobOK(Parameters)
<1>1. NoRange \in ScanRange
  BY DEF NoRange, ScanRange, Optional, Unset
<1>2. <<>> \in Seq(Int)
  OBVIOUS
<1> QED
  BY <1>1, <1>2 DEF Parameters, JobOK, Positive

\* A list of the plan has at least one frequency.
LEMMA EnumerateType ==
    ASSUME NEW range \in ScanRange, NEW current \in Int, Enumerable(Completed(range, current))
    PROVE  LET list == Enumerate(Completed(range, current)) IN
           list \in Seq(Int) /\ Len(list) \in Positive /\ DOMAIN list = 1..Len(list)
<1> DEFINE r == Completed(range, current)
<1>1. LimitsOK(r) /\ r.step # 0
  BY CompletedLimits DEF Enumerable
<1> HIDE DEF r
<1>2. Enumerate(r) \in Seq(Int) /\ Len(Enumerate(r)) \in Positive
  BY <1>1, EnumerateIsProgression DEF Positive
<1> QED
  BY <1>2 DEF r

LEMMA ChannelsType ==
    ASSUME NEW p, JobOK(p),
           NEW c, c = IF p.custom_channels # <<>> THEN p.custom_channels ELSE DefaultChannels
    PROVE  c \in Seq(Int) /\ Len(c) \in Positive
<1>1. \A s \in Seq(Int) : s # <<>> => Len(s) \in Nat \ {0}
  OBVIOUS
<1> QED
  BY <1>1, WorkAssumption DEF JobOK, Positive

InLoops == jpc \in {"visit", "shiftCF", "inject"}

InJob == InLoops \/ jpc = "returned"

Positions == [round : 1..job.round_repeat, sf : DOMAIN sfList, cf : DOMAIN cfList]

(***************************************************************************)
(* The loops are at a point of their lists, also when they are over, and   *)
(* their inner counters below its limit, or reset.                         *)
(***************************************************************************)
WorkTyped ==
    /\ jpc \in WorkPcs
    /\ JobOK(job)
    /\ sfList \in Seq(Int) /\ cfList \in Seq(Int)
    /\ at \in [round : Nat, sf : Nat, cf : Nat]
    /\ tuned \in Tuning
    /\ InJob => at \in Positions /\ sent \in 0..job.cf_repeat - 1
    /\ jpc = "hop" => sent \in 0..Len(Channels) - 1
    /\ jpc \notin {"hop", "inject"} => sent = 0

LEMMA PositionsType ==
    ASSUME cfList \in Seq(Int), sfList \in Seq(Int), at \in Positions
    PROVE  /\ DOMAIN cfList = 1..Len(cfList) /\ DOMAIN sfList = 1..Len(sfList)
           /\ Len(cfList) \in Positive /\ Len(sfList) \in Positive
           /\ 1 \in DOMAIN cfList /\ 1 \in DOMAIN sfList
<1>1. /\ DOMAIN cfList = 1..Len(cfList) /\ DOMAIN sfList = 1..Len(sfList)
      /\ Len(cfList) \in Nat /\ Len(sfList) \in Nat
  OBVIOUS
<1>2. at.cf \in 1..Len(cfList) /\ at.sf \in 1..Len(sfList)
  BY <1>1 DEF Positions
<1> QED
  BY <1>1, <1>2 DEF Positive

\* The loops go on at a point of the plan or are over.
LEMMA LeaveType ==
    ASSUME WorkTyped, InLoops, LeaveScanPoint, UNCHANGED <<job, sfList, cfList>>
    PROVE  sent' = 0 /\ at' \in Positions /\ jpc' \in {"visit", "returned"}
<1>1. at \in Positions /\ JobOK(job)
  BY DEF WorkTyped, InLoops, InJob
<1>2. /\ DOMAIN cfList = 1..Len(cfList) /\ DOMAIN sfList = 1..Len(sfList)
      /\ Len(cfList) \in Positive /\ Len(sfList) \in Positive
  BY <1>1, PositionsType DEF WorkTyped
<1>3. at = [round |-> at.round, sf |-> at.sf, cf |-> at.cf]
      /\ at.round \in 1..job.round_repeat /\ at.sf \in 1..Len(sfList) /\ at.cf \in 1..Len(cfList)
  BY <1>1, <1>2 DEF Positions
<1>4. CASE at.cf < Len(cfList)
  <2>1. at' = [round |-> at.round, sf |-> at.sf, cf |-> at.cf + 1] /\ jpc' = "visit" /\ sent' = 0
    BY <1>3, <1>4 DEF LeaveScanPoint
  <2>2. at.cf + 1 \in 1..Len(cfList)
    BY <1>2, <1>3, <1>4 DEF Positive
  <2> QED
    BY <1>2, <1>3, <2>1, <2>2 DEF Positions
<1>5. CASE ~(at.cf < Len(cfList)) /\ at.sf < Len(sfList)
  <2>1. at' = [round |-> at.round, sf |-> at.sf + 1, cf |-> 1] /\ jpc' = "visit" /\ sent' = 0
    BY <1>3, <1>5 DEF LeaveScanPoint
  <2>2. at.sf + 1 \in 1..Len(sfList) /\ 1 \in 1..Len(cfList)
    BY <1>2, <1>3, <1>5 DEF Positive
  <2> QED
    BY <1>2, <1>3, <2>1, <2>2 DEF Positions
<1>6. CASE ~(at.cf < Len(cfList)) /\ ~(at.sf < Len(sfList)) /\ at.round < job.round_repeat
  <2>1. at' = [round |-> at.round + 1, sf |-> 1, cf |-> 1] /\ jpc' = "visit" /\ sent' = 0
    BY <1>6 DEF LeaveScanPoint, NextRound
  <2>2. /\ 1 \in 1..Len(sfList) /\ 1 \in 1..Len(cfList)
        /\ at.round + 1 \in 1..job.round_repeat
    BY <1>1, <1>2, <1>3, <1>6 DEF Positive, JobOK
  <2> QED
    BY <1>2, <2>1, <2>2 DEF Positions
<1>7. CASE ~(at.cf < Len(cfList)) /\ ~(at.sf < Len(sfList)) /\ ~(at.round < job.round_repeat)
  BY <1>1, <1>7 DEF LeaveScanPoint, NextRound
<1> QED
  BY <1>4, <1>5, <1>6, <1>7

\* After a failure in a round: the next round, or none is left.
LEMMA NextRoundType ==
    ASSUME WorkTyped, InLoops, NextRound, UNCHANGED <<job, sfList, cfList>>
    PROVE  at' \in Positions /\ jpc' \in {"visit", "returned"}
<1>1. at \in Positions /\ JobOK(job)
  BY DEF WorkTyped, InLoops, InJob
<1>2. 1 \in DOMAIN cfList /\ 1 \in DOMAIN sfList
  BY <1>1, PositionsType DEF WorkTyped, Positive
<1>3. CASE at.round < job.round_repeat
  <2>1. at' = [round |-> at.round + 1, sf |-> 1, cf |-> 1] /\ jpc' = "visit"
    BY <1>3 DEF NextRound
  <2>2. at.round + 1 \in 1..job.round_repeat
    BY <1>1, <1>3 DEF Positive, JobOK, Positions
  <2> QED
    BY <1>2, <2>1, <2>2 DEF Positions
<1>4. CASE ~(at.round < job.round_repeat)
  BY <1>1, <1>4 DEF NextRound
<1> QED
  BY <1>3, <1>4

LEMMA WorkTypedInitially == WorkInit => WorkTyped
<1> SUFFICES ASSUME WorkInit PROVE WorkTyped
  OBVIOUS
<1>1. /\ jpc = "idle" /\ job = Parameters /\ sfList = <<>> /\ cfList = <<>>
      /\ at = [round |-> 1, sf |-> 1, cf |-> 1] /\ sent = 0 /\ tuned = HomeTuning
  BY DEF WorkInit
<1>2. JobOK(Parameters)
  BY ParametersAreOK
<1> QED
  BY <1>1, <1>2, WorkAssumption DEF WorkTyped, WorkPcs, InJob, InLoops

\* A job begins at the first point of its lists.
LEMMA StartTyped ==
    ASSUME tuned \in Tuning, NEW p, JobOK(p), StartJob(p)
    PROVE  WorkTyped'
<1>1. /\ tuned.cf \in Int /\ tuned.sf \in Int /\ p.cf_repeat \in Positive
  BY DEF Tuning, JobOK
<1>2. /\ sfList' = SamplingRates(p) /\ cfList' = Enumerate(Completed(p.cf, tuned.cf))
      /\ at' = [round |-> 1, sf |-> 1, cf |-> 1] /\ sent' = 0 /\ jpc' \in {"hop", "visit"}
      /\ job' = p /\ tuned' = tuned
      /\ Enumerable(Completed(p.cf, tuned.cf))
      /\ ArbitraryRates => Enumerable(Completed(p.sf, tuned.sf))
  BY DEF StartJob, Plannable, CarrierRange, RateRange
<1>3. sfList' = IF ArbitraryRates THEN Enumerate(Completed(p.sf, tuned.sf)) ELSE <<tuned.sf>>
  BY <1>2 DEF SamplingRates, RateRange
<1>4. cfList' \in Seq(Int) /\ 1 \in DOMAIN cfList'
  BY <1>1, <1>2, EnumerateType DEF JobOK, Positive
<1>5. sfList' \in Seq(Int) /\ 1 \in DOMAIN sfList'
  <2>1. CASE ArbitraryRates
    BY <1>1, <1>2, <1>3, <2>1, EnumerateType DEF JobOK, Positive
  <2>2. CASE ~ArbitraryRates
    BY <1>1, <1>3, <2>2
  <2> QED
    BY <2>1, <2>2
<1>6. 1 \in 1..p.round_repeat
  BY DEF JobOK, Positive
<1>7. Len(Channels') \in Positive
  BY <1>2, ChannelsType DEF Channels
<1>8. at' \in Positions' /\ sent' \in 0..job'.cf_repeat - 1
  BY <1>1, <1>2, <1>4, <1>5, <1>6 DEF Positions, Positive
<1>9. sent' \in 0..Len(Channels') - 1
  BY <1>2, <1>7 DEF Positive
<1> QED
  BY <1>2, <1>4, <1>5, <1>8, <1>9 DEF WorkTyped, WorkPcs

LEMMA WorkStepTyped ==
    ASSUME WorkTyped, WorkStep
    PROVE  WorkTyped' /\ UNCHANGED <<job, sfList, cfList>>
<1>1. UNCHANGED <<job, sfList, cfList>> /\ jpc \notin {"idle", "returned", "threw"}
  BY DEF WorkStep, ShiftRate, ShiftCarrier, InjectFrame, InjectBatch, PassPoint,
         MeasurePoint, HopChannel
<1> SUFFICES WorkTyped'
  BY <1>1
<1>2. /\ JobOK(job) /\ tuned \in Tuning /\ Positions' = Positions /\ Channels' = Channels
      /\ InLoops => at \in Positions
      /\ InLoops => sent \in 0..job.cf_repeat - 1
      /\ jpc = "hop" => sent \in 0..Len(Channels) - 1
  BY <1>1 DEF WorkTyped, InJob, Positions, Channels
<1>3. /\ cfList \in Seq(Int) /\ DOMAIN cfList = 1..Len(cfList) /\ Len(cfList) \in Nat
      /\ sfList \in Seq(Int) /\ DOMAIN sfList = 1..Len(sfList) /\ Len(sfList) \in Nat
  BY DEF WorkTyped
<1>4. InLoops => Point \in Tuning
  <2> SUFFICES ASSUME InLoops PROVE Point \in Tuning
    OBVIOUS
  <2>1. at.cf \in 1..Len(cfList) /\ at.sf \in 1..Len(sfList)
    BY <1>2, <1>3 DEF Positions
  <2>2. cfList[at.cf] \in Int /\ sfList[at.sf] \in Int
    BY <1>3, <2>1
  <2> QED
    BY <2>2 DEF Point, Tuning
<1>5. ASSUME tuned' \in Tuning, jpc' \in {"visit", "shiftCF", "inject", "returned"},
             at' \in Positions, sent' \in 0..job.cf_repeat - 1,
             jpc' # "inject" => sent' = 0
      PROVE  WorkTyped'
  <2>1. at' \in [round : Nat, sf : Nat, cf : Nat]
    <3>1. /\ 1..job.round_repeat \subseteq Nat
          /\ DOMAIN sfList \subseteq Nat /\ DOMAIN cfList \subseteq Nat
      BY <1>2, <1>3 DEF JobOK, Positive
    <3> QED
      BY <1>5, <3>1 DEF Positions
  <2> QED
    BY <1>1, <1>2, <1>3, <1>5, <2>1 DEF WorkTyped, WorkPcs
<1>6. job.cf_repeat \in Positive /\ 0 \in 0..job.cf_repeat - 1
  BY <1>2 DEF JobOK, Positive
<1>7. CASE ShiftRate
  <2>1. /\ jpc = "visit" /\ jpc' = "shiftCF" /\ UNCHANGED <<at, sent>>
        /\ tuned' = [tuned EXCEPT !.sf = Point.sf]
    BY <1>7 DEF ShiftRate
  <2>2. tuned' \in Tuning
    BY <1>2, <1>4, <2>1 DEF InLoops, Tuning
  <2> QED
    BY <1>2, <1>5, <2>1, <2>2 DEF InLoops, WorkTyped
<1>8. CASE ShiftCarrier
  <2>1. /\ jpc = "shiftCF" /\ jpc' = "inject" /\ UNCHANGED <<at, sent>>
        /\ tuned' = [tuned EXCEPT !.cf = Point.cf]
    BY <1>8 DEF ShiftCarrier
  <2>2. tuned' \in Tuning
    BY <1>2, <1>4, <2>1 DEF InLoops, Tuning
  <2> QED
    BY <1>2, <1>5, <2>1, <2>2 DEF InLoops
<1>9. CASE InjectFrame
  <2>1. jpc = "inject" /\ tuned' = tuned
    BY <1>9 DEF InjectFrame
  <2>2. CASE sent + 1 < job.cf_repeat
    <3>1. sent' = sent + 1 /\ UNCHANGED <<at, jpc>>
      BY <1>9, <2>2 DEF InjectFrame
    <3>2. sent + 1 \in 0..job.cf_repeat - 1
      BY <1>2, <1>6, <2>1, <2>2 DEF InLoops, Positive
    <3> QED
      BY <1>2, <1>5, <2>1, <3>1, <3>2 DEF InLoops
  <2>3. CASE ~(sent + 1 < job.cf_repeat)
    <3>1. LeaveScanPoint
      BY <1>9, <2>3 DEF InjectFrame
    <3>2. sent' = 0 /\ at' \in Positions /\ jpc' \in {"visit", "returned"}
      BY <1>1, <2>1, <3>1, LeaveType DEF InLoops
    <3> QED
      BY <1>2, <1>5, <1>6, <2>1, <3>2
  <2> QED
    BY <2>2, <2>3
<1>10. CASE InjectBatch \/ PassPoint \/ (MeasurePoint /\ LeaveScanPoint)
  <2>1. /\ jpc \in {"inject", "visit"} /\ LeaveScanPoint
        /\ tuned' = tuned \/ tuned' = Point
    BY <1>10 DEF InjectBatch, PassPoint, MeasurePoint
  <2>2. sent' = 0 /\ at' \in Positions /\ jpc' \in {"visit", "returned"}
    BY <1>1, <2>1, LeaveType DEF InLoops
  <2>3. tuned' \in Tuning
    BY <1>2, <1>4, <2>1 DEF InLoops
  <2> QED
    BY <1>5, <1>6, <2>2, <2>3
<1>11. CASE MeasurePoint /\ NextRound /\ UNCHANGED sent
  <2>1. jpc = "visit" /\ tuned' \in {tuned, Point}
    BY <1>11 DEF MeasurePoint
  <2>2. at' \in Positions /\ jpc' \in {"visit", "returned"} /\ sent' = 0
    BY <1>1, <1>11, <2>1, NextRoundType DEF InLoops, WorkTyped
  <2>3. tuned' \in Tuning
    BY <1>2, <1>4, <2>1 DEF InLoops
  <2> QED
    BY <1>5, <1>6, <2>2, <2>3
<1>12. CASE HopChannel
  <2>1. /\ jpc = "hop" /\ jpc' = "hop" /\ UNCHANGED at
        /\ tuned' = [tuned EXCEPT !.cf = Channels[sent + 1]]
        /\ sent' = (sent + 1) % Len(Channels)
    BY <1>12 DEF HopChannel
  <2>2. Channels \in Seq(Int) /\ Len(Channels) \in Positive
    BY <1>2, ChannelsType DEF Channels
  <2>3. Channels[sent + 1] \in Int
    BY <1>2, <2>1, <2>2 DEF Positive
  <2>4. tuned' \in Tuning
    BY <1>2, <2>1, <2>3 DEF Tuning
  <2>5. sent' \in 0..Len(Channels) - 1
    BY <1>2, <2>1, <2>2 DEF Positive
  <2> QED
    BY <1>1, <1>2, <1>3, <2>1, <2>4, <2>5 DEF WorkTyped, WorkPcs, InJob, InLoops
<1> QED
  BY <1>1, <1>7, <1>8, <1>9, <1>10, <1>11, <1>12 DEF WorkStep, MeasurePoint
=============================================================================
