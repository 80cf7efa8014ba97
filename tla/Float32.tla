------------------------------ MODULE Float32 -------------------------------
(***************************************************************************)
(* Positive numbers as a 32-bit float holds them, with 24 binary digits:   *)
(* the arithmetic of 1.0f * cf_repeat / framePoints.size().  Each of its   *)
(* operations is exact, and then rounded to the nearest float.  Quotients  *)
(* up to 2^47 are covered; the counts of the code have 32 bits.            *)
(***************************************************************************)
EXTENDS Integers

\* 2^24: whole numbers up to here are floats.
Digits24 == 16777216

Powers == {1, 2, 4, 8, 16, 32, 64, 128, 256, 512, 1024, 2048, 4096, 8192, 16384, 32768,
           65536, 131072, 262144, 524288, 1048576, 2097152, 4194304, 8388608}

\* The largest of the powers with a * p <= b.
Scale(a, b) == CHOOSE p \in Powers : a * p <= b /\ (p = 8388608 \/ b < 2 * (a * p))

\* n / d rounded up
CeilingOf(n, d) == (n + d - 1) \div d

\* n / d rounded to the nearest whole number, a half to the even one
Nearest(n, d) ==
    LET q == n \div d
        r == 2 * (n % d)
    IN  IF r > d \/ (r = d /\ q % 2 = 1) THEN q + 1 ELSE q

\* n / d above 2^24: floats are the multiples of a power of two there.
Spaced(n, d) ==
    LET u == Scale((Digits24 \div 2) * d, n)
    IN  Nearest(n, d * u) * u

\* A count converted to float.
Float(n) == IF n <= Digits24 THEN n ELSE Spaced(n, 1)

(***************************************************************************)
(* std::ceil of the float nearest to n / d, for floats n and d.  Up to     *)
(* 2^24 it has the binary digits after the point that make 24 in all.      *)
(***************************************************************************)
CeilingOfFloat(n, d) ==
    IF n <= d THEN 1
    ELSE IF n <= Digits24 * d
    THEN LET u == Scale(n, Digits24 * d)
         IN  CeilingOf(Nearest(n * u, d), u)
    ELSE Spaced(n, d)
=============================================================================
