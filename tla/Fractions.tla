----------------------------- MODULE Fractions -----------------------------
(***************************************************************************)
(* Fractions in lowest terms, for the scores and the variances: a pair     *)
(* <<numerator, denominator>> with a positive denominator.                 *)
(***************************************************************************)
EXTENDS Integers

Gcd(n, d) ==
    CHOOSE g \in 1..d :
        /\ n % g = 0 /\ d % g = 0
        /\ \A h \in (g + 1)..d : n % h # 0 \/ d % h # 0

\* n / d for a positive d.
Frac(n, d) == LET g == Gcd(n, d) IN <<n \div g, d \div g>>

Whole(n)      == <<n, 1>>
Plus(x, y)    == Frac(x[1] * y[2] + y[1] * x[2], x[2] * y[2])
Minus(x, y)   == Frac(x[1] * y[2] - y[1] * x[2], x[2] * y[2])
Times(x, y)   == Frac(x[1] * y[1], x[2] * y[2])
Less(x, y)    == x[1] * y[2] < y[1] * x[2]
DividedBy(x, n) == Frac(x[1], x[2] * n)       \* n a positive integer
=============================================================================
