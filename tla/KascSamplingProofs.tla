------------------------- MODULE KascSamplingProofs -------------------------
(***************************************************************************)
(* The moments of the sampling stage, proved for any users, items and      *)
(* rounds.  Welford's update is an identity between fractions; with it the *)
(* mean and the variance of an item always stand for the sum of what has   *)
(* reached it and for the sum of its squares, which do not depend on the   *)
(* order of the draws.  The squared distances from any point follow.       *)
(***************************************************************************)
EXTENDS KascSampling, SumsProofs

-----------------------------------------------------------------------------
(* One step of the running moments, as the code computes it: c times a     *)
(* contribution g after n others with mean m and variance v.               *)

NewMean(n, c, m, g) == Plus(m, DividedBy(Times(Whole(c), Minus(g, m)), n + c))
NewVariance(n, c, v, m, g) ==
    Plus(v, DividedBy(Times(Whole(c),
                            Minus(DividedBy(Times(Whole(n), Times(Minus(g, m), Minus(g, m))),
                                            n + c), v)),
                      n + c - 1))

\* The sum of n contributions and the sum of their squares, from the moments.
SumFrom(n, m)        == Times(Whole(n), m)
SquaresFrom(n, v, m) == Plus(Times(Whole(n - 1), v), Times(Whole(n), Times(m, m)))

\* What there is to know of fractions over one denominator.
LEMMA Calculus ==
    /\ \A a, b \in Int, d \in Nat \ {0} : /\ Plus(Frac(a, d), Frac(b, d)) = Frac(a + b, d)
                                          /\ Minus(Frac(a, d), Frac(b, d)) = Frac(a - b, d)
                                          /\ Frac(a, d) \in Fraction
    /\ \A a \in Int, d, k \in Nat \ {0} : /\ Frac(a * k, d * k) = Frac(a, d)
                                          /\ DividedBy(Frac(a, d), k) = Frac(a, d * k)
    /\ \A k, a \in Int, d \in Nat \ {0} : Times(Whole(k), Frac(a, d)) = Frac(k * a, d)
    /\ \A a, b \in Int, d, e \in Nat \ {0} : Times(Frac(a, d), Frac(b, e)) = Frac(a * b, d * e)
<1>1. ASSUME NEW a \in Int, NEW b \in Int, NEW d \in Nat \ {0}
      PROVE  /\ Plus(Frac(a, d), Frac(b, d)) = Frac(a + b, d)
             /\ Minus(Frac(a, d), Frac(b, d)) = Frac(a - b, d)
             /\ Frac(a, d) \in Fraction
  BY FracSums, FracFacts
<1>2. ASSUME NEW a \in Int, NEW d \in Nat \ {0}, NEW k \in Nat \ {0}
      PROVE  Frac(a * k, d * k) = Frac(a, d) /\ DividedBy(Frac(a, d), k) = Frac(a, d * k)
  BY FracExpand, FracDivided
<1>3. ASSUME NEW k \in Int, NEW a \in Int, NEW d \in Nat \ {0}
      PROVE  Times(Whole(k), Frac(a, d)) = Frac(k * a, d)
  BY FracMultiples
<1>4. ASSUME NEW a \in Int, NEW b \in Int, NEW d \in Nat \ {0}, NEW e \in Nat \ {0}
      PROVE  Times(Frac(a, d), Frac(b, e)) = Frac(a * b, d * e)
  BY TimesFrac
<1> QED
  BY <1>1, <1>2, <1>3, <1>4

MeanIs(n, c, a, b, d) ==
    NewMean(n, c, Frac(a, d), Frac(b, d)) = Frac(n * a + c * b, d * (n + c))

LEMMA NewMeanIs ==
    ASSUME NEW n \in Nat, NEW c \in Nat \ {0}, NEW a \in Int, NEW b \in Int, NEW d \in Nat \ {0}
    PROVE  MeanIs(n, c, a, b, d)
<1> DEFINE e == n + c
           x == b - a
           y == c * x
           z == d * e
<1>1. e \in Nat \ {0} /\ x \in Int /\ y \in Int /\ z \in Nat \ {0}
  OBVIOUS
<1>2. a * e \in Int /\ a * e + y = n * a + c * b
  OBVIOUS
<1>3. Minus(Frac(b, d), Frac(a, d)) = Frac(x, d)
  BY Calculus
<1> DEFINE s == a * e
<1> HIDE DEF e, x
<1>4. Times(Whole(c), Frac(x, d)) = Frac(y, d)
  BY <1>1, Calculus
<1> HIDE DEF y
<1>5. DividedBy(Frac(y, d), e) = Frac(y, z) /\ Frac(a, d) = Frac(s, z)
  <2>1. DividedBy(Frac(y, d), e) = Frac(y, d * e)
    BY <1>1, Calculus
  <2>2. Frac(a * e, d * e) = Frac(a, d)
    BY <1>1, Calculus
  <2> QED
    BY <2>1, <2>2
<1> HIDE DEF s, z
<1>6. Plus(Frac(s, z), Frac(y, z)) = Frac(s + y, z)
  BY <1>1, <1>2, Calculus DEF s
<1>7. NewMean(n, c, Frac(a, d), Frac(b, d)) = Frac(s + y, z)
  BY <1>3, <1>4, <1>5, <1>6 DEF NewMean, e
<1> QED
  BY <1>1, <1>2, <1>7 DEF s, z, e, y, MeanIs

LEMMA MeanStep ==
    ASSUME NEW n \in Nat, NEW c \in Nat \ {0}, NEW m \in Fraction, NEW g \in Fraction
    PROVE  /\ NewMean(n, c, m, g) \in Fraction
           /\ SumFrom(n + c, NewMean(n, c, m, g)) = Plus(SumFrom(n, m), Times(Whole(c), g))
<1>1. PICK d \in Nat \ {0} : Over(m, d) /\ Over(g, d)
  BY OverOne
<1>2. PICK a \in Int : m = Frac(a, d)
  BY <1>1 DEF Over
<1>3. PICK b \in Int : g = Frac(b, d)
  BY <1>1 DEF Over
<1>0. NewMean(n, c, Frac(a, d), Frac(b, d)) = Frac(n * a + c * b, d * (n + c))
  <2>1. MeanIs(n, c, a, b, d)
    BY NewMeanIs
  <2> QED
    BY <2>1 DEF MeanIs
<1> DEFINE e == n + c
           p == n * a
           q == c * b
<1>4. e \in Nat \ {0} /\ p \in Int /\ q \in Int
  OBVIOUS
<1>5. NewMean(n, c, m, g) = Frac(p + q, d * e)
  BY <1>0, <1>2, <1>3
<1>6. Times(Whole(n), m) = Frac(p, d) /\ Times(Whole(c), g) = Frac(q, d)
  <2>1. Times(Whole(n), Frac(a, d)) = Frac(n * a, d)
    BY Calculus
  <2>2. Times(Whole(c), Frac(b, d)) = Frac(c * b, d)
    BY Calculus
  <2> QED
    BY <1>2, <1>3, <2>1, <2>2
<1> HIDE DEF e, p, q
<1> DEFINE r == p + q
           z == d * e
<1>7. r \in Int /\ z \in Nat \ {0} /\ e \in Int
  BY <1>4
<1>8. Plus(Frac(p, d), Frac(q, d)) = Frac(r, d)
  BY <1>4, Calculus
<1>9. Frac(r * e, d * e) = Frac(r, d)
  BY <1>4, <1>7, Calculus
<1> HIDE DEF r
<1>10. e * r = r * e
  BY <1>4, <1>7
<1>11. Times(Whole(e), Frac(r, z)) = Frac(e * r, z) /\ Frac(r, z) \in Fraction
  BY <1>7, Calculus
<1> QED
  BY <1>5, <1>6, <1>8, <1>9, <1>10, <1>11 DEF SumFrom, r, e

\* The new variance over one denominator, when n others came before.
VarianceIs(n, c, w, a, b, d) ==
    NewVariance(n, c, Frac(w, d), Frac(a, d), Frac(b, d))
      = Frac((w * (d * (n + c))) * (n + c - 1)
               + c * (n * ((b - a) * (b - a)) - w * (d * (n + c))),
             ((d * d) * (n + c)) * (n + c - 1))

LEMMA NewVarianceIs ==
    ASSUME NEW n \in Nat \ {0}, NEW c \in Nat \ {0}, NEW w \in Int, NEW a \in Int, NEW b \in Int,
           NEW d \in Nat \ {0}
    PROVE  VarianceIs(n, c, w, a, b, d)
<1> DEFINE e == n + c
           f == n + c - 1
           x == b - a
           p == x * x
           dd == d * d
           k == dd * e
           y == w * (d * e)
           np == n * p
           z == np - y
           cz == c * z
           yf == y * f
           kf == k * f
<1>1. e \in Nat \ {0} /\ f \in Nat \ {0} /\ x \in Int /\ dd \in Nat \ {0} /\ e - 1 = f
  OBVIOUS
<1>2. p \in Int /\ k \in Nat \ {0} /\ y \in Int
  BY <1>1
<1>3. Minus(Frac(b, d), Frac(a, d)) = Frac(x, d)
  BY Calculus
<1> HIDE DEF x
<1>4. Times(Frac(x, d), Frac(x, d)) = Frac(p, dd)
  BY <1>1, Calculus
<1> HIDE DEF p, dd
<1>5. np \in Int
  BY <1>2
<1>6. Times(Whole(n), Frac(p, dd)) = Frac(np, dd)
  BY <1>1, <1>2, Calculus
<1> HIDE DEF np, e
<1>7. DividedBy(Frac(np, dd), e) = Frac(np, k)
  BY <1>1, <1>5, Calculus
<1>8. Frac(w, d) = Frac(y, k)
  <2> DEFINE de == d * e
  <2>1. de \in Nat \ {0} /\ d * de = k
    BY <1>1 DEF dd
  <2> HIDE DEF de, k
  <2>2. Frac(w * de, d * de) = Frac(w, d)
    BY <2>1, Calculus
  <2> QED
    BY <2>1, <2>2 DEF de
<1> HIDE DEF k, y
<1>9. z \in Int /\ Minus(Frac(np, k), Frac(y, k)) = Frac(z, k)
  BY <1>2, <1>5, Calculus
<1> HIDE DEF z
<1>10. cz \in Int /\ Times(Whole(c), Frac(z, k)) = Frac(cz, k)
  BY <1>2, <1>9, Calculus
<1> HIDE DEF cz, f
<1>11. kf \in Nat \ {0} /\ DividedBy(Frac(cz, k), f) = Frac(cz, kf)
  <2>1. \A r \in Int, s, t \in Nat \ {0} : DividedBy(Frac(r, s), t) = Frac(r, s * t)
    BY Calculus
  <2>2. cz \in Int /\ k \in Nat \ {0} /\ f \in Nat \ {0}
    BY <1>1, <1>2, <1>10
  <2>3. DividedBy(Frac(cz, k), f) = Frac(cz, k * f)
    BY <2>1, <2>2
  <2> QED
    BY <2>2, <2>3
<1>12. Frac(yf, kf) = Frac(y, k) /\ yf \in Int
  BY <1>1, <1>2, Calculus
<1> HIDE DEF kf, yf
<1>13. Plus(Frac(yf, kf), Frac(cz, kf)) = Frac(yf + cz, kf)
  BY <1>10, <1>11, <1>12, Calculus
<1>14. NewVariance(n, c, Frac(w, d), Frac(a, d), Frac(b, d)) = Frac(yf + cz, kf)
  <2>1. NewVariance(n, c, Frac(w, d), Frac(a, d), Frac(b, d))
          = Plus(Frac(w, d), DividedBy(Times(Whole(c),
                  Minus(DividedBy(Times(Whole(n), Times(Frac(x, d), Frac(x, d))), e), Frac(w, d))),
                  f))
    BY <1>3 DEF NewVariance, e, f
  <2> QED
    BY <2>1, <1>4, <1>6, <1>7, <1>8, <1>9, <1>10, <1>11, <1>12, <1>13
<1> QED
  BY <1>14 DEF VarianceIs, yf, cz, kf, z, y, k, dd, np, p, x, e, f

\* The identity behind the update of the variance.
LEMMA SquaresMeet ==
    ASSUME NEW n \in Int, NEW c \in Int, NEW a \in Int, NEW b \in Int, NEW y \in Int
    PROVE  (y * (n + c - 1) + c * (n * ((b - a) * (b - a)) - y))
              + (n * a + c * b) * (n * a + c * b)
             = ((n - 1) * y + (n * (a * a)) * (n + c)) + (c * (b * b)) * (n + c)
<1> DEFINE p == (b - a) * (b - a)
           q == (n * a + c * b) * (n * a + c * b)
           ab == a * b
           aa == a * a
           bb == b * b
           nn == n * n
           cc == c * c
           nc == n * c
<1>1. /\ ab \in Int /\ aa \in Int /\ bb \in Int /\ nn \in Int /\ cc \in Int /\ nc \in Int
      /\ p \in Int
  OBVIOUS
<1>2. p = (bb - 2 * ab) + aa
  OBVIOUS
<1>3. q = (nn * aa + 2 * (nc * ab)) + cc * bb
  <2>1. (n * a) * (n * a) = nn * aa /\ (n * a) * (c * b) = nc * ab /\ (c * b) * (c * b) = cc * bb
    OBVIOUS
  <2>2. n * a \in Int /\ c * b \in Int
    OBVIOUS
  <2>3. q = ((n * a) * (n * a) + 2 * ((n * a) * (c * b))) + (c * b) * (c * b)
    OBVIOUS
  <2> QED
    BY <2>1, <2>3
<1>4. c * (n * p) = (nc * bb - 2 * (nc * ab)) + nc * aa
  <2>1. c * (n * p) = nc * p
    OBVIOUS
  <2> HIDE DEF nc, p
  <2>2. nc * p = (nc * bb - 2 * (nc * ab)) + nc * aa
    BY <1>1, <1>2
  <2> QED
    BY <2>1, <2>2
<1>5. /\ (n * aa) * (n + c) = nn * aa + nc * aa
      /\ (c * bb) * (n + c) = nc * bb + cc * bb
  OBVIOUS
<1>6. y * (n + c - 1) + c * (n * p - y) = (n - 1) * y + c * (n * p)
  <2>1. n * p \in Int
    BY <1>1
  <2> DEFINE np == n * p
  <2> HIDE DEF np
  <2>2. y * (n + c - 1) = (n - 1) * y + c * y /\ c * (np - y) = c * np - c * y
    BY <2>1 DEF np
  <2>3. c * y \in Int /\ (n - 1) * y \in Int /\ c * np \in Int
    BY <2>1 DEF np
  <2> QED
    BY <2>2, <2>3 DEF np
<1> DEFINE g1 == nn * aa
           g2 == nc * ab
           g3 == cc * bb
           g4 == nc * bb
           g5 == nc * aa
           g6 == (n - 1) * y
<1>7. /\ g1 \in Int /\ g2 \in Int /\ g3 \in Int /\ g4 \in Int /\ g5 \in Int /\ g6 \in Int
  BY <1>1
<1>8. q = (g1 + 2 * g2) + g3 /\ c * (n * p) = (g4 - 2 * g2) + g5
  BY <1>3, <1>4
<1>9. (n * aa) * (n + c) = g1 + g5 /\ (c * bb) * (n + c) = g4 + g3
  BY <1>5
<1>10. y * (n + c - 1) + c * (n * p - y) = g6 + c * (n * p)
  BY <1>6
<1> HIDE DEF g1, g2, g3, g4, g5, g6
<1>11. (y * (n + c - 1) + c * (n * p - y)) + q = (g6 + (n * aa) * (n + c)) + (c * bb) * (n + c)
  BY <1>7, <1>8, <1>9, <1>10
<1> QED
  BY <1>11 DEF g6

\* c more contributions g: the sum of the squares gains theirs.
LEMMA VarianceStep ==
    ASSUME NEW n \in Nat \ {0}, NEW c \in Nat \ {0}, NEW v \in Fraction, NEW m \in Fraction,
           NEW g \in Fraction
    PROVE  /\ NewVariance(n, c, v, m, g) \in Fraction
           /\ SquaresFrom(n + c, NewVariance(n, c, v, m, g), NewMean(n, c, m, g))
                = Plus(SquaresFrom(n, v, m), Times(Whole(c), Times(g, g)))
<1>1. PICK d \in Nat \ {0} : Over(v, d) /\ Over(m, d) /\ Over(g, d)
  BY OverOne
<1>2. PICK w \in Int : v = Frac(w, d)
  BY <1>1 DEF Over
<1>3. PICK a \in Int : m = Frac(a, d)
  BY <1>1 DEF Over
<1>4. PICK b \in Int : g = Frac(b, d)
  BY <1>1 DEF Over
<1>5. MeanIs(n, c, a, b, d) /\ VarianceIs(n, c, w, a, b, d)
  BY NewMeanIs, NewVarianceIs
<1> DEFINE e == n + c
           f == n + c - 1
           de == d * e
           dd == d * d
           k == dd * e
           y == w * de
           q == n * a + c * b
           N == y * f + c * (n * ((b - a) * (b - a)) - y)
           kf == k * f
           V == NewVariance(n, c, v, m, g)
           M == NewMean(n, c, m, g)
<1>6. /\ e \in Nat \ {0} /\ f \in Nat \ {0} /\ de \in Nat \ {0} /\ dd \in Nat \ {0} /\ e - 1 = f
      /\ q \in Int /\ d * de = k
  OBVIOUS
<1>7. k \in Nat \ {0} /\ y \in Int
  BY <1>6
<1>8. N \in Int /\ kf \in Nat \ {0}
  <2> HIDE DEF k, f, y
  <2>1. n * ((b - a) * (b - a)) \in Int
    OBVIOUS
  <2> QED
    BY <1>6, <1>7, <2>1
<1>9. M = Frac(q, de) /\ V = Frac(N, kf)
  BY <1>2, <1>3, <1>4, <1>5 DEF MeanIs, VarianceIs
<1>10. de * de = k * e
  <2>1. de * de = e * (d * de)
    BY <1>6
  <2> QED
    BY <1>6, <2>1
<1>11. N + q * q = ((n - 1) * y + (n * (a * a)) * e) + (c * (b * b)) * e
  <2> HIDE DEF y
  <2> QED
    BY <1>7, SquaresMeet
<1> HIDE DEF N, q, y, kf, k, dd, de, e, f, M, V
<1>12. Times(Whole(f), V) = Frac(N, k)
  <2>1. Times(Whole(f), Frac(N, kf)) = Frac(f * N, kf)
    BY <1>6, <1>8, Calculus
  <2>2. f * N = N * f
    BY <1>6, <1>8
  <2>3. Frac(N * f, k * f) = Frac(N, k)
    BY <1>6, <1>7, <1>8, Calculus
  <2> QED
    BY <1>9, <2>1, <2>2, <2>3 DEF kf
<1>13. Times(Whole(e), Times(M, M)) = Frac(q * q, k)
  <2> DEFINE qq == q * q
  <2>1. Times(Frac(q, de), Frac(q, de)) = Frac(qq, de * de)
    <3>1. \A i, j \in Int, l, t \in Nat \ {0} : Times(Frac(i, l), Frac(j, t)) = Frac(i * j, l * t)
      BY Calculus
    <3> QED
      BY <1>6, <3>1
  <2>2. qq \in Int /\ k * e \in Nat \ {0}
    BY <1>6, <1>7
  <2> HIDE DEF qq
  <2>3. Times(Whole(e), Frac(qq, k * e)) = Frac(e * qq, k * e)
    <3>1. \A i, j \in Int, l \in Nat \ {0} : Times(Whole(i), Frac(j, l)) = Frac(i * j, l)
      BY Calculus
    <3>2. e \in Int
      BY <1>6
    <3> QED
      BY ONLY <2>2, <3>1, <3>2
  <2>4. e * qq = qq * e
    BY <1>6, <2>2
  <2>5. Frac(qq * e, k * e) = Frac(qq, k)
    BY <1>6, <1>7, <2>2, Calculus
  <2> QED
    BY <1>9, <1>10, <2>1, <2>3, <2>4, <2>5 DEF qq
<1>14. Times(Whole(n - 1), v) = Frac((n - 1) * y, k)
  <2>1. Frac(w * de, d * de) = Frac(w, d)
    BY <1>6, Calculus
  <2>2. n - 1 \in Int
    OBVIOUS
  <2>3. Times(Whole(n - 1), Frac(y, k)) = Frac((n - 1) * y, k)
    BY <1>7, <2>2, Calculus
  <2> QED
    BY <1>2, <1>6, <2>1, <2>3 DEF y
<1>15. \A r \in Int, s \in Nat :
          Times(Whole(s), Times(Frac(r, d), Frac(r, d))) = Frac((s * (r * r)) * e, k)
  <2> SUFFICES ASSUME NEW r \in Int, NEW s \in Nat
               PROVE  Times(Whole(s), Times(Frac(r, d), Frac(r, d))) = Frac((s * (r * r)) * e, k)
    OBVIOUS
  <2> DEFINE rr == r * r
             sr == s * rr
  <2>1. Times(Frac(r, d), Frac(r, d)) = Frac(rr, d * d)
    BY Calculus
  <2>2. rr \in Int
    OBVIOUS
  <2> HIDE DEF rr
  <2>3. sr \in Int
    BY <2>2
  <2>4. Times(Whole(s), Frac(rr, dd)) = Frac(sr, dd)
    BY <1>6, <2>2, Calculus
  <2> HIDE DEF sr
  <2>5. Frac(sr * e, dd * e) = Frac(sr, dd)
    <3>1. \A i \in Int, j, l \in Nat \ {0} : Frac(i * l, j * l) = Frac(i, j)
      BY Calculus
    <3> QED
      BY <1>6, <2>3, <3>1
  <2> QED
    BY <2>1, <2>4, <2>5 DEF rr, sr, dd, k
<1>16. /\ Times(Whole(n), Times(m, m)) = Frac((n * (a * a)) * e, k)
       /\ Times(Whole(c), Times(g, g)) = Frac((c * (b * b)) * e, k)
  BY <1>3, <1>4, <1>15
<1> DEFINE t1 == (n - 1) * y
           t2 == (n * (a * a)) * e
           t3 == (c * (b * b)) * e
           qq == q * q
<1>17. t1 \in Int /\ t2 \in Int /\ t3 \in Int /\ qq \in Int
  BY <1>6, <1>7
<1>18. N + qq = (t1 + t2) + t3
  BY <1>11
<1> HIDE DEF t1, t2, t3, qq
<1>19. SquaresFrom(e, V, M) = Frac(N + qq, k)
  <2>1. Plus(Frac(N, k), Frac(qq, k)) = Frac(N + qq, k)
    BY <1>7, <1>8, <1>17, Calculus
  <2>2. Times(Whole(e - 1), V) = Frac(N, k) /\ Times(Whole(e), Times(M, M)) = Frac(qq, k)
    BY <1>6, <1>12, <1>13 DEF qq
  <2> QED
    BY <2>1, <2>2 DEF SquaresFrom
<1>20. SquaresFrom(n, v, m) = Frac(t1 + t2, k)
  <2>1. Plus(Frac(t1, k), Frac(t2, k)) = Frac(t1 + t2, k)
    BY <1>7, <1>17, Calculus
  <2> QED
    BY <1>14, <1>16, <2>1 DEF SquaresFrom, t1, t2
<1>21. Plus(Frac(t1 + t2, k), Frac(t3, k)) = Frac((t1 + t2) + t3, k)
  <2>1. t1 + t2 \in Int
    BY <1>17
  <2> QED
    BY <1>7, <1>17, <2>1, Calculus
<1>22. V \in Fraction
  BY <1>8, <1>9, Calculus
<1> QED
  BY <1>16, <1>18, <1>19, <1>20, <1>21, <1>22 DEF V, M, e, t3

-----------------------------------------------------------------------------
(* The squared distances from a point, from the sum and the sum of squares. *)

Twice(x)  == Times(Whole(2), x)
Square(x) == Times(x, x)

LEMMA SquareFrac ==
    ASSUME NEW a \in Int, NEW d \in Nat \ {0}, NEW k \in Int
    PROVE  Times(Whole(k), Square(Frac(a, d))) = Frac(k * (a * a), d * d)
<1> DEFINE aa == a * a
           dd == d * d
<1>1. aa \in Int /\ dd \in Nat \ {0}
  OBVIOUS
<1>2. Square(Frac(a, d)) = Frac(aa, dd)
  BY TimesFrac DEF Square
<1> HIDE DEF aa, dd
<1>3. Times(Whole(k), Frac(aa, dd)) = Frac(k * aa, dd)
  BY <1>1, FracMultiples
<1> QED
  BY <1>2, <1>3 DEF aa, dd

LEMMA Distance ==
    ASSUME NEW k \in Int, NEW g \in Fraction, NEW m \in Fraction
    PROVE  Plus(Times(Whole(k), Square(Minus(g, m))), Times(Times(Whole(k), g), Twice(m)))
             = Plus(Times(Whole(k), Square(g)), Times(Whole(k), Square(m)))
<1>1. PICK d \in Nat \ {0} : Over(g, d) /\ Over(m, d)
  BY OverOne
<1>2. PICK b \in Int : g = Frac(b, d)
  BY <1>1 DEF Over
<1>3. PICK a \in Int : m = Frac(a, d)
  BY <1>1 DEF Over
<1> DEFINE x == b - a
           dd == d * d
           t1 == k * (x * x)
           t2 == (k * b) * (2 * a)
           t3 == k * (b * b)
           t4 == k * (a * a)
<1>4. x \in Int /\ dd \in Nat \ {0} /\ t1 \in Int /\ t2 \in Int /\ t3 \in Int /\ t4 \in Int
  OBVIOUS
<1>5. t1 + t2 = t3 + t4
  <2> DEFINE ab == a * b
             aa == a * a
             bb == b * b
  <2>1. ab \in Int /\ aa \in Int /\ bb \in Int /\ x * x = (bb - 2 * ab) + aa
    OBVIOUS
  <2>2. t2 = 2 * (k * ab)
    OBVIOUS
  <2>3. t1 = k * ((bb - 2 * ab) + aa)
    BY <2>1
  <2> HIDE DEF ab, aa, bb, t1, t2
  <2>4. k * ((bb - 2 * ab) + aa) = (k * bb - 2 * (k * ab)) + k * aa
    BY <2>1
  <2>5. k * bb \in Int /\ k * ab \in Int /\ k * aa \in Int
    BY <2>1
  <2> QED
    BY <2>2, <2>3, <2>4, <2>5 DEF aa, bb
<1>6. Minus(g, m) = Frac(x, d)
  BY <1>2, <1>3, FracSums
<1> HIDE DEF x
<1>7. Times(Whole(k), Square(Minus(g, m))) = Frac(t1, dd)
  BY <1>4, <1>6, SquareFrac
<1>8. Times(Whole(k), Square(g)) = Frac(t3, dd) /\ Times(Whole(k), Square(m)) = Frac(t4, dd)
  BY <1>2, <1>3, SquareFrac
<1>9. Times(Times(Whole(k), g), Twice(m)) = Frac(t2, dd)
  <2> DEFINE kb == k * b
             a2 == 2 * a
  <2>1. kb \in Int /\ a2 \in Int
    OBVIOUS
  <2>2. Times(Whole(k), Frac(b, d)) = Frac(kb, d) /\ Times(Whole(2), Frac(a, d)) = Frac(a2, d)
    BY FracMultiples
  <2> HIDE DEF kb, a2
  <2>3. Times(Frac(kb, d), Frac(a2, d)) = Frac(kb * a2, d * d)
    BY <2>1, TimesFrac
  <2> QED
    BY <1>2, <1>3, <2>2, <2>3 DEF kb, a2, Twice
<1> HIDE DEF t1, t2, t3, t4, dd
<1>10. Plus(Frac(t1, dd), Frac(t2, dd)) = Frac(t1 + t2, dd)
  BY <1>4, FracSums
<1>11. Plus(Frac(t3, dd), Frac(t4, dd)) = Frac(t3 + t4, dd)
  BY <1>4, FracSums
<1> QED
  BY <1>5, <1>7, <1>8, <1>9, <1>10, <1>11

LEMMA PlusCancel ==
    ASSUME NEW x \in Fraction, NEW y \in Fraction, NEW z \in Fraction, Plus(x, z) = Plus(y, z)
    PROVE  x = y
<1>1. Plus(z, x) = Plus(z, y)
  BY PlusFacts
<1>2. Minus(Plus(z, x), z) = x /\ Minus(Plus(z, y), z) = y
  BY MinusPlus
<1> QED
  BY <1>1, <1>2

\* The same for a sum: A the squared distances from m, B the contributions, C their squares.
LEMMA Distances ==
    ASSUME NEW S, IsFiniteSet(S), NEW k, NEW g, NEW m \in Fraction, NEW A, NEW B, NEW C,
           \A x \in S : /\ k[x] \in Nat /\ g[x] \in Fraction
                        /\ A[x] = Times(Whole(k[x]), Square(Minus(g[x], m)))
                        /\ B[x] = Times(Whole(k[x]), g[x])
                        /\ C[x] = Times(Whole(k[x]), Square(g[x]))
    PROVE  /\ SumOf(A, S) \in Fraction /\ SumOf(B, S) \in Fraction /\ SumOf(C, S) \in Fraction
           /\ Plus(SumOf(A, S), Times(SumOf(B, S), Twice(m)))
                = Plus(SumOf(C, S), Times(Whole(Total(k, S)), Square(m)))
<1> DEFINE W == [x \in S |-> Whole(k[x])]
           D == [x \in S |-> Times(W[x], Square(m))]
           E == [x \in S |-> Times(B[x], Twice(m))]
           H == [x \in S |-> Plus(A[x], E[x])]
<1>1. Square(m) \in Fraction /\ Twice(m) \in Fraction
  BY TimesFacts, FracOne DEF Square, Twice
<1>2. ASSUME NEW x \in S
      PROVE  /\ A[x] \in Fraction /\ B[x] \in Fraction /\ C[x] \in Fraction
             /\ W[x] \in Fraction /\ D[x] \in Fraction /\ E[x] \in Fraction /\ H[x] \in Fraction
             /\ W[x] = Whole(k[x]) /\ D[x] = Times(W[x], Square(m))
             /\ E[x] = Times(B[x], Twice(m)) /\ H[x] = Plus(A[x], E[x])
             /\ H[x] = Plus(C[x], D[x])
  <2>1. Whole(k[x]) \in Fraction
    BY FracOne
  <2>2. /\ W[x] = Whole(k[x]) /\ D[x] = Times(W[x], Square(m))
        /\ E[x] = Times(B[x], Twice(m)) /\ H[x] = Plus(A[x], E[x])
    OBVIOUS
  <2> HIDE DEF W, D, E, H
  <2>3. Minus(g[x], m) \in Fraction
    BY MinusFacts
  <2>4. Square(Minus(g[x], m)) \in Fraction /\ Square(g[x]) \in Fraction
    BY <2>3, TimesFacts DEF Square
  <2>5. A[x] \in Fraction /\ B[x] \in Fraction /\ C[x] \in Fraction
    BY <2>1, <2>4, TimesFacts
  <2>6. D[x] \in Fraction /\ E[x] \in Fraction
    BY <1>1, <2>1, <2>2, <2>5, TimesFacts
  <2>7. H[x] = Plus(C[x], D[x])
    <3> DEFINE kx == k[x]
               gx == g[x]
    <3>1. kx \in Int /\ gx \in Fraction
      OBVIOUS
    <3>2. /\ A[x] = Times(Whole(kx), Square(Minus(gx, m))) /\ B[x] = Times(Whole(kx), gx)
          /\ C[x] = Times(Whole(kx), Square(gx)) /\ W[x] = Whole(kx)
      BY <2>2
    <3> HIDE DEF kx, gx
    <3>3. Plus(Times(Whole(kx), Square(Minus(gx, m))), Times(Times(Whole(kx), gx), Twice(m)))
             = Plus(Times(Whole(kx), Square(gx)), Times(Whole(kx), Square(m)))
      BY <3>1, Distance
    <3> QED
      BY <2>2, <3>2, <3>3
  <2> QED
    BY <2>1, <2>2, <2>5, <2>6, <2>7, PlusFacts
<1> HIDE DEF W, D, E, H
<1>3. SumOf(H, S) = Plus(SumOf(A, S), SumOf(E, S))
  BY <1>2, SumPlus
<1>4. SumOf(H, S) = Plus(SumOf(C, S), SumOf(D, S))
  BY <1>2, SumPlus
<1>5. SumOf(E, S) = Times(SumOf(B, S), Twice(m))
  BY <1>1, <1>2, SumMultiple
<1>6. SumOf(D, S) = Times(SumOf(W, S), Square(m))
  BY <1>1, <1>2, SumMultiple
<1>7. SumOf(W, S) = Whole(Total(k, S))
  BY <1>2, SumWhole
<1>8. SumOf(A, S) \in Fraction /\ SumOf(B, S) \in Fraction /\ SumOf(C, S) \in Fraction
  BY <1>2, SumStep
<1> QED
  BY <1>3, <1>4, <1>5, <1>6, <1>7, <1>8

\* Around the mean they leave n - 1 times the variance.
LEMMA AroundMean ==
    ASSUME NEW n \in Int, NEW v \in Fraction, NEW m \in Fraction, NEW X \in Fraction,
           Plus(X, Times(SumFrom(n, m), Twice(m)))
             = Plus(SquaresFrom(n, v, m), Times(Whole(n), Square(m)))
    PROVE  X = Times(Whole(n - 1), v)
<1> DEFINE a == m[1]
           d == m[2]
           aa == a * a
           dd == d * d
           h == Times(Whole(n), Square(m))
           w == Times(Whole(n - 1), v)
<1>1. a \in Int /\ d \in Nat \ {0} /\ m = Frac(a, d)
  BY FractionFrac
<1> HIDE DEF a, d
<1>2. aa \in Int /\ dd \in Nat \ {0} /\ n * aa \in Int
  BY <1>1
<1>3. h = Frac(n * aa, dd)
  BY <1>1, SquareFrac
<1>4. Times(SumFrom(n, m), Twice(m)) = Frac((n * a) * (2 * a), dd)
  <2> DEFINE na == n * a
             a2 == 2 * a
  <2>1. na \in Int /\ a2 \in Int
    BY <1>1
  <2>2. Times(Whole(n), Frac(a, d)) = Frac(na, d) /\ Times(Whole(2), Frac(a, d)) = Frac(a2, d)
    BY <1>1, FracMultiples
  <2> HIDE DEF na, a2
  <2>3. Times(Frac(na, d), Frac(a2, d)) = Frac(na * a2, d * d)
    BY <1>1, <2>1, TimesFrac
  <2> QED
    BY <1>1, <2>2, <2>3 DEF na, a2, Twice, SumFrom
<1>5. (n * a) * (2 * a) = n * aa + n * aa
  BY <1>1
<1> HIDE DEF aa, dd
<1> DEFINE r == n * aa
<1>6. Plus(Frac(r, dd), Frac(r, dd)) = Frac(r + r, dd) /\ Frac(r, dd) \in Fraction
  BY <1>2, FracSums, FracFacts
<1>7. Times(SumFrom(n, m), Twice(m)) = Plus(h, h) /\ h \in Fraction
  BY <1>3, <1>4, <1>5, <1>6
<1>8. w \in Fraction
  <2>1. Whole(n - 1) \in Fraction
    BY FracOne
  <2> QED
    BY <2>1, TimesFacts
<1>9. SquaresFrom(n, v, m) = Plus(w, h)
  BY DEF SquaresFrom, Square
<1> HIDE DEF h, w
<1>10. Plus(X, Plus(h, h)) = Plus(Plus(w, h), h)
  BY <1>7, <1>9 DEF h
<1>11. Plus(Plus(w, h), h) = Plus(w, Plus(h, h)) /\ Plus(h, h) \in Fraction
  BY <1>7, <1>8, PlusFour, PlusFacts
<1>12. X = w
  BY <1>8, <1>10, <1>11, PlusCancel
<1> QED
  BY <1>12 DEF w

-----------------------------------------------------------------------------
(* The moments of all R rounds, from those of the n that reached the item. *)

AllMean(n, R, m) == DividedBy(Times(Whole(n), m), R)
AllVariance(n, R, v, s) ==
    Plus(v, DividedBy(Times(Whole(R - n),
                            Minus(Times(Times(DividedBy(s, n), Whole(R)), s), v)),
                      R - 1))

LEMMA AllMeanIs ==
    ASSUME NEW n \in Nat, NEW R \in Nat \ {0}, NEW m \in Fraction
    PROVE  /\ AllMean(n, R, m) \in Fraction
           /\ Times(Whole(R), AllMean(n, R, m)) = SumFrom(n, m)
<1> DEFINE a == m[1]
           d == m[2]
           na == n * a
           s == AllMean(n, R, m)
<1>1. a \in Int /\ d \in Nat \ {0} /\ m = Frac(a, d)
  BY FractionFrac
<1> HIDE DEF a, d
<1>2. na \in Int /\ d * R \in Nat \ {0}
  BY <1>1
<1>3. SumFrom(n, m) = Frac(na, d)
  BY <1>1, FracMultiples DEF SumFrom
<1> HIDE DEF na
<1>4. s = Frac(na, d * R)
  BY <1>1, <1>2, <1>3, FracDivided DEF AllMean, SumFrom
<1>5. s \in Fraction
  BY <1>2, <1>4, FracFacts
<1> HIDE DEF s
<1>6. Times(Whole(R), Frac(na, d * R)) = Frac(R * na, d * R)
  <2> DEFINE dr == d * R
  <2> HIDE DEF dr
  <2>1. dr \in Nat \ {0}
    BY <1>2 DEF dr
  <2>2. Times(Whole(R), Frac(na, dr)) = Frac(R * na, dr)
    BY <1>2, <2>1, FracMultiples
  <2> QED
    BY <2>2 DEF dr
<1>7. R * na = na * R
  BY <1>2
<1>8. Frac(na * R, d * R) = Frac(na, d)
  BY <1>1, <1>2, FracExpand
<1> QED
  BY <1>3, <1>4, <1>5, <1>6, <1>7, <1>8 DEF s

LEMMA AllMeet ==
    ASSUME NEW n \in Int, NEW R \in Int, NEW a \in Int, NEW y \in Int
    PROVE  (y * (R - 1) + (R - n) * (a * (n * a) - y)) + (n * a) * (2 * (n * a))
             = ((n - 1) * y + (n * (a * a)) * R) + (n * a) * (n * a)
<1> DEFINE na == n * a
           p == n * (a * a)
           q == na * na
<1>1. p \in Int /\ na \in Int /\ q \in Int /\ a * na = p /\ n * p = q
  OBVIOUS
<1>2. na * (2 * na) = 2 * q
  BY <1>1
<1> HIDE DEF na, p, q
<1>3. (R - n) * (p - y) = (R * p - n * p) - (R * y - n * y)
  BY <1>1
<1>4. y * (R - 1) = R * y - y /\ (n - 1) * y = n * y - y /\ p * R = R * p
  BY <1>1
<1>5. R * y \in Int /\ n * y \in Int /\ R * p \in Int
  BY <1>1
<1>6. (y * (R - 1) + (R - n) * (p - y)) + 2 * q = ((n - 1) * y + p * R) + q
  BY <1>1, <1>3, <1>4, <1>5
<1> QED
  BY <1>1, <1>2, <1>6 DEF na, p, q

LEMMA AllVarianceIs ==
    ASSUME NEW n \in Nat \ {0}, NEW R \in Nat, R >= 2, NEW v \in Fraction, NEW m \in Fraction,
           NEW s, s = AllMean(n, R, m)
    PROVE  /\ AllVariance(n, R, v, s) \in Fraction
           /\ Plus(Times(Whole(R - 1), AllVariance(n, R, v, s)), Times(SumFrom(n, m), Twice(s)))
                = Plus(SquaresFrom(n, v, m), Times(Whole(R), Square(s)))
<1>1. PICK d \in Nat \ {0} : Over(v, d) /\ Over(m, d)
  BY OverOne
<1>2. PICK w \in Int : v = Frac(w, d)
  BY <1>1 DEF Over
<1>3. PICK a \in Int : m = Frac(a, d)
  BY <1>1 DEF Over
<1> DEFINE na == n * a
           dr == d * R
           k == d * dr
           y == w * dr
           p == a * na
           f == R - 1
           c == R - n
           z == p - y
           kf == k * f
           N == y * f + c * z
           aar == (n * (a * a)) * R
<1>4. /\ na \in Int /\ dr \in Nat \ {0} /\ f \in Nat \ {0} /\ c \in Int /\ R \in Nat \ {0}
      /\ R * a \in Int /\ R * a = a * R /\ n \in Int /\ n - 1 \in Int
  OBVIOUS
<1>5. k \in Nat \ {0} /\ y \in Int /\ p \in Int /\ dr * dr = k * R /\ k = (d * d) * R
  BY <1>4
<1>6. z \in Int /\ aar \in Int /\ na * na \in Int /\ na * (2 * na) \in Int /\ 2 * na \in Int
  <2> HIDE DEF y, p
  <2> QED
    BY <1>4, <1>5
<1>7. N \in Int /\ kf \in Nat \ {0}
  <2> HIDE DEF k, f, y, z, c
  <2> QED
    BY <1>4, <1>5, <1>6
<1>8. N + na * (2 * na) = ((n - 1) * y + aar) + na * na
  <2> HIDE DEF y
  <2> QED
    BY <1>5, AllMeet
<1>9. s = Frac(na, dr)
  <2>1. Times(Whole(n), Frac(a, d)) = Frac(na, d)
    BY <1>4, FracMultiples
  <2> HIDE DEF na
  <2>2. DividedBy(Frac(na, d), R) = Frac(na, d * R)
    BY <1>4, FracDivided
  <2> QED
    BY <1>3, <2>1, <2>2 DEF AllMean
<1>10. Times(DividedBy(s, n), Whole(R)) = m
  <2>1. na = a * n
    BY <1>4
  <2> HIDE DEF na, dr
  <2>2. DividedBy(Frac(na, dr), n) = Frac(na, dr * n)
    BY <1>4, FracDivided
  <2>3. Frac(a * n, dr * n) = Frac(a, dr)
    BY <1>4, FracExpand
  <2>4. Frac(a, dr) \in Fraction /\ Whole(R) \in Fraction
    BY <1>4, FracFacts, FracOne
  <2>5. Times(Frac(a, dr), Whole(R)) = Times(Whole(R), Frac(a, dr))
    BY <2>4, TimesFacts
  <2>6. Times(Whole(R), Frac(a, dr)) = Frac(R * a, dr)
    BY <1>4, FracMultiples
  <2>7. Frac(a * R, d * R) = Frac(a, d)
    BY <1>4, FracExpand
  <2> QED
    BY <1>3, <1>4, <1>9, <2>1, <2>2, <2>3, <2>5, <2>6, <2>7 DEF dr
<1>11. Times(m, s) = Frac(p, k)
  <2> HIDE DEF na, dr
  <2>1. Times(Frac(a, d), Frac(na, dr)) = Frac(a * na, d * dr)
    BY <1>4, TimesFrac
  <2> QED
    BY <1>3, <1>9, <2>1
<1>12. v = Frac(y, k)
  <2> HIDE DEF dr
  <2>1. Frac(w * dr, d * dr) = Frac(w, d)
    BY <1>4, FracExpand
  <2> QED
    BY <1>2, <2>1
<1>13. Times(SumFrom(n, m), Twice(s)) = Frac(na * (2 * na), k)
  <2>1. Times(Whole(n), Frac(a, d)) = Frac(na, d)
    BY <1>4, FracMultiples
  <2> DEFINE n2 == 2 * na
  <2> HIDE DEF na, dr
  <2>2. Times(Whole(2), Frac(na, dr)) = Frac(n2, dr) /\ n2 \in Int
    BY <1>4, FracMultiples
  <2> HIDE DEF n2
  <2>3. Times(Frac(na, d), Frac(n2, dr)) = Frac(na * n2, d * dr)
    BY <1>4, <2>2, TimesFrac
  <2> QED
    BY <1>3, <1>9, <2>1, <2>2, <2>3 DEF SumFrom, Twice, n2
<1>14. Times(Whole(R), Square(s)) = Frac(na * na, k)
  <2> DEFINE qq == na * na
  <2>1. qq \in Int
    BY <1>6
  <2> HIDE DEF na, dr, k
  <2>2. Times(Whole(R), Square(Frac(na, dr))) = Frac(R * (na * na), dr * dr)
    BY <1>4, SquareFrac
  <2> HIDE DEF qq
  <2>3. R * qq = qq * R
    BY <1>4, <2>1
  <2>4. Frac(qq * R, k * R) = Frac(qq, k)
    BY <1>4, <1>5, <2>1, FracExpand
  <2> QED
    BY <1>5, <1>9, <2>2, <2>3, <2>4 DEF qq
<1>15. Times(Whole(n), Times(m, m)) = Frac(aar, k)
  <2> DEFINE naa == n * (a * a)
             dd == d * d
  <2>1. naa \in Int /\ dd \in Nat \ {0}
    BY <1>4
  <2>2. Times(Whole(n), Square(Frac(a, d))) = Frac(naa, dd)
    BY <1>4, SquareFrac
  <2> HIDE DEF naa, dd
  <2>3. Frac(naa * R, dd * R) = Frac(naa, dd)
    BY <1>4, <2>1, FracExpand
  <2> QED
    BY <1>3, <1>5, <2>2, <2>3 DEF naa, dd, Square
<1> HIDE DEF aar, N, kf, z, c, f, p, y, k, dr
<1>16. Times(Whole(n - 1), v) = Frac((n - 1) * y, k) /\ (n - 1) * y \in Int
  <2> DEFINE l == n - 1
  <2>1. l \in Int
    BY <1>4
  <2> HIDE DEF l
  <2>2. Times(Whole(l), Frac(y, k)) = Frac(l * y, k) /\ l * y \in Int
    BY <1>5, <2>1, FracMultiples
  <2> QED
    BY <1>12, <2>2 DEF l
<1>17. Minus(Times(m, s), v) = Frac(z, k)
  <2>1. Minus(Frac(p, k), Frac(y, k)) = Frac(p - y, k)
    BY <1>5, FracSums
  <2> QED
    BY <1>11, <1>12, <2>1 DEF z
<1> DEFINE cz == c * z
           yf == y * f
<1>18. cz \in Int /\ yf \in Int /\ N = yf + cz
  BY <1>4, <1>5, <1>6 DEF N
<1>19. Times(Whole(c), Frac(z, k)) = Frac(cz, k)
  BY <1>4, <1>5, <1>6, FracMultiples
<1> HIDE DEF cz
<1>20. DividedBy(Frac(cz, k), f) = Frac(cz, k * f)
  BY <1>4, <1>5, <1>18, FracDivided
<1>21. Frac(y * f, k * f) = Frac(y, k)
  <2>1. y \in Int /\ k \in Nat \ {0} /\ f \in Nat \ {0}
    BY <1>4, <1>5
  <2> QED
    BY ONLY <2>1, FracExpand
<1> HIDE DEF yf
<1>22. Plus(Frac(yf, kf), Frac(cz, kf)) = Frac(yf + cz, kf)
  BY <1>7, <1>18, FracSums
<1>23. AllVariance(n, R, v, s) = Frac(N, kf)
  <2>1. AllVariance(n, R, v, s)
          = Plus(v, DividedBy(Times(Whole(c), Minus(Times(m, s), v)), f))
    BY <1>10 DEF AllVariance, c, f
  <2> QED
    BY <2>1, <1>12, <1>17, <1>18, <1>19, <1>20, <1>21, <1>22 DEF kf, yf
<1>24. Times(Whole(f), Frac(N, kf)) = Frac(N, k)
  <2>1. Times(Whole(f), Frac(N, kf)) = Frac(f * N, kf)
    BY <1>4, <1>7, FracMultiples
  <2>2. f * N = N * f
    BY <1>4, <1>7
  <2>3. Frac(N * f, k * f) = Frac(N, k)
    <3>1. \A i \in Int, j, l \in Nat \ {0} : Frac(i * l, j * l) = Frac(i, j)
      BY FracExpand
    <3>2. N \in Int /\ k \in Nat \ {0} /\ f \in Nat \ {0}
      BY <1>4, <1>5, <1>7
    <3> QED
      BY <3>1, <3>2
  <2> QED
    BY <2>1, <2>2, <2>3 DEF kf
<1> DEFINE t1 == na * (2 * na)
           t2 == na * na
           t3 == (n - 1) * y
<1>25. t1 \in Int /\ t2 \in Int /\ t3 \in Int /\ N + t1 = (t3 + aar) + t2
  BY <1>6, <1>8, <1>16
<1> HIDE DEF t1, t2, t3
<1>26. Plus(Frac(N, k), Frac(t1, k)) = Frac(N + t1, k)
  BY <1>5, <1>7, <1>25, FracSums
<1>27. Plus(Frac(t3, k), Frac(aar, k)) = Frac(t3 + aar, k) /\ t3 + aar \in Int
  BY <1>5, <1>6, <1>25, FracSums
<1> DEFINE t4 == t3 + aar
<1> HIDE DEF t4
<1>28. Plus(Frac(t4, k), Frac(t2, k)) = Frac(t4 + t2, k)
  BY <1>5, <1>25, <1>27, FracSums DEF t4
<1>29. AllVariance(n, R, v, s) \in Fraction
  BY <1>7, <1>23, FracFacts
<1>30. Plus(Times(Whole(R - 1), AllVariance(n, R, v, s)), Times(SumFrom(n, m), Twice(s)))
         = Frac(N + t1, k)
  BY <1>13, <1>23, <1>24, <1>26 DEF f, t1
<1>31. Plus(SquaresFrom(n, v, m), Times(Whole(R), Square(s))) = Frac(t4 + t2, k)
  BY <1>14, <1>15, <1>16, <1>27, <1>28 DEF SquaresFrom, t2, t3, t4
<1> QED
  BY <1>25, <1>29, <1>30, <1>31 DEF t4

\* Around the mean of all rounds, the R - n at zero included, they leave R - 1 times
\* the variance of all.
LEMMA AroundAll ==
    ASSUME NEW n \in Nat \ {0}, NEW R \in Nat, R >= 2, NEW v \in Fraction, NEW m \in Fraction,
           NEW s, s = AllMean(n, R, m), NEW X \in Fraction,
           Plus(X, Times(SumFrom(n, m), Twice(s)))
             = Plus(SquaresFrom(n, v, m), Times(Whole(n), Square(s)))
    PROVE  Times(Whole(R - 1), AllVariance(n, R, v, s))
             = Plus(X, Times(Whole(R - n), Square(s)))
<1> DEFINE V == Times(Whole(R - 1), AllVariance(n, R, v, s))
           t == Times(SumFrom(n, m), Twice(s))
           Q == SquaresFrom(n, v, m)
           h1 == Times(Whole(n), Square(s))
           h2 == Times(Whole(R - n), Square(s))
           h == Times(Whole(R), Square(s))
<1>1. AllVariance(n, R, v, s) \in Fraction /\ Plus(V, t) = Plus(Q, h)
  BY AllVarianceIs
<1>2. s \in Fraction
  BY AllMeanIs
<1>3. Square(s) \in Fraction /\ Twice(s) \in Fraction /\ Square(m) \in Fraction
  BY <1>2, TimesFacts, FracOne DEF Square, Twice
<1>4. \A i \in Int : Whole(i) \in Fraction
  BY FracOne
<1>5. R - n \in Int /\ R - 1 \in Int /\ n - 1 \in Int /\ n \in Int /\ R \in Int /\ n + (R - n) = R
  OBVIOUS
<1>6. V \in Fraction /\ h \in Fraction /\ h1 \in Fraction /\ h2 \in Fraction /\ t \in Fraction
  BY <1>1, <1>3, <1>4, <1>5, TimesFacts DEF SumFrom
<1>7. Q \in Fraction
  BY <1>3, <1>4, <1>5, TimesFacts, PlusFacts DEF SquaresFrom, Square
<1>8. h = Plus(h1, h2)
  <2>1. Plus(Whole(n), Whole(R - n)) = Whole(R)
    BY <1>5, WholePlus
  <2>2. Times(Plus(Whole(n), Whole(R - n)), Square(s)) = Plus(h1, h2)
    BY <1>3, <1>4, <1>5, TimesPlus
  <2> QED
    BY <2>1, <2>2
<1>9. Plus(X, t) = Plus(Q, h1)
  OBVIOUS
<1> HIDE DEF V, t, Q, h1, h2, h
<1>10. Plus(V, t) = Plus(Plus(Q, h1), h2)
  BY <1>1, <1>6, <1>7, <1>8, PlusFour
<1>11. Plus(Plus(X, t), h2) = Plus(Plus(X, h2), t)
  <2>1. Plus(Plus(X, t), h2) = Plus(X, Plus(t, h2)) /\ Plus(Plus(X, h2), t) = Plus(X, Plus(h2, t))
    BY <1>6, PlusFour
  <2> QED
    BY <1>6, <2>1, PlusFacts
<1>12. Plus(X, h2) \in Fraction
  BY <1>6, PlusFacts
<1>13. V = Plus(X, h2)
  BY <1>6, <1>9, <1>10, <1>11, <1>12, PlusCancel
<1> QED
  BY <1>13 DEF V, h2

-----------------------------------------------------------------------------
(* The invariant.                                                          *)

Wanted == Items \ {VqMap}

\* v has been brought to the moments of all rounds.
Scaled(v) == pc \in {"scale", "done"} /\ v \in Act \ todo

\* The sum of the squares of the contributions that reached v.
SquareSum(v) == Weighted([p \in Pairs |-> Square(Gamma(p))], v)

Control ==
    /\ nbrs \in Neighbours /\ rounds \in Rounds
    /\ pc \in {"direct", "draw", "update", "scale", "done"}
    /\ pc \in {"direct", "draw", "done"} => todo = {}
    /\ pc = "update" => todo \subseteq {p \in Pairs : drawn[p] > 0}
    /\ pc = "scale" => todo \subseteq Act

Counted ==
    /\ drawn \in [Pairs -> Nat]
    /\ RoundsDrawn <= rounds
    /\ pc \in {"update", "scale", "done"} => RoundsDrawn = rounds

Shape ==
    /\ Act \subseteq Wanted
    /\ exRound \in [Items -> Nat]
    /\ swing \in [Items -> Fraction]
    /\ variance \in [Items -> Fraction \cup {NaN}]

Touched ==
    /\ \A v \in Wanted : v \in Act <=> Hits(v) > 0
    /\ \A v \in Items \ Act : exRound[v] = 0 /\ swing[v] = Zero /\ variance[v] = Zero

\* Over the rounds that reached v: the moments give the sum of the contributions
\* and the sum of their squares.
StreamOf(v) ==
    /\ exRound[v] = Hits(v) /\ variance[v] \in Fraction
    /\ Contributed(v) = SumFrom(Hits(v), swing[v])
    /\ SquareSum(v) = SquaresFrom(Hits(v), variance[v], swing[v])

\* Over all rounds.
AllOf(v) ==
    /\ exRound[v] = rounds
    /\ Times(Whole(rounds), swing[v]) = Contributed(v)
    /\ rounds >= 2 =>
          /\ variance[v] \in Fraction
          /\ Times(Whole(rounds - 1), variance[v])
               = Plus(Squares(v, swing[v]), Times(Whole(rounds - Hits(v)), Square(swing[v])))

MomentsKept ==
    \A v \in Wanted : (Scaled(v) => AllOf(v)) /\ (~ Scaled(v) => StreamOf(v))

Inv == Control /\ Counted /\ Shape /\ Touched /\ MomentsKept

-----------------------------------------------------------------------------
(* Pairs, draws and sums over them.                                        *)

LEMMA PairFacts ==
    /\ IsFiniteSet(Pairs) /\ IsFiniteSet(Items) /\ Dvq \in Nat /\ Dvq >= 2 /\ NumPairs \in Int
    /\ Rounds \subseteq Nat /\ Alpha \in Nat \ {0} /\ DirectOver \in Nat
    /\ \A v : Reaching(v) \in SUBSET Pairs /\ IsFiniteSet(Reaching(v))
<1>1. Dvq \in Nat /\ Dvq >= 2 /\ IsFiniteSet(Items) /\ Rounds \subseteq Nat
      /\ Alpha \in Nat \ {0} /\ DirectOver \in Nat
  BY ParametersOK
<1>2. IsFiniteSet(Users)
  <2>1. 0 \in Int /\ Dvq - 1 \in Int
    BY <1>1
  <2> QED
    BY <2>1, FS_Interval DEF Users
<1>3. IsFiniteSet(Users \X Users)
  BY <1>2, FS_Product
<1>4. IsFiniteSet(Pairs)
  BY <1>3, FS_Subset DEF Pairs
<1>5. NumPairs \in Int
  <2>1. Dvq * (Dvq - 1) \in Int
    BY <1>1
  <2> QED
    BY <2>1 DEF NumPairs
<1>6. \A v : Reaching(v) \in SUBSET Pairs /\ IsFiniteSet(Reaching(v))
  BY <1>4, FS_Subset DEF Reaching
<1> QED
  BY <1>1, <1>4, <1>5, <1>6

LEMMA GammaFacts ==
    ASSUME nbrs \in Neighbours
    PROVE  \A p \in Pairs : /\ Gamma(p) \in Fraction /\ Square(Gamma(p)) \in Fraction
                            /\ Common(p) \subseteq Items
<1> SUFFICES ASSUME NEW p \in Pairs
             PROVE  /\ Gamma(p) \in Fraction /\ Square(Gamma(p)) \in Fraction
                    /\ Common(p) \subseteq Items
  OBVIOUS
<1>1. Common(p) \subseteq Items
  <2>1. p[1] \in Users /\ nbrs \in [Users -> SUBSET Items]
    BY ParametersOK DEF Pairs
  <2> QED
    BY <2>1 DEF Common
<1>2. Cardinality(Common(p)) \in Nat
  BY <1>1, PairFacts, FS_Subset, FS_CardinalityType
<1>3. Alpha + Cardinality(Common(p)) \in Nat \ {0}
  BY <1>2, PairFacts
<1>4. Gamma(p) \in Fraction
  BY <1>3, PairFacts, FracFacts DEF Gamma
<1> QED
  BY <1>1, <1>4, TimesFacts DEF Square

LEMMA DrawnPairs ==
    ASSUME NEW k1 \in 0..(Dvq - 1), NEW k2 \in 0..(Dvq - 2)
    PROVE  DrawnPair(k1, k2) \in Pairs
<1>1. k1 \in Int /\ k2 \in Int /\ Dvq \in Int
  BY PairFacts
<1> DEFINE l == IF k2 >= k1 THEN k2 + 1 ELSE k2
<1>2. l \in 0..(Dvq - 1) /\ l # k1
  BY <1>1
<1>3. DrawnPair(k1, k2) = IF k1 > l THEN <<l, k1>> ELSE <<k1, l>>
  BY DEF DrawnPair
<1> HIDE DEF l
<1> QED
  BY <1>1, <1>2, <1>3 DEF Pairs, Users

\* Used is a number for every pair, no more than was drawn.
LEMMA UsedFacts ==
    ASSUME Control, Counted
    PROVE  /\ Used \in [Pairs -> Nat] /\ \A p \in Pairs : Used[p] <= drawn[p]
           /\ rounds \in Nat
           /\ \A v : Hits(v) \in Nat /\ Hits(v) <= rounds
<1>1. Used \in [Pairs -> Nat] /\ \A p \in Pairs : Used[p] <= drawn[p] /\ drawn[p] \in Nat
  BY DEF Used, Counted
<1>2. rounds \in Nat
  BY PairFacts DEF Control
<1>3. ASSUME NEW v PROVE Hits(v) \in Nat /\ Hits(v) <= rounds
  <2>1. Total(Used, Reaching(v)) <= Total(drawn, Pairs)
    BY <1>1, PairFacts, TotalLeq
  <2>2. Total(Used, Reaching(v)) \in Nat /\ Total(drawn, Pairs) \in Nat
    BY <1>1, PairFacts, TotalStep
  <2> QED
    BY <1>2, <2>1, <2>2 DEF Hits, Counted, RoundsDrawn
<1> QED
  BY <1>1, <1>2, <1>3

WeightedBy(U, f, S) == SumOf([p \in Pairs |-> Times(Whole(U[p]), f[p])], S)

LEMMA WeightedFacts ==
    ASSUME NEW U \in [Pairs -> Nat], NEW f, \A p \in Pairs : f[p] \in Fraction,
           NEW S \in SUBSET Pairs
    PROVE  WeightedBy(U, f, S) \in Fraction
<1> DEFINE h == [p \in Pairs |-> Times(Whole(U[p]), f[p])]
<1>1. \A p \in Pairs : h[p] \in Fraction
  BY FracOne, TimesFacts
<1>2. IsFiniteSet(S)
  BY PairFacts, FS_Subset
<1> HIDE DEF h
<1>3. SumOf(h, S) \in Fraction
  BY <1>1, <1>2, SumStep
<1> QED
  BY <1>3 DEF h, WeightedBy

\* What becomes of a sum over S when q is used c times more.
Grows(U, W, q, c, f, S) ==
    IF q \in S
    THEN /\ WeightedBy(W, f, S) = Plus(WeightedBy(U, f, S), Times(Whole(c), f[q]))
         /\ Total(W, S) = Total(U, S) + c
    ELSE /\ WeightedBy(W, f, S) = WeightedBy(U, f, S)
         /\ Total(W, S) = Total(U, S)

LEMMA WeightedGrow ==
    ASSUME NEW U \in [Pairs -> Nat], NEW W, NEW q \in Pairs, NEW c \in Nat,
           W = [U EXCEPT ![q] = @ + c], NEW f, \A p \in Pairs : f[p] \in Fraction,
           NEW S \in SUBSET Pairs
    PROVE  Grows(U, W, q, c, f, S)
<1> DEFINE h == [p \in Pairs |-> Times(Whole(U[p]), f[p])]
           k == [p \in Pairs |-> Times(Whole(W[p]), f[p])]
<1>1. IsFiniteSet(S)
  BY PairFacts, FS_Subset
<1>2. W \in [Pairs -> Nat] /\ W[q] = U[q] + c /\ \A p \in Pairs \ {q} : W[p] = U[p]
  OBVIOUS
<1>3. /\ \A p \in Pairs : h[p] \in Fraction /\ k[p] \in Fraction
      /\ \A p \in Pairs \ {q} : k[p] = h[p]
      /\ h[q] = Times(Whole(U[q]), f[q]) /\ k[q] = Times(Whole(W[q]), f[q])
  BY <1>2, FracOne, TimesFacts
<1>4. Times(Whole(c), f[q]) \in Fraction
  BY FracOne, TimesFacts
<1>5. k[q] = Plus(h[q], Times(Whole(c), f[q]))
  <2> DEFINE u == U[q]
             x == f[q]
  <2>1. u \in Int /\ c \in Int /\ x \in Fraction /\ W[q] = u + c
    BY <1>2
  <2> HIDE DEF u, x
  <2>2. Plus(Whole(u), Whole(c)) = Whole(u + c) /\ Whole(u) \in Fraction /\ Whole(c) \in Fraction
    BY <2>1, WholePlus, FracOne
  <2>3. Times(Plus(Whole(u), Whole(c)), x) = Plus(Times(Whole(u), x), Times(Whole(c), x))
    BY <2>1, <2>2, TimesPlus
  <2> QED
    BY <1>3, <2>1, <2>2, <2>3 DEF u, x
<1>6. WeightedBy(U, f, S) = SumOf(h, S) /\ WeightedBy(W, f, S) = SumOf(k, S)
  BY DEF WeightedBy
<1> HIDE DEF h, k
<1>7. ASSUME q \in S PROVE SumOf(k, S) = Plus(SumOf(h, S), Times(Whole(c), f[q]))
  <2>1. /\ \A p \in S : h[p] \in Fraction
        /\ \A p \in S \ {q} : k[p] = h[p]
    BY <1>3
  <2> DEFINE t == Times(Whole(c), f[q])
  <2>2. t \in Fraction /\ k[q] = Plus(h[q], t) /\ q \in S
    BY <1>4, <1>5, <1>7
  <2> HIDE DEF t
  <2>3. SumOf(k, S) = Plus(SumOf(h, S), t)
    BY <1>1, <2>1, <2>2, SumGrow
  <2> QED
    BY <2>3 DEF t
<1>8. ASSUME q \notin S PROVE SumOf(k, S) = SumOf(h, S)
  BY <1>1, <1>3, <1>8, SumSame
<1>9. ASSUME q \in S PROVE Total(W, S) = Total(U, S) + c
  <2>1. /\ \A p \in S : U[p] \in Nat
        /\ \A p \in S \ {q} : W[p] = U[p]
        /\ W[q] = U[q] + c
    BY <1>2
  <2> QED
    BY ONLY <1>1, <1>9, <2>1, c \in Nat, TotalGrow
<1>10. ASSUME q \notin S PROVE Total(W, S) = Total(U, S)
  <2>1. \A p \in S : U[p] \in Nat /\ W[p] = U[p]
    BY <1>2, <1>10
  <2> QED
    BY <1>1, <2>1, TotalSame
<1> QED
  BY <1>6, <1>7, <1>8, <1>9, <1>10 DEF Grows

\* The squared distances of the contributions from x.
LEMMA AroundOf ==
    ASSUME Control, Counted, NEW v, NEW x \in Fraction
    PROVE  /\ Squares(v, x) \in Fraction
           /\ Plus(Squares(v, x), Times(Contributed(v), Twice(x)))
                = Plus(SquareSum(v), Times(Whole(Hits(v)), Square(x)))
<1> DEFINE S == Reaching(v)
           g == [p \in Pairs |-> Gamma(p)]
           d == [p \in Pairs |-> Times(Minus(Gamma(p), x), Minus(Gamma(p), x))]
           h == [p \in Pairs |-> Square(Gamma(p))]
           A == [p \in Pairs |-> Times(Whole(Used[p]), d[p])]
           B == [p \in Pairs |-> Times(Whole(Used[p]), g[p])]
           C == [p \in Pairs |-> Times(Whole(Used[p]), h[p])]
<1>1. /\ Squares(v, x) = SumOf(A, S) /\ Contributed(v) = SumOf(B, S)
      /\ SquareSum(v) = SumOf(C, S) /\ Hits(v) = Total(Used, S)
  BY DEF Squares, Contributed, SquareSum, Weighted, Hits
<1>2. IsFiniteSet(S) /\ S \subseteq Pairs
  BY PairFacts
<1>3. \A p \in S : /\ Used[p] \in Nat /\ g[p] \in Fraction
                   /\ A[p] = Times(Whole(Used[p]), Square(Minus(g[p], x)))
                   /\ B[p] = Times(Whole(Used[p]), g[p])
                   /\ C[p] = Times(Whole(Used[p]), Square(g[p]))
  <2>1. \A p \in Pairs : Gamma(p) \in Fraction /\ Used[p] \in Nat
    BY UsedFacts, GammaFacts DEF Control
  <2> QED
    BY <1>2, <2>1 DEF Square
<1> HIDE DEF A, B, C, d, g, h, S
<1>4. /\ SumOf(A, S) \in Fraction
      /\ Plus(SumOf(A, S), Times(SumOf(B, S), Twice(x)))
            = Plus(SumOf(C, S), Times(Whole(Total(Used, S)), Square(x)))
  BY <1>2, <1>3, Distances
<1> QED
  BY <1>1, <1>4

-----------------------------------------------------------------------------
(* Steps that use no draw.                                                 *)

LEMMA SameNbrs ==
    ASSUME UNCHANGED nbrs
    PROVE  /\ \A p : Common(p)' = Common(p) /\ Gamma(p)' = Gamma(p)
           /\ \A v : Reaching(v)' = Reaching(v)
<1>1. \A p : Common(p)' = Common(p)
  BY DEF Common
<1>2. \A p : Gamma(p)' = Gamma(p)
  BY <1>1 DEF Gamma
<1>3. \A v : Reaching(v)' = Reaching(v)
  BY <1>1 DEF Reaching
<1> QED
  BY <1>1, <1>2, <1>3

LEMMA SameUsed ==
    ASSUME UNCHANGED nbrs, Used' = Used
    PROVE  \A v : /\ Hits(v)' = Hits(v)
                  /\ Contributed(v)' = Contributed(v) /\ SquareSum(v)' = SquareSum(v)
<1> USE SameNbrs
<1>1. \A v : Hits(v)' = Hits(v)
  BY DEF Hits
<1>2. \A v : Contributed(v)' = Contributed(v)
  BY DEF Contributed, Weighted
<1>3. \A v : SquareSum(v)' = SquareSum(v)
  BY DEF SquareSum, Weighted
<1> QED
  BY <1>1, <1>2, <1>3

\* Nothing changes but the control state, and no item is newly scaled.
LEMMA QuietKeeps ==
    ASSUME Shape, Touched, MomentsKept,
           UNCHANGED <<nbrs, rounds, Act, exRound, swing, variance>>, Used' = Used,
           \A v \in Wanted : Scaled(v)' <=> Scaled(v)
    PROVE  Shape' /\ Touched' /\ MomentsKept'
<1>1. Shape'
  BY DEF Shape, Wanted
<1>2. Touched'
  BY SameUsed DEF Touched, Wanted
<1>3. ASSUME NEW v \in Wanted, AllOf(v) PROVE AllOf(v)'
  <2>1. Squares(v, swing[v])' = Squares(v, swing[v])
    BY SameNbrs DEF Squares, Weighted
  <2> QED
    BY <1>3, <2>1, SameUsed DEF AllOf
<1>4. ASSUME NEW v \in Wanted, StreamOf(v) PROVE StreamOf(v)'
  BY <1>4, SameUsed DEF StreamOf
<1>5. Wanted' = Wanted
  BY DEF Wanted
<1>6. MomentsKept'
  BY <1>3, <1>4, <1>5 DEF MomentsKept
<1> QED
  BY <1>1, <1>2, <1>6

LEMMA InitInv == Init => Inv
<1> SUFFICES ASSUME Init PROVE Inv
  OBVIOUS
<1>1. Control
  BY DEF Init, Control
<1>2. \A p \in Pairs : drawn[p] = 0 /\ Used[p] = 0
  BY DEF Init, Used
<1>3. Counted
  <2>1. RoundsDrawn = 0
    BY <1>2, PairFacts, TotalZero DEF RoundsDrawn
  <2>2. rounds \in Nat
    BY PairFacts DEF Init
  <2> QED
    BY <2>1, <2>2 DEF Init, Counted
<1>4. Zero \in Fraction
  BY FracOne DEF Zero
<1>5. Shape
  BY <1>4 DEF Init, Shape
<1>6. \A v : Hits(v) = 0
  BY <1>2, PairFacts, TotalZero DEF Hits
<1>7. Touched
  BY <1>6 DEF Touched, Init, Wanted
<1>8. ASSUME NEW v, NEW f, \A p \in Pairs : f[p] \in Fraction PROVE Weighted(f, v) = Zero
  <2> DEFINE h == [p \in Pairs |-> Times(Whole(Used[p]), f[p])]
  <2>1. \A p \in Reaching(v) : h[p] = Whole(0)
    BY <1>2, <1>8, PairFacts, TimesFacts
  <2> HIDE DEF h
  <2>2. SumOf(h, Reaching(v)) = Whole(0)
    BY <2>1, PairFacts, SumZero
  <2> QED
    BY <2>2 DEF h, Weighted, Zero
<1>9. ASSUME NEW v \in Wanted PROVE StreamOf(v)
  <2>1. nbrs \in Neighbours /\ exRound[v] = 0 /\ swing[v] = Zero /\ variance[v] = Zero
    BY DEF Init, Wanted
  <2>2. Contributed(v) = Zero /\ SquareSum(v) = Zero
    BY <1>8, <2>1, GammaFacts DEF Contributed, SquareSum
  <2>3. SumFrom(0, Zero) = Zero
    BY <1>4, TimesFacts DEF SumFrom, Zero
  <2>4. SquaresFrom(0, Zero, Zero) = Zero
    <3>1. 0 - 1 \in Int
      OBVIOUS
    <3>2. Whole(0 - 1) \in Fraction
      BY <3>1, FracOne
    <3>3. Times(Whole(0 - 1), Zero) = Zero /\ Times(Whole(0), Times(Zero, Zero)) = Zero
      BY <1>4, <3>2, TimesFacts DEF Zero
    <3> QED
      BY <1>4, <3>3, PlusFacts DEF SquaresFrom, Zero
  <2> QED
    BY <1>4, <1>6, <2>1, <2>2, <2>3, <2>4 DEF StreamOf
<1>10. MomentsKept
  BY <1>9 DEF MomentsKept, Scaled, Init
<1> QED
  BY <1>1, <1>3, <1>5, <1>7, <1>10 DEF Inv

LEMMA CollectKeeps == Inv /\ Collect => Inv'
<1> SUFFICES ASSUME Inv, Collect PROVE Inv'
  OBVIOUS
<1>0. /\ pc = "draw" /\ RoundsDrawn < rounds
      /\ UNCHANGED <<nbrs, rounds, pc, todo, Act, exRound, swing, variance>>
  BY DEF Collect
<1>1. PICK p \in Pairs : drawn' = [drawn EXCEPT ![p] = @ + 1]
  <2>1. PICK k1 \in 0..(Dvq - 1), k2 \in 0..(Dvq - 2) : Draw(DrawnPair(k1, k2))
    BY DEF Collect
  <2> QED
    BY <2>1, DrawnPairs DEF Draw
<1>2. Control'
  BY <1>0 DEF Inv, Control
<1>3. Counted'
  <2>1. drawn' \in [Pairs -> Nat]
    BY <1>1 DEF Inv, Counted
  <2>2. Total(drawn', Pairs) = Total(drawn, Pairs) + 1
    BY <1>1, PairFacts, TotalBump DEF Inv, Counted
  <2>3. Total(drawn, Pairs) \in Nat
    BY PairFacts, TotalStep DEF Inv, Counted
  <2>4. rounds \in Nat
    BY UsedFacts DEF Inv
  <2> QED
    BY <1>0, <2>1, <2>2, <2>3, <2>4 DEF Counted, RoundsDrawn
<1>4. Used' = Used
  BY <1>0 DEF Used
<1>5. \A v \in Wanted : Scaled(v)' <=> Scaled(v)
  BY <1>0 DEF Scaled
<1>6. Shape' /\ Touched' /\ MomentsKept'
  BY <1>0, <1>4, <1>5, QuietKeeps DEF Inv
<1> QED
  BY <1>2, <1>3, <1>6 DEF Inv

\* A step that only moves the control state and changes what is to be done.
LEMMA ControlKeeps ==
    ASSUME Inv, UNCHANGED <<nbrs, rounds, drawn, Act, exRound, swing, variance>>,
           Control', pc' \in {"update", "scale", "done"} => RoundsDrawn = rounds, Used' = Used,
           \A v \in Wanted : Scaled(v)' <=> Scaled(v)
    PROVE  Inv'
<1>1. Counted'
  BY DEF Inv, Counted, RoundsDrawn
<1>2. Shape' /\ Touched' /\ MomentsKept'
  BY QuietKeeps DEF Inv
<1> QED
  BY <1>1, <1>2 DEF Inv

LEMMA StartUpdatesKeeps == Inv /\ StartUpdates => Inv'
<1> SUFFICES ASSUME Inv, StartUpdates PROVE Inv'
  OBVIOUS
<1>0. /\ pc = "draw" /\ RoundsDrawn = rounds /\ pc' = "update"
      /\ todo' = {p \in Pairs : drawn[p] > 0}
      /\ UNCHANGED <<nbrs, rounds, drawn, Act, exRound, swing, variance>>
  BY DEF StartUpdates
<1>1. Control'
  BY <1>0 DEF Inv, Control
<1>2. Used' = Used
  <2>1. \A p \in Pairs : drawn[p] \in Nat
    BY DEF Inv, Counted
  <2>2. \A p \in Pairs : p \notin todo' => drawn[p] = 0
    BY <1>0, <2>1
  <2> QED
    BY <1>0, <2>2 DEF Used
<1>3. \A v \in Wanted : Scaled(v)' <=> Scaled(v)
  BY <1>0 DEF Scaled
<1> QED
  BY <1>0, <1>1, <1>2, <1>3, ControlKeeps

LEMMA StartScalingKeeps == Inv /\ StartScaling => Inv'
<1> SUFFICES ASSUME Inv, StartScaling PROVE Inv'
  OBVIOUS
<1>0. /\ pc' = "scale" /\ todo' = Act
      /\ \/ pc = "direct" /\ RoundsDrawn = rounds
         \/ pc = "update" /\ todo = {}
      /\ UNCHANGED <<nbrs, rounds, drawn, Act, exRound, swing, variance>>
  BY DEF StartScaling
<1>1. Control'
  BY <1>0 DEF Inv, Control
<1>2. Used' = Used
  BY <1>0 DEF Used
<1>3. \A v \in Wanted : Scaled(v)' <=> Scaled(v)
  BY <1>0 DEF Scaled
<1>4. RoundsDrawn = rounds
  BY <1>0 DEF Inv, Counted
<1> QED
  BY <1>0, <1>1, <1>2, <1>3, <1>4, ControlKeeps

LEMMA FinishKeeps == Inv /\ Finish => Inv'
<1> SUFFICES ASSUME Inv, Finish PROVE Inv'
  OBVIOUS
<1>0. /\ pc = "scale" /\ pc' = "done" /\ todo = {}
      /\ UNCHANGED <<nbrs, rounds, drawn, todo, Act, exRound, swing, variance>>
  BY DEF Finish
<1>1. Control'
  BY <1>0 DEF Inv, Control
<1>2. Used' = Used
  BY <1>0 DEF Used
<1>3. \A v \in Wanted : Scaled(v)' <=> Scaled(v)
  BY <1>0 DEF Scaled
<1>4. RoundsDrawn = rounds
  BY <1>0 DEF Inv, Counted
<1> QED
  BY <1>0, <1>1, <1>2, <1>3, <1>4, ControlKeeps

LEMMA StutterKeeps == Inv /\ UNCHANGED vars => Inv'
<1> SUFFICES ASSUME Inv, UNCHANGED vars PROVE Inv'
  OBVIOUS
<1>0. UNCHANGED <<nbrs, rounds, pc, drawn, todo, Act, exRound, swing, variance>>
  BY DEF vars
<1>1. Control'
  BY <1>0 DEF Inv, Control
<1>2. Used' = Used
  BY <1>0 DEF Used
<1>3. \A v \in Wanted : Scaled(v)' <=> Scaled(v)
  BY <1>0 DEF Scaled
<1>4. pc \in {"update", "scale", "done"} => RoundsDrawn = rounds
  BY DEF Inv, Counted
<1> QED
  BY <1>0, <1>1, <1>2, <1>3, <1>4, ControlKeeps

-----------------------------------------------------------------------------
(* Using draws.                                                            *)

\* The first contributions to an item, and those that follow.
LEMMA FirstUse ==
    ASSUME NEW c \in Nat \ {0}, NEW g \in Fraction
    PROVE  /\ NewMean(0, c, Zero, g) = g
           /\ SumFrom(c, g) = Plus(SumFrom(0, Zero), Times(Whole(c), g))
           /\ SquaresFrom(c, Zero, g) = Plus(SquaresFrom(0, Zero, Zero), Times(Whole(c), Square(g)))
<1>0. /\ \A i \in Int : Whole(i) \in Fraction
      /\ \A i \in Int : Times(Whole(i), Whole(0)) = Whole(0)
      /\ \A x \in Fraction : Times(Whole(0), x) = Whole(0) /\ Plus(Whole(0), x) = x
  <2>1. \A i \in Int : Whole(i) \in Fraction
    BY FracOne
  <2>2. \A i \in Int : Times(Whole(i), Whole(0)) = Whole(0)
    BY <2>1, TimesFacts
  <2>3. \A x \in Fraction : Times(Whole(0), x) = Whole(0) /\ Plus(Whole(0), x) = x
    BY <2>1, TimesFacts, PlusFacts
  <2> QED
    BY <2>1, <2>2, <2>3
<1>1. NewMean(0, c, Zero, g) = g
  <2> DEFINE b == g[1]
             d == g[2]
  <2>1. b \in Int /\ d \in Nat \ {0} /\ g = Frac(b, d)
    BY FractionFrac
  <2> HIDE DEF b, d
  <2>2. Frac(0, d) = Zero
    BY <2>1, FracZero DEF Zero
  <2>3. MeanIs(0, c, 0, b, d)
    BY <2>1, NewMeanIs
  <2>4. 0 * 0 + c * b = b * c /\ d * (0 + c) = d * c
    BY <2>1
  <2>5. Frac(b * c, d * c) = Frac(b, d)
    BY <2>1, FracExpand
  <2> QED
    BY <2>1, <2>2, <2>3, <2>4, <2>5 DEF MeanIs
<1>2. c \in Int /\ c - 1 \in Int /\ 0 - 1 \in Int
  OBVIOUS
<1>3. Times(Whole(c), g) \in Fraction /\ Square(g) \in Fraction /\ Times(Whole(c), Square(g)) \in Fraction
  BY <1>0, <1>2, TimesFacts DEF Square
<1>4. SumFrom(c, g) = Plus(SumFrom(0, Zero), Times(Whole(c), g))
  BY <1>0, <1>3 DEF SumFrom, Zero
<1>5. SquaresFrom(c, Zero, g) = Times(Whole(c), Square(g))
  BY <1>0, <1>2, <1>3 DEF SquaresFrom, Zero, Square
<1>6. SquaresFrom(0, Zero, Zero) = Whole(0)
  BY <1>0, <1>2 DEF SquaresFrom, Zero
<1> QED
  BY <1>0, <1>1, <1>3, <1>4, <1>5, <1>6

\* Draws of q are used, c of them.
UseOf(q, c) ==
    /\ pc \in {"direct", "update"} /\ pc' = pc /\ UNCHANGED <<nbrs, rounds>>
    /\ Use(q, c) /\ Used' = [Used EXCEPT ![q] = @ + c]

LEMMA UseItem ==
    ASSUME Inv, NEW q \in Pairs, NEW c \in Nat \ {0}, UseOf(q, c), NEW v \in Wanted
    PROVE  /\ StreamOf(v)' /\ swing'[v] \in Fraction
           /\ (v \in Act' <=> Hits(v)' > 0)
<1>0. /\ Control /\ Counted /\ Shape /\ Touched /\ StreamOf(v)
      /\ nbrs \in Neighbours /\ v \in Items /\ v # VqMap
  BY DEF Inv, Control, MomentsKept, Scaled, UseOf, Wanted
<1>1. Used \in [Pairs -> Nat] /\ Hits(v) \in Nat
  BY <1>0, UsedFacts
<1> DEFINE n == Hits(v)
           m == swing[v]
           w == variance[v]
           g == Gamma(q)
           S == Reaching(v)
           G == [p \in Pairs |-> Gamma(p)]
           H == [p \in Pairs |-> Square(Gamma(p))]
<1>2. /\ m \in Fraction /\ w \in Fraction /\ n \in Nat /\ exRound[v] = n
      /\ Contributed(v) = SumFrom(n, m) /\ SquareSum(v) = SquaresFrom(n, w, m)
  BY <1>0, <1>1 DEF StreamOf, Shape
<1>3. UNCHANGED nbrs /\ Used' = [Used EXCEPT ![q] = @ + c]
  BY DEF UseOf
<1>4. /\ \A p \in Pairs : G[p] \in Fraction /\ H[p] \in Fraction
      /\ G[q] = g /\ H[q] = Square(g) /\ g \in Fraction
  BY <1>0, GammaFacts
<1>5. /\ Contributed(v) = WeightedBy(Used, G, S) /\ Contributed(v)' = WeightedBy(Used', G, S)
      /\ SquareSum(v) = WeightedBy(Used, H, S) /\ SquareSum(v)' = WeightedBy(Used', H, S)
      /\ n = Total(Used, S) /\ Hits(v)' = Total(Used', S)
  <2>1. Reaching(v)' = S /\ \A p : Gamma(p)' = Gamma(p)
    BY <1>3, SameNbrs
  <2>2. Contributed(v)' = WeightedBy(Used', G, S) /\ SquareSum(v)' = WeightedBy(Used', H, S)
    BY <2>1 DEF Contributed, SquareSum, Weighted, WeightedBy
  <2>3. Contributed(v) = WeightedBy(Used, G, S) /\ SquareSum(v) = WeightedBy(Used, H, S)
    BY DEF Contributed, SquareSum, Weighted, WeightedBy
  <2> QED
    BY <2>1, <2>2, <2>3 DEF Hits
<1>6. S \in SUBSET Pairs
  BY PairFacts
<1>7. /\ Act' = Act \cup (Common(q) \ {VqMap})
      /\ exRound'[v] = IF v \in Common(q) THEN n + c ELSE n
      /\ swing'[v] = IF v \in Common(q) THEN NewMean(n, c, m, g) ELSE m
      /\ variance'[v] = IF v \in Common(q) /\ n + c > c THEN NewVariance(n, c, w, m, g) ELSE w
  BY <1>0, <1>2 DEF UseOf, Use, NextVariance, NewMean, NewVariance
<1>8. q \in S <=> v \in Common(q)
  BY DEF Reaching
<1>9. (v \in Act <=> n > 0) /\ (v \notin Act => m = Zero /\ w = Zero)
  BY <1>0 DEF Touched
<1> HIDE DEF n, m, w, g, S, G, H
<1>10. Grows(Used, Used', q, c, G, S) /\ Grows(Used, Used', q, c, H, S)
  <2> DEFINE U == Used
             W == Used'
  <2>1. U \in [Pairs -> Nat] /\ W = [U EXCEPT ![q] = @ + c] /\ c \in Nat
    BY <1>1, <1>3
  <2> HIDE DEF U, W
  <2>2. Grows(U, W, q, c, G, S)
    BY <1>4, <1>6, <2>1, WeightedGrow
  <2>3. Grows(U, W, q, c, H, S)
    BY <1>4, <1>6, <2>1, WeightedGrow
  <2> QED
    BY <2>2, <2>3 DEF U, W
<1>11. CASE v \notin Common(q)
  <2>1. Contributed(v)' = Contributed(v) /\ Hits(v)' = n /\ SquareSum(v)' = SquareSum(v)
    <3>1. WeightedBy(Used', G, S) = WeightedBy(Used, G, S) /\ Total(Used', S) = Total(Used, S)
      BY <1>8, <1>11, <1>10 DEF Grows
    <3>2. WeightedBy(Used', H, S) = WeightedBy(Used, H, S)
      BY <1>8, <1>11, <1>10 DEF Grows
    <3> QED
      BY <1>5, <3>1, <3>2
  <2>2. exRound'[v] = n /\ swing'[v] = m /\ variance'[v] = w
    BY <1>7, <1>11
  <2>3. v \in Act' <=> v \in Act
    BY <1>7, <1>11
  <2> QED
    BY <1>2, <1>9, <2>1, <2>2, <2>3 DEF StreamOf
<1>12. CASE v \in Common(q)
  <2>1. /\ Contributed(v)' = Plus(SumFrom(n, m), Times(Whole(c), g)) /\ Hits(v)' = n + c
        /\ SquareSum(v)' = Plus(SquaresFrom(n, w, m), Times(Whole(c), Square(g)))
    <3>1. /\ WeightedBy(Used', G, S) = Plus(WeightedBy(Used, G, S), Times(Whole(c), G[q]))
          /\ Total(Used', S) = Total(Used, S) + c
      BY <1>8, <1>12, <1>10 DEF Grows
    <3>2. WeightedBy(Used', H, S) = Plus(WeightedBy(Used, H, S), Times(Whole(c), H[q]))
      BY <1>8, <1>12, <1>10 DEF Grows
    <3> QED
      BY <1>2, <1>4, <1>5, <3>1, <3>2
  <2>2. exRound'[v] = n + c /\ swing'[v] = NewMean(n, c, m, g)
    BY <1>7, <1>12
  <2>3. v \in Act' /\ Hits(v)' > 0
    <3>1. n + c > 0
      BY <1>2
    <3> QED
      BY <1>0, <1>7, <1>12, <2>1, <3>1
  <2>4. /\ variance'[v] \in Fraction /\ swing'[v] \in Fraction
        /\ Contributed(v)' = SumFrom(n + c, swing'[v])
        /\ SquareSum(v)' = SquaresFrom(n + c, variance'[v], swing'[v])
    <3>1. CASE n = 0
      <4>1. variance'[v] = Zero /\ m = Zero /\ w = Zero
        BY <1>7, <1>9, <3>1
      <4>2. swing'[v] = g /\ n + c = c
        BY <1>4, <2>2, <3>1, <4>1, FirstUse
      <4>3. Zero \in Fraction
        BY <1>2, <4>1
      <4>4. /\ SumFrom(c, g) = Plus(SumFrom(0, Zero), Times(Whole(c), g))
            /\ SquaresFrom(c, Zero, g)
                 = Plus(SquaresFrom(0, Zero, Zero), Times(Whole(c), Square(g)))
        BY <1>4, FirstUse
      <4> QED
        BY <1>4, <2>1, <3>1, <4>1, <4>2, <4>3, <4>4
    <3>2. CASE n # 0
      <4>1. n \in Nat \ {0} /\ n + c > c
        BY <1>2, <3>2
      <4>2. variance'[v] = NewVariance(n, c, w, m, g)
        BY <1>7, <1>12, <4>1
      <4>3. /\ NewMean(n, c, m, g) \in Fraction
            /\ SumFrom(n + c, NewMean(n, c, m, g)) = Plus(SumFrom(n, m), Times(Whole(c), g))
        BY <1>2, <1>4, MeanStep
      <4>4. /\ NewVariance(n, c, w, m, g) \in Fraction
            /\ SquaresFrom(n + c, NewVariance(n, c, w, m, g), NewMean(n, c, m, g))
                 = Plus(SquaresFrom(n, w, m), Times(Whole(c), Square(g)))
        <5>1. /\ n \in Nat \ {0} /\ c \in Nat \ {0}
              /\ w \in Fraction /\ m \in Fraction /\ g \in Fraction
          BY <1>2, <1>4, <4>1
        <5>2. /\ NewVariance(n, c, w, m, g) \in Fraction
              /\ SquaresFrom(n + c, NewVariance(n, c, w, m, g), NewMean(n, c, m, g))
                   = Plus(SquaresFrom(n, w, m), Times(Whole(c), Times(g, g)))
          BY ONLY <5>1, VarianceStep
        <5> QED
          BY <5>2 DEF Square
      <4> QED
        BY <2>1, <2>2, <4>2, <4>3, <4>4
    <3> QED
      BY <3>1, <3>2
  <2> QED
    BY <2>1, <2>2, <2>3, <2>4 DEF StreamOf
<1> QED
  BY <1>11, <1>12

LEMMA UseKeeps ==
    ASSUME Inv, NEW q \in Pairs, NEW c \in Nat \ {0}, UseOf(q, c)
    PROVE  Shape' /\ Touched' /\ MomentsKept'
<1>1. /\ Shape /\ Touched /\ Wanted' = Wanted /\ nbrs \in Neighbours
      /\ Act' = Act \cup (Common(q) \ {VqMap})
      /\ exRound' = [v \in Items |->
                      IF v \in Common(q) \ {VqMap} THEN exRound[v] + c ELSE exRound[v]]
      /\ swing' = [v \in Items |-> swing'[v]] /\ variance' = [v \in Items |-> variance'[v]]
  <2>1. Use(q, c)
    BY DEF UseOf
  <2>2. swing' = [v \in Items |-> swing'[v]]
    BY <2>1 DEF Use
  <2>3. variance' = [v \in Items |-> variance'[v]]
    BY <2>1 DEF Use
  <2>4. /\ Act' = Act \cup (Common(q) \ {VqMap})
        /\ exRound' = [v \in Items |->
                      IF v \in Common(q) \ {VqMap} THEN exRound[v] + c ELSE exRound[v]]
    BY <2>1 DEF Use
  <2> QED
    BY <2>2, <2>3, <2>4 DEF Inv, Control, Wanted
<1>2. ASSUME NEW v \in Items, v \notin Wanted \/ v \notin Act'
      PROVE  exRound'[v] = exRound[v] /\ swing'[v] = swing[v] /\ variance'[v] = variance[v]
  <2>1. v \notin Common(q) \ {VqMap}
    BY <1>1, <1>2 DEF Wanted
  <2> QED
    BY <2>1 DEF UseOf, Use
<1>3. \A v \in Wanted : /\ StreamOf(v)' /\ swing'[v] \in Fraction
                        /\ (v \in Act' <=> Hits(v)' > 0)
  BY UseItem
<1>4. Shape'
  <2>1. Act' \subseteq Wanted
    BY <1>1, GammaFacts DEF Shape, Wanted
  <2>2. exRound' \in [Items -> Nat]
    BY <1>1 DEF Shape
  <2>3. ASSUME NEW v \in Items PROVE swing'[v] \in Fraction /\ variance'[v] \in Fraction \cup {NaN}
    <3>1. CASE v \in Wanted
      BY <1>3, <3>1 DEF StreamOf
    <3>2. CASE v \notin Wanted
      BY <1>1, <1>2, <3>2 DEF Shape
    <3> QED
      BY <3>1, <3>2
  <2> QED
    BY <1>1, <2>1, <2>2, <2>3 DEF Shape
<1>5. Touched'
  BY <1>1, <1>2, <1>3 DEF Touched
<1>6. MomentsKept'
  BY <1>1, <1>3 DEF MomentsKept, Scaled, UseOf
<1> QED
  BY <1>4, <1>5, <1>6

LEMMA DrawAndUseKeeps == Inv /\ DrawAndUse => Inv'
<1> SUFFICES ASSUME Inv, DrawAndUse PROVE Inv'
  OBVIOUS
<1>0. /\ pc = "direct" /\ RoundsDrawn < rounds
      /\ UNCHANGED <<nbrs, rounds, pc, todo>>
  BY DEF DrawAndUse
<1>1. PICK q \in Pairs : drawn' = [drawn EXCEPT ![q] = @ + 1] /\ Use(q, 1)
  <2>1. PICK k1 \in 0..(Dvq - 1), k2 \in 0..(Dvq - 2) :
           Draw(DrawnPair(k1, k2)) /\ Use(DrawnPair(k1, k2), 1)
    BY DEF DrawAndUse
  <2> QED
    BY <2>1, DrawnPairs DEF Draw
<1>2. Control'
  BY <1>0 DEF Inv, Control
<1>3. Counted'
  <2>1. drawn' \in [Pairs -> Nat]
    BY <1>1 DEF Inv, Counted
  <2>2. Total(drawn', Pairs) = Total(drawn, Pairs) + 1
    BY <1>1, PairFacts, TotalBump DEF Inv, Counted
  <2>3. Total(drawn, Pairs) \in Nat
    BY PairFacts, TotalStep DEF Inv, Counted
  <2>4. rounds \in Nat
    BY UsedFacts DEF Inv
  <2> QED
    BY <1>0, <2>1, <2>2, <2>3, <2>4 DEF Counted, RoundsDrawn
<1>4. Used' = [Used EXCEPT ![q] = @ + 1]
  <2>1. Used = [p \in Pairs |-> drawn[p]] /\ Used' = [p \in Pairs |-> drawn'[p]]
    BY <1>0 DEF Used
  <2> QED
    BY <1>1, <2>1 DEF Inv, Counted
<1>5. UseOf(q, 1)
  BY <1>0, <1>1, <1>4 DEF UseOf
<1>6. Shape' /\ Touched' /\ MomentsKept'
  BY <1>5, UseKeeps
<1> QED
  BY <1>2, <1>3, <1>6 DEF Inv

LEMMA UseCollectedKeeps == Inv /\ UseCollected => Inv'
<1> SUFFICES ASSUME Inv, UseCollected PROVE Inv'
  OBVIOUS
<1>0. pc = "update" /\ UNCHANGED <<nbrs, rounds, pc, drawn>>
  BY DEF UseCollected
<1>1. PICK q \in todo : todo' = todo \ {q} /\ Use(q, drawn[q])
  BY DEF UseCollected
<1>2. q \in Pairs /\ drawn[q] \in Nat \ {0}
  BY <1>0 DEF Inv, Control, Counted
<1>3. Control'
  BY <1>0, <1>1 DEF Inv, Control
<1>4. Counted'
  BY <1>0 DEF Inv, Counted, RoundsDrawn
<1>5. Used' = [Used EXCEPT ![q] = @ + drawn[q]]
  <2>1. Used = [p \in Pairs |-> IF p \in todo THEN 0 ELSE drawn[p]]
    BY <1>0 DEF Used
  <2>2. Used' = [p \in Pairs |-> IF p \in todo \ {q} THEN 0 ELSE drawn[p]]
    BY <1>0, <1>1 DEF Used
  <2> QED
    BY <1>1, <1>2, <2>1, <2>2
<1>6. UseOf(q, drawn[q])
  BY <1>0, <1>1, <1>5 DEF UseOf
<1>7. Shape' /\ Touched' /\ MomentsKept'
  <2> DEFINE c == drawn[q]
  <2>1. c \in Nat \ {0} /\ UseOf(q, c)
    BY <1>2, <1>6
  <2> HIDE DEF c
  <2> QED
    BY <1>2, <2>1, UseKeeps
<1> QED
  BY <1>3, <1>4, <1>7 DEF Inv

-----------------------------------------------------------------------------
(* Scaling.                                                                *)

LEMMA ScaleItem ==
    ASSUME Inv, NEW v \in Act, ~ Scaled(v), NEW s, s = AllMean(exRound[v], rounds, swing[v])
    PROVE  /\ rounds \in Nat \ {0} /\ s \in Fraction
           /\ Times(Whole(rounds), s) = Contributed(v)
           /\ rounds >= 2 =>
                 /\ ScaledVariance(v, s) \in Fraction
                 /\ Times(Whole(rounds - 1), ScaledVariance(v, s))
                      = Plus(Squares(v, s), Times(Whole(rounds - Hits(v)), Square(s)))
           /\ rounds < 2 => ScaledVariance(v, s) = NaN
<1> DEFINE n == Hits(v)
           m == swing[v]
           w == variance[v]
           X == Squares(v, s)
           R == rounds
<1>0. Control /\ Counted /\ Shape /\ Touched /\ v \in Wanted /\ v \in Items /\ StreamOf(v)
  BY DEF Inv, Shape, Wanted, MomentsKept
<1>1. /\ n \in Nat \ {0} /\ n <= R /\ R \in Nat \ {0} /\ exRound[v] = n
      /\ m \in Fraction /\ w \in Fraction
      /\ Contributed(v) = SumFrom(n, m) /\ SquareSum(v) = SquaresFrom(n, w, m)
  <2>1. Hits(v) \in Nat /\ Hits(v) <= rounds /\ rounds \in Nat
    BY <1>0, UsedFacts
  <2>2. Hits(v) > 0
    BY <1>0 DEF Touched
  <2> QED
    BY <1>0, <2>1, <2>2 DEF StreamOf, Shape
<1>2. s = AllMean(n, R, m)
  BY <1>1
<1>3. s \in Fraction /\ Times(Whole(R), s) = SumFrom(n, m)
  <2> HIDE DEF n, m, R
  <2>1. n \in Nat
    BY <1>1
  <2> QED
    BY <1>1, <1>2, <2>1, AllMeanIs
<1>4. X \in Fraction /\ Plus(X, Times(SumFrom(n, m), Twice(s)))
                          = Plus(SquaresFrom(n, w, m), Times(Whole(n), Square(s)))
  <2> HIDE DEF m, w, R
  <2>1. /\ Squares(v, s) \in Fraction
        /\ Plus(Squares(v, s), Times(Contributed(v), Twice(s)))
                = Plus(SquareSum(v), Times(Whole(Hits(v)), Square(s)))
    BY <1>0, <1>3, AroundOf
  <2> QED
    BY <1>1, <2>1
<1>5. ASSUME R >= 2 PROVE ScaledVariance(v, s) = AllVariance(n, R, w, s)
  BY <1>1, <1>5 DEF ScaledVariance, AllVariance
<1>6. ASSUME R < 2 PROVE ScaledVariance(v, s) = NaN
  <2>1. rounds = 1
    BY <1>1, <1>6
  <2> QED
    BY <2>1 DEF ScaledVariance
<1>7. ASSUME R >= 2
      PROVE  /\ AllVariance(n, R, w, s) \in Fraction
             /\ Times(Whole(R - 1), AllVariance(n, R, w, s))
                  = Plus(X, Times(Whole(R - n), Square(s)))
  <2> HIDE DEF n, m, w, X, R
  <2>1. R \in Nat
    BY <1>1
  <2>2. AllVariance(n, R, w, s) \in Fraction
    BY <1>1, <1>2, <1>7, <2>1, AllVarianceIs
  <2> QED
    BY <1>1, <1>2, <1>4, <1>7, <2>1, <2>2, AroundAll
<1> QED
  BY <1>1, <1>3, <1>5, <1>6, <1>7

LEMMA ScaleKeeps == Inv /\ Scale => Inv'
<1> SUFFICES ASSUME Inv, Scale PROVE Inv'
  OBVIOUS
<1>0. pc = "scale" /\ UNCHANGED <<nbrs, rounds, pc, drawn, Act>>
  BY DEF Scale
<1> DEFINE S(x) == AllMean(exRound[x], rounds, swing[x])
<1>1. PICK v \in todo : /\ todo' = todo \ {v}
                        /\ swing' = [swing EXCEPT ![v] = S(v)]
                        /\ variance' = [variance EXCEPT ![v] = ScaledVariance(v, S(v))]
                        /\ exRound' = [exRound EXCEPT ![v] = rounds]
  BY DEF Scale, AllMean
<1>2. Control /\ Counted /\ Shape /\ Touched /\ MomentsKept
  BY DEF Inv
<1>3. v \in Act /\ v \in Wanted /\ v \in Items /\ ~ Scaled(v)
  BY <1>0, <1>1, <1>2 DEF Control, Shape, Wanted, Scaled
<1> DEFINE s == S(v)
           w == ScaledVariance(v, s)
<1>4. /\ rounds \in Nat \ {0} /\ s \in Fraction
      /\ Times(Whole(rounds), s) = Contributed(v)
      /\ rounds >= 2 =>
            /\ w \in Fraction
            /\ Times(Whole(rounds - 1), w)
                 = Plus(Squares(v, s), Times(Whole(rounds - Hits(v)), Square(s)))
      /\ rounds < 2 => w = NaN
  <2> HIDE DEF s
  <2>1. s = AllMean(exRound[v], rounds, swing[v])
    BY DEF s
  <2> QED
    BY <1>3, <2>1, ScaleItem
<1>5. /\ swing' = [swing EXCEPT ![v] = s]
      /\ variance' = [variance EXCEPT ![v] = w]
      /\ exRound' = [exRound EXCEPT ![v] = rounds]
  BY <1>1
<1> HIDE DEF s, w, S
<1>6. Control'
  BY <1>0, <1>1, <1>2 DEF Control
<1>7. Counted'
  BY <1>0, <1>2 DEF Counted, RoundsDrawn
<1>8. Used' = Used
  BY <1>0 DEF Used
<1>9. /\ swing'[v] = s /\ variance'[v] = w /\ exRound'[v] = rounds
      /\ \A x \in Items \ {v} : /\ swing'[x] = swing[x] /\ variance'[x] = variance[x]
                                /\ exRound'[x] = exRound[x]
  BY <1>2, <1>3, <1>5 DEF Shape
<1>10. Shape'
  <2>1. w \in Fraction \cup {NaN}
    BY <1>4
  <2> QED
    BY <1>0, <1>2, <1>4, <1>5, <2>1 DEF Shape, Wanted
<1>11. Touched'
  <2>1. \A x : Hits(x)' = Hits(x)
    BY <1>0, <1>8, SameUsed
  <2> QED
    BY <1>0, <1>2, <1>3, <1>9, <2>1 DEF Touched, Wanted
<1>12. MomentsKept'
  <2>1. /\ \A x : Hits(x)' = Hits(x) /\ Contributed(x)' = Contributed(x)
                  /\ SquareSum(x)' = SquareSum(x)
        /\ Wanted' = Wanted
    BY <1>0, <1>8, SameUsed DEF Wanted
  <2>2. ASSUME NEW x \in Wanted, x # v
        PROVE  /\ AllOf(x)' <=> AllOf(x)
               /\ StreamOf(x)' <=> StreamOf(x)
               /\ Scaled(x)' <=> Scaled(x)
    <3>1. x \in Items \ {v}
      BY <2>2 DEF Wanted
    <3>2. Squares(x, swing[x])' = Squares(x, swing[x])
      BY <1>0, <1>8, <1>9, <3>1, SameNbrs DEF Squares, Weighted
    <3>3. AllOf(x)' <=> AllOf(x)
      BY <1>0, <1>9, <2>1, <3>1, <3>2 DEF AllOf
    <3>4. StreamOf(x)' <=> StreamOf(x)
      BY <1>9, <2>1, <3>1 DEF StreamOf
    <3>5. Scaled(x)' <=> Scaled(x)
      BY <1>0, <1>1, <2>2 DEF Scaled
    <3> QED
      BY <3>3, <3>4, <3>5
  <2>3. AllOf(v)'
    <3>1. Squares(v, swing[v])' = Squares(v, s)
      BY <1>0, <1>8, <1>9, SameNbrs DEF Squares, Weighted
    <3>2. rounds' >= 2 =>
             /\ variance'[v] \in Fraction
             /\ Times(Whole(rounds' - 1), variance'[v])
                  = Plus(Squares(v, swing[v])', Times(Whole(rounds' - Hits(v)'), Square(swing'[v])))
      BY <1>0, <1>4, <1>9, <2>1, <3>1
    <3> QED
      BY <1>0, <1>4, <1>9, <2>1, <3>2 DEF AllOf
  <2>4. Scaled(v)'
    BY <1>0, <1>1, <1>3 DEF Scaled
  <2>5. ASSUME NEW x \in Wanted
        PROVE  (Scaled(x)' => AllOf(x)') /\ (~ Scaled(x)' => StreamOf(x)')
    BY <1>2, <2>2, <2>3, <2>4 DEF MomentsKept
  <2> QED
    BY <2>1, <2>5 DEF MomentsKept
<1> QED
  BY <1>6, <1>7, <1>10, <1>11, <1>12 DEF Inv

-----------------------------------------------------------------------------
(* The theorems.                                                           *)

\* Whatever the users, their items and the order of the draws, an item's mean and
\* variance stand for the sum of the contributions that reached it and the sum of
\* their squares, and after the scaling for those of all the rounds.
THEOREM SamplingInductive == Spec => []Inv
<1>1. Inv /\ [Next]_vars => Inv'
  BY DrawAndUseKeeps, CollectKeeps, StartUpdatesKeeps, UseCollectedKeeps, StartScalingKeeps,
     ScaleKeeps, FinishKeeps, StutterKeeps DEF Next, Terminating
<1> QED
  BY <1>1, InitInv, PTL DEF Spec

\* Every variable of the sampling stage keeps its type: no index is drawn with itself,
\* no round is counted twice, and only a single round leaves a variance undefined.
THEOREM SamplingTypes == Spec => []TypeOK
<1>1. ASSUME Inv PROVE TypeOK
  <2>0. Control /\ Counted /\ Shape /\ Touched /\ MomentsKept
    BY <1>1 DEF Inv
  <2>1. rounds \in Nat /\ \A v : Hits(v) \in Nat /\ Hits(v) <= rounds
    BY <2>0, UsedFacts
  <2>2. drawn \in [Pairs -> 0..rounds]
    <3>1. ASSUME NEW p \in Pairs PROVE drawn[p] \in 0..rounds
      <4>1. drawn[p] <= Total(drawn, Pairs) /\ Total(drawn, Pairs) \in Nat
        BY <2>0, PairFacts, TotalBounds, TotalStep DEF Counted
      <4> QED
        BY <2>0, <2>1, <4>1 DEF Counted, RoundsDrawn
    <3> QED
      BY <2>0, <3>1 DEF Counted
  <2>3. exRound \in [Items -> 0..rounds]
    <3>1. ASSUME NEW v \in Items PROVE exRound[v] \in 0..rounds
      <4>1. CASE v \in Wanted
        BY <2>0, <2>1, <4>1 DEF MomentsKept, StreamOf, AllOf
      <4>2. CASE v \notin Wanted
        BY <2>0, <2>1, <4>2 DEF Touched, Shape
      <4> QED
        BY <4>1, <4>2
    <3> QED
      BY <2>0, <3>1 DEF Shape
  <2>4. ASSUME NEW v \in Items
        PROVE  IsFraction(swing[v]) /\ (variance[v] = NaN \/ IsFraction(variance[v]))
    <3>1. \A x \in Fraction : IsFraction(x)
      BY FractionFrac DEF IsFraction
    <3> QED
      BY <2>0, <3>1 DEF Shape
  <2>5. IF pc = "update" THEN todo \subseteq Pairs ELSE todo \subseteq Items
    BY <2>0 DEF Control, Shape, Wanted
  <2> QED
    BY <2>0, <2>2, <2>3, <2>4, <2>5 DEF TypeOK, Control, Shape, Wanted
<1> QED
  BY <1>1, SamplingInductive, PTL

\* Welford's update as the code has it computes exact moments, in whatever order and
\* multiples the draws are used, and the scaling those of all rounds.
THEOREM MomentsExact == Spec => []Moments
<1>1. ASSUME Inv PROVE StreamingMoments
  <2> SUFFICES ASSUME pc \in {"direct", "draw", "update"}, NEW v \in Items \ {VqMap}
               PROVE  /\ exRound[v] = Hits(v)
                      /\ Times(Whole(Hits(v)), swing[v]) = Contributed(v)
                      /\ Hits(v) >= 1 =>
                            Times(Whole(Hits(v) - 1), variance[v]) = Squares(v, swing[v])
    BY DEF StreamingMoments
  <2>0. Control /\ Counted /\ Shape /\ StreamOf(v)
    BY <1>1 DEF Inv, MomentsKept, Scaled, Wanted
  <2> DEFINE n == Hits(v)
             m == swing[v]
             w == variance[v]
             X == Squares(v, m)
  <2>1. /\ n \in Int /\ m \in Fraction /\ w \in Fraction /\ exRound[v] = n
        /\ SumFrom(n, m) = Contributed(v) /\ SquareSum(v) = SquaresFrom(n, w, m)
    BY <2>0, UsedFacts DEF StreamOf, Shape
  <2>2. X \in Fraction /\ Plus(X, Times(SumFrom(n, m), Twice(m)))
                            = Plus(SquaresFrom(n, w, m), Times(Whole(n), Square(m)))
    BY <2>0, <2>1, AroundOf
  <2> HIDE DEF n, m, w, X
  <2>3. X = Times(Whole(n - 1), w)
    BY <2>1, <2>2, AroundMean
  <2> QED
    BY <2>1, <2>3 DEF n, m, w, X, SumFrom
<1>2. ASSUME Inv PROVE FinalMoments
  <2> SUFFICES ASSUME pc = "done" PROVE FinalMoments
    BY DEF FinalMoments
  <2>0. Control /\ Counted /\ Shape /\ Touched /\ MomentsKept
    BY <1>2 DEF Inv
  <2>1. ASSUME NEW v \in Act PROVE AllOf(v)
    BY <2>0 DEF Control, MomentsKept, Scaled, Shape
  <2>2. ASSUME NEW v \in Items \ Act PROVE (v = VqMap \/ Hits(v) = 0) /\ swing[v] = Zero
    BY <2>0, UsedFacts DEF Touched, Wanted
  <2> QED
    BY <2>1, <2>2 DEF FinalMoments, AllOf, Square
<1> QED
  BY <1>1, <1>2, SamplingInductive, PTL DEF Moments
=============================================================================
