---------------------------- MODULE RadixProofs ----------------------------
(***************************************************************************)
(* What Radix computes, for every base and every number of digits: the     *)
(* laws of powers and of Horner's rule that the codecs rely on.            *)
(*                                                                         *)
(* Value and Pow are recursive functions on 0..n.  That such a function    *)
(* exists, and every law, is shown by induction, in the form that a set of *)
(* numbers without a least element is empty (WFMin).                       *)
(***************************************************************************)
EXTENDS Radix, TLAPS, WellFoundedInduction

-----------------------------------------------------------------------------
(* Induction over the natural numbers, for sets *)

\* A set of natural numbers that is not empty has a least element.
LEMMA LeastNumber ==
    ASSUME NEW S, S \subseteq Nat, S # {}
    PROVE  \E m \in S : \A k \in S : m <= k
<1>1. PICK m \in S : \A y \in S : ~(<<y, m>> \in OpToRel(<, Nat))
  BY NatLessThanWellFounded, WFMin
<1>2. ASSUME NEW k \in S PROVE m <= k
  <2>1. ~(<<k, m>> \in OpToRel(<, Nat))
    BY <1>1
  <2>2. k \in Nat /\ m \in Nat
    OBVIOUS
  <2>3. ~(k < m)
    BY <2>1, <2>2 DEF OpToRel
  <2> QED  BY <2>2, <2>3
<1> QED  BY <1>1, <1>2

\* A set that has 0 and with every number its successor has them all.
LEMMA NatInduct ==
    ASSUME NEW S, 0 \in S, \A k \in Nat : k \in S => k + 1 \in S
    PROVE  \A k \in Nat : k \in S
<1> SUFFICES ASSUME ~(Nat \subseteq S) PROVE FALSE
  OBVIOUS
<1>1. PICK m \in Nat \ S : \A k \in Nat \ S : m <= k
  BY LeastNumber
<1>2. m \in Nat /\ m # 0
  OBVIOUS
<1>3. m - 1 \in Nat /\ ~(m <= m - 1) /\ m - 1 + 1 = m
  BY <1>2
<1>4. m - 1 \in S
  BY <1>1, <1>3
<1> QED  BY <1>3, <1>4

\* The same up to a bound.
LEMMA BoundedInduct ==
    ASSUME NEW n \in Nat, NEW S, 0 \in S,
           \A k \in Nat : k < n /\ k \in S => k + 1 \in S
    PROVE  \A k \in 0..n : k \in S
<1> DEFINE T == {k \in Nat : k <= n => k \in S}
<1>1. 0 \in T
  OBVIOUS
<1>2. \A k \in Nat : k \in T => k + 1 \in T
  OBVIOUS
<1> HIDE DEF T
<1>3. \A k \in Nat : k \in T
  BY <1>1, <1>2, NatInduct
<1> QED  BY <1>3 DEF T

-----------------------------------------------------------------------------
(* Division *)

\* Quotient and remainder make up the number.
LEMMA DivMod ==
    ASSUME NEW a \in Int, NEW b \in Nat \ {0}
    PROVE  /\ a \div b \in Int /\ a % b \in 0..(b - 1)
           /\ a = (a \div b) * b + (a % b)
OBVIOUS

\* They are the only ones that do.
LEMMA DivModUnique ==
    ASSUME NEW a \in Int, NEW b \in Nat \ {0}, NEW q \in Int, NEW r \in 0..(b - 1), a = q * b + r
    PROVE  a \div b = q /\ a % b = r
<1> DEFINE p == a \div b
           m == a % b
<1>1. p \in Int /\ m \in 0..(b - 1) /\ a = p * b + m
  BY DivMod
<1> HIDE DEF p, m
<1>2. (p - q) * b = r - m
  BY <1>1
<1>3. p = q
  <2>1. ASSUME p - q >= 1 PROVE FALSE
    <3>1. (p - q) * b >= b
      BY <1>1, <2>1
    <3> QED  BY <1>1, <1>2, <3>1
  <2>2. ASSUME q - p >= 1 PROVE FALSE
    <3>1. (q - p) * b >= b /\ (q - p) * b = m - r
      BY <1>1, <1>2, <2>2
    <3> QED  BY <1>1, <3>1
  <2> QED  BY <1>1, <2>1, <2>2
<1> QED  BY <1>1, <1>3 DEF p, m

\* A quotient of natural numbers is one.
LEMMA DivNat ==
    ASSUME NEW a \in Nat, NEW b \in Nat \ {0}
    PROVE  a \div b \in Nat /\ (a < b => a \div b = 0 /\ a % b = a)
<1>1. a < b => a \div b = 0 /\ a % b = a
  BY DivModUnique
<1> DEFINE q == a \div b
<1>2. q \in Int /\ a % b \in 0..(b - 1) /\ a = q * b + (a % b)
  BY DivMod
<1> HIDE DEF q
<1>3. ASSUME q <= -1 PROVE FALSE
  <2>1. q * b <= -b
    BY <1>2, <1>3
  <2> QED  BY <1>2, <2>1
<1> QED  BY <1>1, <1>2, <1>3 DEF q

\* Dividing twice is dividing by the product.
LEMMA DivDiv ==
    ASSUME NEW x \in Nat, NEW a \in Nat \ {0}, NEW b \in Nat \ {0}
    PROVE  (x \div a) \div b = x \div (a * b)
<1> DEFINE q == x \div a
           r == x % a
           p == q \div b
           s == q % b
<1>1. q \in Nat /\ r \in 0..(a - 1) /\ x = q * a + r
  BY DivMod, DivNat
<1> HIDE DEF q, r
<1>2. p \in Int /\ s \in 0..(b - 1) /\ q = p * b + s
  BY <1>1, DivMod
<1> HIDE DEF p, s
<1>3. x = p * (a * b) + (s * a + r)
  <2>1. x = (p * b + s) * a + r
    BY <1>1, <1>2
  <2>2. \A u, v, w, y, z \in Int : (u * v + w) * y + z = u * (y * v) + (w * y + z)
    OBVIOUS
  <2> QED  BY <1>1, <1>2, <2>1, <2>2
<1>4. s * a + r \in 0..(a * b - 1)
  <2>1. s * a >= 0 /\ (b - 1 - s) * a >= 0 /\ (b - 1 - s) * a = a * b - a - s * a
    BY <1>2
  <2>2. s * a \in Int /\ a * b \in Int
    BY <1>2
  <2> QED  BY <1>1, <2>1, <2>2
<1>5. a * b \in Nat \ {0}
  OBVIOUS
<1>6. x \div (a * b) = p
  BY <1>2, <1>3, <1>4, <1>5, DivModUnique
<1> QED  BY <1>6 DEF p, q

-----------------------------------------------------------------------------
(* Functions defined by h[0] = c, h[k] = h[k-1] * base + f[k-1] *)

Affine(h, c, f, n, base) ==
    /\ h[0] = c
    /\ \A k \in Nat : k < n => h[k + 1] = h[k] * base + f[k]

\* There is such a function.
LEMMA AffineExists ==
    ASSUME NEW c \in Int, NEW f, NEW base \in Int, NEW n \in Nat,
           \A k \in 0..(n - 1) : f[k] \in Int
    PROVE  \E h \in [0..n -> Int] : Affine(h, c, f, n, base)
<1> DEFINE S == {m \in Nat : \E h \in [0..m -> Int] : Affine(h, c, f, m, base)}
<1>1. 0 \in S
  <2> DEFINE h == [k \in 0..0 |-> c]
  <2>1. h \in [0..0 -> Int] /\ Affine(h, c, f, 0, base)
    BY DEF Affine
  <2> QED  BY <2>1
<1>2. ASSUME NEW m \in Nat, m < n, m \in S
      PROVE  m + 1 \in S
  <2>1. PICK h \in [0..m -> Int] : Affine(h, c, f, m, base)
    BY <1>2
  <2> DEFINE v == h[m] * base + f[m]
  <2>2. v \in Int
    <3>1. m \in 0..(n - 1)
      BY <1>2
    <3> QED  BY <3>1, <2>1
  <2> HIDE DEF v
  <2> DEFINE g == [k \in 0..(m + 1) |-> IF k = m + 1 THEN v ELSE h[k]]
  <2>3. g \in [0..(m + 1) -> Int]
    BY <2>1, <2>2
  <2>4. g[0] = c
    BY <2>1 DEF Affine
  <2>5. ASSUME NEW k \in Nat, k < m + 1
        PROVE  g[k + 1] = g[k] * base + f[k]
    <3>1. CASE k = m
      BY <3>1 DEF v
    <3>2. CASE k < m
      <4>1. g[k] = h[k] /\ g[k + 1] = h[k + 1]
        BY <3>2
      <4> HIDE DEF g
      <4> QED  BY <4>1, <3>2, <2>1 DEF Affine
    <3> QED  BY <3>1, <3>2, <2>5
  <2> HIDE DEF g
  <2>6. Affine(g, c, f, m + 1, base)
    BY <2>4, <2>5 DEF Affine
  <2>7. \E x \in [0..(m + 1) -> Int] : Affine(x, c, f, m + 1, base)
    BY <2>3, <2>6
  <2> QED  BY <2>7
<1> HIDE DEF S
<1>3. \A k \in 0..n : k \in S
  BY <1>1, <1>2, BoundedInduct
<1> QED  BY <1>3, n \in 0..n DEF S

\* There is only one.
LEMMA AffineUnique ==
    ASSUME NEW c, NEW f, NEW base, NEW n \in Nat, NEW g, NEW h,
           Affine(g, c, f, n, base), Affine(h, c, f, n, base)
    PROVE  \A k \in 0..n : g[k] = h[k]
<1> DEFINE S == {k \in Nat : g[k] = h[k]}
<1>1. 0 \in S
  BY DEF Affine
<1>2. \A k \in Nat : k < n /\ k \in S => k + 1 \in S
  BY DEF Affine
<1> HIDE DEF S
<1>3. \A k \in 0..n : k \in S
  BY <1>1, <1>2, BoundedInduct
<1> QED  BY <1>3 DEF S

-----------------------------------------------------------------------------
(* Value *)

\* Value is computed by Horner's rule.
LEMMA ValueAffine ==
    ASSUME NEW f, NEW base \in Int, NEW n \in Nat,
           \A k \in 0..(n - 1) : f[k] \in Int
    PROVE  \E h \in [0..n -> Int] : Affine(h, 0, f, n, base) /\ Value(f, n, base) = h[n]
<1>1. PICK g \in [0..n -> Int] : Affine(g, 0, f, n, base)
  <2>1. 0 \in Int
    OBVIOUS
  <2> QED  BY <2>1, AffineExists, Zenon
<1> DEFINE IsHorner(h) == h = [k \in 0..n |-> IF k = 0 THEN 0 ELSE h[k - 1] * base + f[k - 1]]
           horner == CHOOSE h : IsHorner(h)
<1>2. \A k \in 0..n : g[k] = IF k = 0 THEN 0 ELSE g[k - 1] * base + f[k - 1]
  <2> TAKE k \in 0..n
  <2>1. CASE k = 0
    BY <1>1, <2>1 DEF Affine
  <2>2. CASE k # 0
    <3>1. k - 1 \in Nat /\ k - 1 < n /\ k - 1 + 1 = k
      BY <2>2
    <3>2. g[k - 1 + 1] = g[k - 1] * base + f[k - 1]
      BY <1>1, <3>1 DEF Affine
    <3> QED  BY <3>1, <3>2, <2>2
  <2> QED  BY <2>1, <2>2
<1>3. IsHorner(g)
  BY <1>1, <1>2
<1>4. IsHorner(horner)
  BY <1>3
<1>5. Affine(horner, 0, f, n, base)
  <2> HIDE DEF horner
  <2>1. horner[0] = 0
    BY <1>4
  <2>2. ASSUME NEW k \in Nat, k < n PROVE horner[k + 1] = horner[k] * base + f[k]
    <3>1. k + 1 \in 0..n /\ k + 1 # 0 /\ k + 1 - 1 = k
      BY <2>2
    <3> QED  BY <1>4, <3>1
  <2> QED  BY <2>1, <2>2 DEF Affine
<1>6. Value(f, n, base) = horner[n]
  BY DEF Value
<1> HIDE DEF horner
<1>7. horner[n] = g[n]
  BY <1>1, <1>5, AffineUnique
<1> QED  BY <1>1, <1>6, <1>7

\* The value of digits is a number.
LEMMA ValueInt ==
    ASSUME NEW f, NEW base \in Int, NEW n \in Nat,
           \A k \in 0..(n - 1) : f[k] \in Int
    PROVE  Value(f, n, base) \in Int
<1>1. PICK h \in [0..n -> Int] : Value(f, n, base) = h[n]
  BY ValueAffine
<1> QED  BY <1>1

\* No digit: zero.
LEMMA ValueZero ==
    ASSUME NEW f, NEW base \in Int
    PROVE  Value(f, 0, base) = 0
<1>1. \A k \in 0..(0 - 1) : f[k] \in Int
  OBVIOUS
<1>2. PICK h \in [0..0 -> Int] : Affine(h, 0, f, 0, base) /\ Value(f, 0, base) = h[0]
  BY <1>1, ValueAffine
<1> QED  BY <1>2 DEF Affine

\* One more digit.
LEMMA ValueStep ==
    ASSUME NEW f, NEW base \in Int, NEW n \in Nat,
           \A k \in 0..n : f[k] \in Int
    PROVE  Value(f, n + 1, base) = Value(f, n, base) * base + f[n]
<1>1. n + 1 \in Nat /\ (n + 1) - 1 = n
  OBVIOUS
<1>2. PICK h \in [0..(n + 1) -> Int] :
        Affine(h, 0, f, n + 1, base) /\ Value(f, n + 1, base) = h[n + 1]
  BY <1>1, ValueAffine
<1>3. \A k \in 0..(n - 1) : f[k] \in Int
  OBVIOUS
<1>4. PICK g \in [0..n -> Int] : Affine(g, 0, f, n, base) /\ Value(f, n, base) = g[n]
  BY <1>3, ValueAffine
<1>5. Affine(h, 0, f, n, base)
  BY <1>2 DEF Affine
<1>6. h[n] = g[n]
  BY <1>4, <1>5, AffineUnique
<1>7. h[n + 1] = h[n] * base + f[n]
  BY <1>2 DEF Affine
<1> QED  BY <1>2, <1>4, <1>6, <1>7

\* Only the first n digits count.
LEMMA ValueEqual ==
    ASSUME NEW f, NEW g, NEW base \in Int, NEW n \in Nat,
           \A k \in 0..(n - 1) : f[k] \in Int /\ g[k] = f[k]
    PROVE  Value(g, n, base) = Value(f, n, base)
<1>1. PICK a \in [0..n -> Int] : Affine(a, 0, f, n, base) /\ Value(f, n, base) = a[n]
  BY ValueAffine
<1>2. PICK b \in [0..n -> Int] : Affine(b, 0, g, n, base) /\ Value(g, n, base) = b[n]
  BY ValueAffine
<1>3. \A k \in Nat : k < n => g[k] = f[k]
  OBVIOUS
<1>4. Affine(b, 0, f, n, base)
  BY <1>2, <1>3 DEF Affine
<1>5. b[n] = a[n]
  BY <1>1, <1>4, AffineUnique
<1> QED  BY <1>1, <1>2, <1>5

-----------------------------------------------------------------------------
(* Pow *)

\* The powers of a base are the values of a digit 1 behind which zeros follow.
LEMMA PowAffine ==
    ASSUME NEW base \in Int, NEW e \in Nat
    PROVE  \E h \in [0..e -> Int] :
             Affine(h, 1, [k \in 0..(e - 1) |-> 0], e, base) /\ Pow(base, e) = h[e]
<1> DEFINE zeros == [k \in 0..(e - 1) |-> 0]
<1>1. PICK g \in [0..e -> Int] : Affine(g, 1, zeros, e, base)
  <2>1. 1 \in Int /\ \A k \in 0..(e - 1) : zeros[k] \in Int
    OBVIOUS
  <2> HIDE DEF zeros
  <2> QED  BY <2>1, AffineExists, Zenon
<1> DEFINE IsPow(h) == h = [k \in 0..e |-> IF k = 0 THEN 1 ELSE h[k - 1] * base]
           p == CHOOSE h : IsPow(h)
<1>2. \A k \in 0..e : g[k] = IF k = 0 THEN 1 ELSE g[k - 1] * base
  <2> TAKE k \in 0..e
  <2>1. CASE k = 0
    BY <1>1, <2>1 DEF Affine
  <2>2. CASE k # 0
    <3>1. k - 1 \in Nat /\ k - 1 < e /\ k - 1 + 1 = k /\ zeros[k - 1] = 0
      BY <2>2
    <3>2. g[k - 1 + 1] = g[k - 1] * base + zeros[k - 1]
      BY <1>1, <3>1 DEF Affine
    <3>3. g[k - 1] \in Int
      BY <3>1
    <3> QED  BY <3>1, <3>2, <3>3, <2>2
  <2> QED  BY <2>1, <2>2
<1>3. IsPow(g)
  BY <1>1, <1>2
<1>4. IsPow(p)
  BY <1>3
<1>5. Pow(base, e) = p[e]
  BY DEF Pow
<1> HIDE DEF p, zeros
<1> DEFINE S == {k \in Nat : p[k] = g[k]}
<1>6. 0 \in S
  <2>1. p[0] = 1 /\ g[0] = 1
    BY <1>2, <1>4
  <2> QED  BY <2>1
<1>7. \A k \in Nat : k < e /\ k \in S => k + 1 \in S
  <2> SUFFICES ASSUME NEW k \in Nat, k < e, p[k] = g[k] PROVE p[k + 1] = g[k + 1]
    OBVIOUS
  <2>1. k + 1 \in 0..e /\ k + 1 # 0 /\ k + 1 - 1 = k
    OBVIOUS
  <2>2. p[k + 1] = p[k] * base /\ g[k + 1] = g[k] * base
    BY <2>1, <1>2, <1>4
  <2> QED  BY <2>2
<1> HIDE DEF S
<1>8. \A k \in 0..e : k \in S
  BY <1>6, <1>7, BoundedInduct
<1>9. p[e] = g[e]
  BY <1>8 DEF S
<1> QED  BY <1>1, <1>5, <1>9 DEF zeros

\* The zeroth power is one.
LEMMA PowZero ==
    ASSUME NEW base \in Int
    PROVE  Pow(base, 0) = 1
<1>1. PICK h \in [0..0 -> Int] :
        Affine(h, 1, [k \in 0..(0 - 1) |-> 0], 0, base) /\ Pow(base, 0) = h[0]
  BY PowAffine
<1> QED  BY <1>1 DEF Affine

\* A power is a number.
LEMMA PowInt ==
    ASSUME NEW base \in Int, NEW e \in Nat
    PROVE  Pow(base, e) \in Int
<1>1. PICK h \in [0..e -> Int] : Pow(base, e) = h[e]
  BY PowAffine
<1> QED  BY <1>1

\* The next power.
LEMMA PowStep ==
    ASSUME NEW base \in Int, NEW e \in Nat
    PROVE  Pow(base, e + 1) = Pow(base, e) * base
<1> DEFINE Z(n) == [k \in 0..(n - 1) |-> 0]
<1>1. e + 1 \in Nat /\ \A k \in Nat : k < e => Z(e)[k] = 0 /\ Z(e + 1)[k] = 0
  OBVIOUS
<1>2. Z(e + 1)[e] = 0
  OBVIOUS
<1>3. PICK h \in [0..(e + 1) -> Int] : Affine(h, 1, Z(e + 1), e + 1, base) /\ Pow(base, e + 1) = h[e + 1]
  BY <1>1, PowAffine
<1>4. PICK g \in [0..e -> Int] : Affine(g, 1, Z(e), e, base) /\ Pow(base, e) = g[e]
  BY PowAffine
<1> HIDE DEF Z
<1>5. Affine(h, 1, Z(e), e, base)
  <2>1. h[0] = 1
    BY <1>3 DEF Affine
  <2>2. ASSUME NEW k \in Nat, k < e PROVE h[k + 1] = h[k] * base + Z(e)[k]
    <3>1. Z(e)[k] = Z(e + 1)[k] /\ k < e + 1
      BY <1>1, <2>2
    <3>2. h[k + 1] = h[k] * base + Z(e + 1)[k]
      BY <1>3, <3>1 DEF Affine
    <3> QED  BY <3>1, <3>2
  <2> QED  BY <2>1, <2>2 DEF Affine
<1>6. h[e] = g[e]
  BY <1>4, <1>5, AffineUnique
<1>7. h[e + 1] = h[e] * base + Z(e + 1)[e]
  BY <1>3 DEF Affine
<1>8. g[e] \in Int
  BY <1>4
<1>9. h[e + 1] = g[e] * base
  BY <1>2, <1>6, <1>7, <1>8
<1> QED  BY <1>3, <1>4, <1>9

\* A power of a positive base is positive.
LEMMA PowPos ==
    ASSUME NEW base \in Nat \ {0}, NEW e \in Nat
    PROVE  Pow(base, e) \in Nat \ {0}
<1> DEFINE S == {k \in Nat : Pow(base, k) \in Nat \ {0}}
<1>1. 0 \in S
  BY PowZero
<1>2. \A k \in Nat : k \in S => k + 1 \in S
  <2> SUFFICES ASSUME NEW k \in Nat, Pow(base, k) \in Nat \ {0}
               PROVE  Pow(base, k + 1) \in Nat \ {0}
    OBVIOUS
  <2>1. Pow(base, k + 1) = Pow(base, k) * base
    BY PowStep
  <2>2. \A x, y \in Nat \ {0} : x * y \in Nat \ {0}
    OBVIOUS
  <2> QED  BY <2>1, <2>2
<1> HIDE DEF S
<1>3. \A k \in Nat : k \in S
  BY <1>1, <1>2, NatInduct
<1> QED  BY <1>3 DEF S

\* Exponents add up.
LEMMA PowAdd ==
    ASSUME NEW base \in Int, NEW a \in Nat, NEW b \in Nat
    PROVE  Pow(base, a + b) = Pow(base, a) * Pow(base, b)
<1> DEFINE S == {k \in Nat : Pow(base, a + k) = Pow(base, a) * Pow(base, k)}
<1>1. 0 \in S
  <2>1. a + 0 = a /\ Pow(base, 0) = 1 /\ Pow(base, a) \in Int
    BY PowZero, PowInt
  <2>2. Pow(base, a + 0) = Pow(base, a) * Pow(base, 0)
    BY <2>1
  <2> QED  BY <2>2
<1>2. \A k \in Nat : k \in S => k + 1 \in S
  <2> SUFFICES ASSUME NEW k \in Nat, Pow(base, a + k) = Pow(base, a) * Pow(base, k)
               PROVE  Pow(base, a + (k + 1)) = Pow(base, a) * Pow(base, k + 1)
    OBVIOUS
  <2>1. a + k \in Nat /\ a + (k + 1) = (a + k) + 1
    OBVIOUS
  <2>2. Pow(base, (a + k) + 1) = Pow(base, a + k) * base
    BY <2>1, PowStep
  <2>3. Pow(base, k + 1) = Pow(base, k) * base
    BY PowStep
  <2>4. Pow(base, a) \in Int /\ Pow(base, k) \in Int
    BY PowInt
  <2>5. \A x, y, z \in Int : (x * y) * z = x * (y * z)
    OBVIOUS
  <2>6. (Pow(base, a) * Pow(base, k)) * base = Pow(base, a) * (Pow(base, k) * base)
    BY <2>4, <2>5
  <2> QED  BY <2>1, <2>2, <2>3, <2>6
<1> HIDE DEF S
<1>3. \A k \in Nat : k \in S
  BY <1>1, <1>2, NatInduct
<1> QED  BY <1>3 DEF S

\* A power does not decrease with its exponent.
LEMMA PowMonotone ==
    ASSUME NEW base \in Nat \ {0}, NEW a \in Nat, NEW b \in Nat, a <= b
    PROVE  Pow(base, a) <= Pow(base, b)
<1>1. b - a \in Nat /\ b = a + (b - a)
  OBVIOUS
<1>2. Pow(base, b) = Pow(base, a) * Pow(base, b - a)
  BY <1>1, PowAdd
<1>3. Pow(base, a) \in Nat \ {0} /\ Pow(base, b - a) \in Nat \ {0}
  BY <1>1, PowPos
<1>4. \A x, y \in Nat \ {0} : x <= x * y
  OBVIOUS
<1> QED  BY <1>2, <1>3, <1>4

-----------------------------------------------------------------------------
(* The two together *)

\* n digits are worth less than base^n.
LEMMA ValueBound ==
    ASSUME NEW f, NEW base \in Nat \ {0}, NEW n \in Nat,
           \A k \in 0..(n - 1) : f[k] \in 0..(base - 1)
    PROVE  Value(f, n, base) \in 0..(Pow(base, n) - 1)
<1> DEFINE S == {k \in Nat : Value(f, k, base) \in 0..(Pow(base, k) - 1)}
<1>1. 0 \in S
  BY PowZero, ValueZero
<1>2. \A k \in Nat : k < n /\ k \in S => k + 1 \in S
  <2> SUFFICES ASSUME NEW k \in Nat, k < n, Value(f, k, base) \in 0..(Pow(base, k) - 1)
               PROVE  Value(f, k + 1, base) \in 0..(Pow(base, k + 1) - 1)
    OBVIOUS
  <2>1. Value(f, k + 1, base) = Value(f, k, base) * base + f[k]
    <3>1. \A x \in 0..k : f[x] \in Int
      OBVIOUS
    <3> QED  BY <3>1, ValueStep
  <2>2. Pow(base, k + 1) = Pow(base, k) * base
    BY PowStep
  <2>3. Pow(base, k) \in Int /\ f[k] \in 0..(base - 1)
    BY PowInt
  <2>4. \A v, p, d \in Int : v \in 0..(p - 1) /\ d \in 0..(base - 1) => v * base + d \in 0..(p * base - 1)
    <3> SUFFICES ASSUME NEW v \in Int, NEW p \in Int, NEW d \in Int,
                        v \in 0..(p - 1), d \in 0..(base - 1)
                 PROVE  v * base + d \in 0..(p * base - 1)
      OBVIOUS
    <3>1. v * base >= 0
      OBVIOUS
    <3>2. (p - 1 - v) * base >= 0
      OBVIOUS
    <3>3. (p - 1 - v) * base = p * base - base - v * base
      OBVIOUS
    <3> QED  BY <3>1, <3>2, <3>3
  <2>5. Value(f, k, base) \in Int /\ f[k] \in Int
    BY <2>3
  <2>6. Value(f, k, base) * base + f[k] \in 0..(Pow(base, k) * base - 1)
    BY <2>3, <2>4, <2>5, Zenon
  <2> QED  BY <2>1, <2>2, <2>6
<1> HIDE DEF S
<1>3. \A k \in 0..n : k \in S
  BY <1>1, <1>2, BoundedInduct
<1> QED  BY <1>3 DEF S

\* Two parts of a number are joined by the power of the length of the second.
LEMMA ValueJoin ==
    ASSUME NEW f, NEW base \in Int, NEW m \in Nat, NEW n \in Nat, NEW g,
           \A k \in 0..(m + n - 1) : f[k] \in Int,
           \A k \in 0..(n - 1) : g[k] = f[m + k]
    PROVE  Value(f, m + n, base) = Value(f, m, base) * Pow(base, n) + Value(g, n, base)
<1> DEFINE S == {k \in Nat : Value(f, m + k, base) = Value(f, m, base) * Pow(base, k) + Value(g, k, base)}
<1>0. Value(f, m, base) \in Int
  <2>1. \A k \in 0..(m - 1) : f[k] \in Int
    OBVIOUS
  <2> QED  BY <2>1, ValueInt
<1>1. 0 \in S
  <2>1. m + 0 = m /\ Pow(base, 0) = 1 /\ Value(g, 0, base) = 0
    BY PowZero, ValueZero
  <2>2. Value(f, m + 0, base) = Value(f, m, base) * Pow(base, 0) + Value(g, 0, base)
    BY <1>0, <2>1
  <2> QED  BY <2>2
<1>2. \A k \in Nat : k < n /\ k \in S => k + 1 \in S
  <2> SUFFICES ASSUME NEW k \in Nat, k < n,
                      Value(f, m + k, base) = Value(f, m, base) * Pow(base, k) + Value(g, k, base)
               PROVE  Value(f, m + (k + 1), base)
                        = Value(f, m, base) * Pow(base, k + 1) + Value(g, k + 1, base)
    OBVIOUS
  <2>1. m + k \in Nat /\ m + (k + 1) = (m + k) + 1 /\ \A x \in 0..(m + k) : f[x] \in Int
    OBVIOUS
  <2>2. Value(f, (m + k) + 1, base) = Value(f, m + k, base) * base + f[m + k]
    BY <2>1, ValueStep
  <2>3. \A x \in 0..k : g[x] \in Int
    OBVIOUS
  <2>4. Value(g, k + 1, base) = Value(g, k, base) * base + g[k]
    BY <2>3, ValueStep
  <2>5. Pow(base, k + 1) = Pow(base, k) * base
    BY PowStep
  <2>6. Pow(base, k) \in Int /\ Value(g, k, base) \in Int /\ g[k] \in Int /\ g[k] = f[m + k]
    <3>1. \A x \in 0..(k - 1) : g[x] \in Int
      BY <2>3
    <3> QED  BY <3>1, <2>3, PowInt, ValueInt
  <2>7. \A v, p, w, d \in Int : (v * p + w) * base + d = v * (p * base) + (w * base + d)
    OBVIOUS
  <2> QED  BY <1>0, <2>1, <2>2, <2>4, <2>5, <2>6, <2>7
<1> HIDE DEF S
<1>3. \A k \in 0..n : k \in S
  BY <1>1, <1>2, BoundedInduct
<1> QED  BY <1>3 DEF S

\* A number whose first digit is not zero has at least the weight of that digit.
LEMMA ValueLower ==
    ASSUME NEW f, NEW base \in Nat \ {0}, NEW n \in Nat \ {0},
           \A k \in 0..(n - 1) : f[k] \in 0..(base - 1), f[0] >= 1
    PROVE  Pow(base, n - 1) <= Value(f, n, base)
<1> DEFINE m == n - 1
           g == [k \in 0..(m - 1) |-> f[1 + k]]
<1>1. m \in Nat /\ 1 + m = n /\ base \in Int
  OBVIOUS
<1>2. \A k \in 0..(1 + m - 1) : f[k] \in Int
  BY <1>1
<1>3. \A k \in 0..(m - 1) : g[k] = f[1 + k]
  OBVIOUS
<1>4. \A k \in 0..(m - 1) : g[k] \in 0..(base - 1)
  BY <1>1
<1> HIDE DEF m, g
<1>5. Value(f, 1 + m, base) = Value(f, 1, base) * Pow(base, m) + Value(g, m, base)
  BY <1>1, <1>2, <1>3, ValueJoin
<1>6. Value(f, 1, base) = f[0] /\ f[0] \in Int
  <2>1. \A k \in 0..0 : f[k] \in Int
    BY <1>1, <1>2
  <2>2. Value(f, 0 + 1, base) = Value(f, 0, base) * base + f[0]
    BY <1>1, <2>1, ValueStep
  <2>3. Value(f, 0, base) = 0
    BY <1>1, ValueZero
  <2> QED  BY <1>1, <2>1, <2>2, <2>3
<1> DEFINE p == Pow(base, m)
           v == Value(g, m, base)
<1>7. p \in Nat /\ v \in Nat
  <2>1. p \in Nat
    BY <1>1, PowPos
  <2>2. v \in 0..(p - 1)
    BY <1>1, <1>4, ValueBound
  <2> QED  BY <2>1, <2>2
<1> HIDE DEF p, v
<1>8. f[0] * p + v >= p
  <2>1. f[0] * p >= p
    BY <1>6, <1>7
  <2> QED  BY <1>6, <1>7, <2>1
<1>9. Value(f, n, base) = f[0] * p + v
  BY <1>1, <1>5, <1>6 DEF p, v
<1> QED  BY <1>8, <1>9 DEF p, m

\* Values are linear in the digits, of whatever size these are.
LEMMA ValueLinear ==
    ASSUME NEW f, NEW g, NEW h, NEW c \in Int, NEW base \in Int, NEW n \in Nat,
           \A k \in 0..(n - 1) : f[k] \in Int,
           \A k \in 0..(n - 1) : g[k] \in Int,
           \A k \in 0..(n - 1) : h[k] = f[k] + c * g[k]
    PROVE  Value(h, n, base) = Value(f, n, base) + c * Value(g, n, base)
<1> DEFINE S == {k \in Nat : Value(h, k, base) = Value(f, k, base) + c * Value(g, k, base)}
<1>1. 0 \in S
  <2>1. Value(h, 0, base) = 0 /\ Value(f, 0, base) = 0 /\ Value(g, 0, base) = 0
    BY ValueZero
  <2>2. Value(h, 0, base) = Value(f, 0, base) + c * Value(g, 0, base)
    BY <2>1
  <2> QED  BY <2>2
<1>2. \A k \in Nat : k < n /\ k \in S => k + 1 \in S
  <2> SUFFICES ASSUME NEW k \in Nat, k < n,
                      Value(h, k, base) = Value(f, k, base) + c * Value(g, k, base)
               PROVE  Value(h, k + 1, base) = Value(f, k + 1, base) + c * Value(g, k + 1, base)
    OBVIOUS
  <2>1. /\ \A x \in 0..k : f[x] \in Int
        /\ \A x \in 0..k : g[x] \in Int
        /\ \A x \in 0..(k - 1) : f[x] \in Int
        /\ \A x \in 0..(k - 1) : g[x] \in Int
    OBVIOUS
  <2>2. \A x \in 0..k : h[x] \in Int
    OBVIOUS
  <2>3. Value(f, k + 1, base) = Value(f, k, base) * base + f[k]
    BY <2>1, ValueStep
  <2>4. Value(g, k + 1, base) = Value(g, k, base) * base + g[k]
    BY <2>1, ValueStep
  <2>5. Value(h, k + 1, base) = Value(h, k, base) * base + h[k]
    BY <2>2, ValueStep
  <2>6. Value(f, k, base) \in Int /\ Value(g, k, base) \in Int
    BY <2>1, ValueInt
  <2>7. f[k] \in Int /\ g[k] \in Int /\ h[k] = f[k] + c * g[k]
    OBVIOUS
  <2>8. \A a, b, d, e \in Int : (a + c * b) * base + (d + c * e) = (a * base + d) + c * (b * base + e)
    OBVIOUS
  <2> QED  BY <2>3, <2>4, <2>5, <2>6, <2>7, <2>8
<1> HIDE DEF S
<1>3. \A k \in 0..n : k \in S
  BY <1>1, <1>2, BoundedInduct
<1> QED  BY <1>3 DEF S

\* Zeros are worth nothing.
LEMMA ValueZeros ==
    ASSUME NEW f, NEW base \in Int, NEW n \in Nat,
           \A k \in 0..(n - 1) : f[k] = 0
    PROVE  Value(f, n, base) = 0
<1>1. Value(f, n, base) \in Int
  BY ValueInt
<1>2. Value(f, n, base) = Value(f, n, base) + 1 * Value(f, n, base)
  <2>1. /\ \A k \in 0..(n - 1) : f[k] \in Int
        /\ \A k \in 0..(n - 1) : f[k] = f[k] + 1 * f[k]
    OBVIOUS
  <2> QED  BY <2>1, ValueLinear
<1>3. \A x \in Int : x = x + 1 * x => x = 0
  OBVIOUS
<1> QED  BY <1>1, <1>2, <1>3

\* A digit has the weight of its place.
LEMMA ValueChange ==
    ASSUME NEW f, NEW g, NEW base \in Int, NEW n \in Nat, NEW p \in 0..(n - 1),
           \A k \in 0..(n - 1) : f[k] \in Int,
           \A k \in 0..(n - 1) : k # p => g[k] = f[k],
           g[p] \in Int
    PROVE  Value(g, n, base) = Value(f, n, base) + (g[p] - f[p]) * Pow(base, n - 1 - p)
<1> DEFINE d == [k \in 0..(n - 1) |-> IF k = p THEN 1 ELSE 0]
           q == n - 1 - p
           e == [k \in 0..(q - 1) |-> 0]
<1>1. /\ q \in Nat /\ p \in Nat /\ (p + 1) + q = n /\ f[p] \in Int
      /\ p + 1 \in Nat /\ (p + 1) - 1 = p
  OBVIOUS
<1>2. Value(d, p + 1, base) = 1
  <2>1. \A k \in 0..(p - 1) : d[k] = 0
    BY <1>1
  <2>2. Value(d, p, base) = 0
    BY <1>1, <2>1, ValueZeros
  <2>3. \A k \in 0..p : d[k] \in Int
    BY <1>1
  <2>4. Value(d, p + 1, base) = Value(d, p, base) * base + d[p]
    BY <1>1, <2>3, ValueStep
  <2> QED  BY <2>2, <2>4
<1>3. Value(d, n, base) = Pow(base, q)
  <2>1. \A k \in 0..(n - 1) : d[k] \in Int
    OBVIOUS
  <2>2. \A k \in 0..(q - 1) : e[k] = d[(p + 1) + k]
    BY <1>1
  <2>3. \A k \in 0..((p + 1) + q - 1) : d[k] \in Int
    BY <1>1, <2>1
  <2>4. Value(e, q, base) = 0
    BY <1>1, ValueZeros
  <2> HIDE DEF d, e, q
  <2>5. Value(d, (p + 1) + q, base) = Value(d, p + 1, base) * Pow(base, q) + Value(e, q, base)
    BY <1>1, <2>2, <2>3, ValueJoin
  <2>6. Pow(base, q) \in Int
    BY <1>1, PowInt
  <2> QED  BY <1>1, <1>2, <2>4, <2>5, <2>6
<1>4. \A k \in 0..(n - 1) : d[k] \in Int
  OBVIOUS
<1>5. \A k \in 0..(n - 1) : g[k] = f[k] + (g[p] - f[p]) * d[k]
  BY <1>1
<1>6. g[p] - f[p] \in Int
  BY <1>1
<1> HIDE DEF d
<1>7. Value(g, n, base) = Value(f, n, base) + (g[p] - f[p]) * Value(d, n, base)
  BY <1>4, <1>5, <1>6, ValueLinear
<1> QED  BY <1>3, <1>7 DEF q

\* Natural digits make a natural number, no less than each of them in its place.
LEMMA ValueNat ==
    ASSUME NEW f, NEW base \in Nat, NEW n \in Nat,
           \A k \in 0..(n - 1) : f[k] \in Nat
    PROVE  Value(f, n, base) \in Nat
<1> DEFINE S == {k \in Nat : Value(f, k, base) \in Nat}
<1>1. 0 \in S
  BY ValueZero
<1>2. \A k \in Nat : k < n /\ k \in S => k + 1 \in S
  <2> SUFFICES ASSUME NEW k \in Nat, k < n, Value(f, k, base) \in Nat
               PROVE  Value(f, k + 1, base) \in Nat
    OBVIOUS
  <2>1. f[k] \in Nat /\ \A x \in 0..k : f[x] \in Int
    OBVIOUS
  <2>2. Value(f, k + 1, base) = Value(f, k, base) * base + f[k]
    BY <2>1, ValueStep
  <2>3. \A v, d \in Nat : v * base + d \in Nat
    OBVIOUS
  <2> QED  BY <2>1, <2>2, <2>3
<1> HIDE DEF S
<1>3. \A k \in 0..n : k \in S
  BY <1>1, <1>2, BoundedInduct
<1> QED  BY <1>3 DEF S

\* A number is at least what any one of its digits contributes.
LEMMA ValueFloor ==
    ASSUME NEW f, NEW base \in Nat, NEW n \in Nat, NEW p \in 0..(n - 1),
           \A k \in 0..(n - 1) : f[k] \in Nat
    PROVE  f[p] * Pow(base, n - 1 - p) <= Value(f, n, base)
<1> DEFINE g == [k \in 0..(n - 1) |-> IF k = p THEN 0 ELSE f[k]]
           w == Pow(base, n - 1 - p)
<1>1. /\ \A k \in 0..(n - 1) : f[k] \in Int
      /\ \A k \in 0..(n - 1) : k # p => g[k] = f[k]
      /\ g[p] = 0 /\ f[p] \in Int
  OBVIOUS
<1>2. \A k \in 0..(n - 1) : g[k] \in Nat
  OBVIOUS
<1> HIDE DEF g
<1>3. Value(g, n, base) = Value(f, n, base) + (g[p] - f[p]) * w
  BY <1>1, ValueChange
<1>4. Value(g, n, base) \in Nat /\ Value(f, n, base) \in Nat
  BY <1>2, ValueNat
<1>5. w \in Int
  <2>1. n - 1 - p \in Nat
    OBVIOUS
  <2> QED  BY <2>1, PowInt
<1> HIDE DEF w
<1>6. \A v, u, d, x \in Int : v = u + (0 - d) * x /\ v >= 0 => d * x <= u
  OBVIOUS
<1>7. f[p] * w <= Value(f, n, base)
  BY <1>1, <1>3, <1>4, <1>5, <1>6
<1> QED  BY <1>7 DEF w

\* The n digits of a number below base^n are worth that number.
LEMMA ValueDigits ==
    ASSUME NEW f, NEW base \in Nat \ {0}, NEW n \in Nat, NEW x \in Nat, x < Pow(base, n),
           \A k \in 0..(n - 1) : f[k] = Digit(x, k, n, base)
    PROVE  Value(f, n, base) = x
<1> DEFINE D(e) == x \div Pow(base, e)
           S == {k \in Nat : Value(f, k, base) = D(n - k)}
<1>1. \A e \in Nat : Pow(base, e) \in Nat \ {0} /\ D(e) \in Nat
  BY PowPos, DivNat
<1>2. 0 \in S
  <2>1. D(n) = 0
    BY <1>1, DivNat
  <2>2. n - 0 = n /\ Value(f, 0, base) = 0
    BY ValueZero
  <2> QED  BY <2>1, <2>2
<1>3. \A k \in 0..(n - 1) : f[k] = D(n - 1 - k) % base
  BY DEF Digit
<1>4. \A k \in 0..(n - 1) : f[k] \in Int
  <2>1. \A k \in 0..(n - 1) : n - 1 - k \in Nat
    OBVIOUS
  <2>2. \A d \in Nat : d % base \in Int
    OBVIOUS
  <2> QED  BY <1>1, <1>3, <2>1, <2>2
<1>5. \A k \in Nat : k < n /\ k \in S => k + 1 \in S
  <2> SUFFICES ASSUME NEW k \in Nat, k < n, Value(f, k, base) = D(n - k)
               PROVE  Value(f, k + 1, base) = D(n - (k + 1))
    OBVIOUS
  <2> DEFINE e == n - 1 - k
  <2>1. e \in Nat /\ n - (k + 1) = e /\ n - k = e + 1 /\ k \in 0..(n - 1)
    OBVIOUS
  <2>2. \A y \in 0..k : f[y] \in Int
    BY <1>4
  <2>3. Value(f, k + 1, base) = Value(f, k, base) * base + f[k]
    BY <2>2, ValueStep
  <2>4. f[k] = D(e) % base
    BY <1>3, <2>1
  <2> HIDE DEF e
  <2>5. Pow(base, e + 1) = Pow(base, e) * base
    BY <2>1, PowStep
  <2>6. D(e) \div base = D(e + 1)
    <3>1. Pow(base, e) \in Nat \ {0}
      BY <1>1, <2>1
    <3>2. (x \div Pow(base, e)) \div base = x \div (Pow(base, e) * base)
      BY <3>1, DivDiv
    <3> QED  BY <2>5, <3>2, Zenon
  <2>7. D(e) = (D(e) \div base) * base + (D(e) % base)
    <3>1. D(e) \in Int /\ base \in Nat \ {0}
      BY <1>1, <2>1
    <3> HIDE DEF D
    <3> QED  BY <3>1, DivMod
  <2> QED  BY <2>1, <2>3, <2>4, <2>6, <2>7, Zenon
<1> HIDE DEF S
<1>6. \A k \in 0..n : k \in S
  BY <1>2, <1>5, BoundedInduct
<1>7. Value(f, n, base) = D(0)
  <2>1. n \in 0..n /\ n - n = 0
    OBVIOUS
  <2>2. n \in S
    BY <1>6, <2>1
  <2> QED  BY <2>1, <2>2 DEF S
<1>8. D(0) = x
  <2>1. Pow(base, 0) = 1
    BY PowZero
  <2>2. x \div 1 = x
    OBVIOUS
  <2> QED  BY <2>1, <2>2
<1> QED  BY <1>7, <1>8, Zenon

\* Powers of powers.
LEMMA PowPow ==
    ASSUME NEW base \in Int, NEW m \in Nat, NEW n \in Nat
    PROVE  Pow(Pow(base, m), n) = Pow(base, n * m)
<1> DEFINE p == Pow(base, m)
           S == {k \in Nat : Pow(p, k) = Pow(base, k * m)}
<1>1. p \in Int
  BY PowInt
<1> HIDE DEF p
<1>2. 0 \in S
  <2>1. 0 * m = 0 /\ Pow(p, 0) = 1 /\ Pow(base, 0) = 1
    BY <1>1, PowZero
  <2> QED  BY <2>1
<1>3. \A k \in Nat : k \in S => k + 1 \in S
  <2> SUFFICES ASSUME NEW k \in Nat, Pow(p, k) = Pow(base, k * m)
               PROVE  Pow(p, k + 1) = Pow(base, (k + 1) * m)
    OBVIOUS
  <2>1. Pow(p, k + 1) = Pow(p, k) * p
    BY <1>1, PowStep
  <2>2. (k + 1) * m = k * m + m /\ k * m \in Nat
    OBVIOUS
  <2> HIDE DEF S
  <2>3. Pow(base, k * m + m) = Pow(base, k * m) * Pow(base, m)
    BY <2>2, PowAdd
  <2> QED  BY <2>1, <2>2, <2>3 DEF p
<1> HIDE DEF S
<1>4. n \in S
  BY <1>2, <1>3, NatInduct
<1> QED  BY <1>4 DEF S, p

\* Of two powers of a base the larger one has the larger exponent.
LEMMA PowOrder ==
    ASSUME NEW base \in Nat \ {0, 1}, NEW a \in Nat, NEW b \in Nat
    PROVE  /\ Pow(base, a) <= Pow(base, b) => a <= b
           /\ Pow(base, a) < Pow(base, b) => a < b
<1>1. ASSUME b < a PROVE Pow(base, b) < Pow(base, a)
  <2>1. Pow(base, b + 1) <= Pow(base, a)
    BY <1>1, PowMonotone
  <2>2. Pow(base, b + 1) = Pow(base, b) * base
    BY PowStep
  <2>3. Pow(base, b) \in Nat \ {0} /\ Pow(base, a) \in Nat
    BY PowPos
  <2>4. \A p \in Nat \ {0} : p < p * base
    OBVIOUS
  <2> QED  BY <2>1, <2>2, <2>3, <2>4
<1>2. a = b => Pow(base, a) = Pow(base, b)
  OBVIOUS
<1>3. Pow(base, a) \in Nat /\ Pow(base, b) \in Nat
  BY PowPos
<1>4. Pow(base, a) <= Pow(base, b) => a <= b
  BY <1>1, <1>3
<1>5. Pow(base, a) < Pow(base, b) => a < b
  BY <1>1, <1>2, <1>3
<1> QED  BY <1>4, <1>5

\* A larger base has larger powers.
LEMMA PowBase ==
    ASSUME NEW a \in Nat, NEW b \in Nat, a <= b, NEW n \in Nat
    PROVE  Pow(a, n) <= Pow(b, n)
<1> DEFINE S == {k \in Nat : Pow(a, k) \in Nat /\ Pow(b, k) \in Nat /\ Pow(a, k) <= Pow(b, k)}
<1>1. 0 \in S
  BY PowZero
<1>2. \A k \in Nat : k \in S => k + 1 \in S
  <2> SUFFICES ASSUME NEW k \in Nat, Pow(a, k) \in Nat, Pow(b, k) \in Nat, Pow(a, k) <= Pow(b, k)
               PROVE  k + 1 \in S
    OBVIOUS
  <2>1. Pow(a, k + 1) = Pow(a, k) * a /\ Pow(b, k + 1) = Pow(b, k) * b
    BY PowStep
  <2>2. \A x, y \in Nat : x <= y => x * a \in Nat /\ y * b \in Nat /\ x * a <= y * b
    <3> SUFFICES ASSUME NEW x \in Nat, NEW y \in Nat, x <= y
                 PROVE  x * a \in Nat /\ y * b \in Nat /\ x * a <= y * b
      OBVIOUS
    <3>1. x * a <= x * b /\ x * b <= y * b
      <4>1. x * (b - a) >= 0 /\ (y - x) * b >= 0
        OBVIOUS
      <4>2. x * (b - a) = x * b - x * a /\ (y - x) * b = y * b - x * b
        OBVIOUS
      <4> QED  BY <4>1, <4>2
    <3> QED  BY <3>1
  <2> QED  BY <2>1, <2>2
<1> HIDE DEF S
<1>3. n \in S
  BY <1>1, <1>2, NatInduct
<1> QED  BY <1>3 DEF S

\* Digits taken m at a time are the digits in base^m.
LEMMA ValueGroup ==
    ASSUME NEW f, NEW g, NEW base \in Int, NEW m \in Nat, NEW n \in Nat,
           \A k \in 0..(n * m - 1) : f[k] \in Int,
           \A j \in 0..(n - 1) : g[j] = Value([b \in 0..(m - 1) |-> f[j * m + b]], m, base)
    PROVE  Value(g, n, Pow(base, m)) = Value(f, n * m, base)
<1> DEFINE p == Pow(base, m)
           H(j) == [b \in 0..(m - 1) |-> f[j * m + b]]
           S == {k \in Nat : Value(g, k, p) = Value(f, k * m, base)}
<1>1. p \in Int
  BY PowInt
<1>2. \A j \in 0..(n - 1) : \A b \in 0..(m - 1) : f[j * m + b] \in Int
  <2> SUFFICES ASSUME NEW j \in 0..(n - 1), NEW b \in 0..(m - 1)
               PROVE  j * m + b \in 0..(n * m - 1)
    OBVIOUS
  <2>1. j * m >= 0 /\ (n - 1 - j) * m >= 0 /\ (n - 1 - j) * m = n * m - m - j * m
    OBVIOUS
  <2>2. j * m \in Int /\ n * m \in Int
    OBVIOUS
  <2> QED  BY <2>1, <2>2
<1>3. \A j \in 0..(n - 1) : g[j] \in Int
  <2> SUFFICES ASSUME NEW j \in 0..(n - 1) PROVE g[j] \in Int
    OBVIOUS
  <2>1. \A b \in 0..(m - 1) : H(j)[b] \in Int
    BY <1>2
  <2>2. g[j] = Value(H(j), m, base)
    OBVIOUS
  <2> HIDE DEF H
  <2>3. Value(H(j), m, base) \in Int
    BY <2>1, ValueInt
  <2> QED  BY <2>2, <2>3
<1> HIDE DEF p
<1>4. 0 \in S
  <2>1. 0 * m = 0 /\ Value(g, 0, p) = 0 /\ Value(f, 0, base) = 0
    BY <1>1, ValueZero
  <2> QED  BY <2>1
<1>5. \A k \in Nat : k < n /\ k \in S => k + 1 \in S
  <2> SUFFICES ASSUME NEW k \in Nat, k < n, Value(g, k, p) = Value(f, k * m, base)
               PROVE  Value(g, k + 1, p) = Value(f, (k + 1) * m, base)
    OBVIOUS
  <2>1. \A x \in 0..k : g[x] \in Int
    BY <1>3
  <2>2. Value(g, k + 1, p) = Value(g, k, p) * p + g[k]
    BY <1>1, <2>1, ValueStep
  <2>3. k * m \in Nat /\ (k + 1) * m = k * m + m /\ k * m + m <= n * m /\ n * m \in Nat
    <3>1. (n - 1 - k) * m >= 0 /\ (n - 1 - k) * m = n * m - (k * m + m)
      OBVIOUS
    <3> QED  BY <3>1
  <2>4. \A x \in 0..(k * m + m - 1) : f[x] \in Int
    BY <2>3
  <2>5. \A x \in 0..(m - 1) : H(k)[x] = f[k * m + x]
    OBVIOUS
  <2>6. g[k] = Value(H(k), m, base)
    <3>1. k \in 0..(n - 1)
      OBVIOUS
    <3> QED  BY <3>1
  <2> DEFINE h == H(k)
             x == k * m
  <2> HIDE DEF H, S, h, x
  <2>7. /\ x \in Nat
        /\ \A y \in 0..(x + m - 1) : f[y] \in Int
        /\ \A y \in 0..(m - 1) : h[y] = f[x + y]
    BY <2>3, <2>4, <2>5 DEF x, h
  <2>8. Value(f, x + m, base) = Value(f, x, base) * Pow(base, m) + Value(h, m, base)
    BY <2>7, ValueJoin, SMTT(30)
  <2> QED  BY <2>2, <2>3, <2>6, <2>8 DEF p, x, h
<1> HIDE DEF S
<1>6. \A k \in 0..n : k \in S
  BY <1>4, <1>5, BoundedInduct
<1> QED  BY <1>6 DEF S, p

\* The count of leading zeros is what its definition says it is.
LEMMA LeadingZerosDef ==
    ASSUME NEW f, NEW n \in Nat, NEW zero
    PROVE  /\ LeadingZeros(f, n, zero) \in 0..n
           /\ \A k \in 0..(LeadingZeros(f, n, zero) - 1) : f[k] = zero
           /\ LeadingZeros(f, n, zero) < n => f[LeadingZeros(f, n, zero)] # zero
<1> DEFINE P(z) == /\ \A k \in 0..(z - 1) : f[k] = zero
                   /\ z < n => f[z] # zero
           S == {z \in Nat : z < n => f[z] # zero}
<1>1. PICK m \in S : \A k \in S : m <= k
  <2>1. n \in S
    OBVIOUS
  <2> HIDE DEF S
  <2>2. S \subseteq Nat
    BY DEF S
  <2> QED  BY <2>1, <2>2, LeastNumber
<1>2. m \in 0..n
  <2>1. n \in S /\ m \in Nat
    OBVIOUS
  <2> QED  BY <1>1, <2>1
<1>3. P(m)
  <2>1. ASSUME NEW k \in 0..(m - 1) PROVE f[k] = zero
    <3>1. k \in Nat /\ ~(m <= k) /\ k < n
      BY <1>2
    <3>2. k \notin S
      BY <1>1, <3>1
    <3> QED  BY <3>1, <3>2
  <2> QED  BY <2>1
<1>4. LeadingZeros(f, n, zero) = CHOOSE z \in 0..n : P(z)
  BY DEF LeadingZeros
<1>5. LeadingZeros(f, n, zero) \in 0..n /\ P(LeadingZeros(f, n, zero))
  <2> HIDE DEF P
  <2> QED  BY <1>2, <1>3, <1>4, Zenon
<1> QED  BY <1>5

\* And nothing else is.
LEMMA LeadingZerosUnique ==
    ASSUME NEW f, NEW n \in Nat, NEW zero, NEW z \in 0..n,
           \A k \in 0..(z - 1) : f[k] = zero,
           z < n => f[z] # zero
    PROVE  LeadingZeros(f, n, zero) = z
<1> DEFINE y == LeadingZeros(f, n, zero)
<1>1. /\ y \in 0..n
      /\ \A k \in 0..(y - 1) : f[k] = zero
      /\ y < n => f[y] # zero
  BY LeadingZerosDef
<1> HIDE DEF y
<1>2. y = z
  <2>1. ~(y < z) /\ ~(z < y)
    BY <1>1
  <2> QED  BY <1>1, <2>1
<1> QED  BY <1>2 DEF y

\* Leading zeros can be left out.
LEMMA ValueSkip ==
    ASSUME NEW f, NEW g, NEW base \in Int, NEW n \in Nat, NEW z \in 0..n,
           \A k \in 0..(n - 1) : f[k] \in Int,
           \A k \in 0..(z - 1) : f[k] = 0,
           \A k \in 0..(n - z - 1) : g[k] = f[z + k]
    PROVE  Value(g, n - z, base) = Value(f, n, base)
<1> DEFINE m == n - z
<1>1. /\ m \in Nat /\ z + m = n /\ z \in Nat
      /\ \A k \in 0..(z + m - 1) : f[k] \in Int
      /\ \A k \in 0..(m - 1) : g[k] = f[z + k]
      /\ \A k \in 0..(m - 1) : g[k] \in Int
  OBVIOUS
<1> HIDE DEF m
<1>2. Value(f, z + m, base) = Value(f, z, base) * Pow(base, m) + Value(g, m, base)
  BY <1>1, ValueJoin
<1>3. Value(f, z, base) = 0
  BY <1>1, ValueZeros
<1>4. Pow(base, m) \in Int /\ Value(g, m, base) \in Int
  BY <1>1, PowInt, ValueInt
<1>5. \A p, v \in Int : 0 * p + v = v
  OBVIOUS
<1> QED  BY <1>1, <1>2, <1>3, <1>4, <1>5 DEF m

\* A digit is one.
LEMMA DigitRange ==
    ASSUME NEW x \in Nat, NEW base \in Nat \ {0}, NEW n \in Nat, NEW k \in 0..(n - 1)
    PROVE  Digit(x, k, n, base) \in 0..(base - 1)
<1>1. n - 1 - k \in Nat
  OBVIOUS
<1>2. Pow(base, n - 1 - k) \in Nat \ {0}
  BY <1>1, PowPos
<1>3. x \div Pow(base, n - 1 - k) \in Nat
  BY <1>2, DivNat
<1>4. \A d \in Nat : d % base \in 0..(base - 1)
  OBVIOUS
<1> QED  BY <1>3, <1>4 DEF Digit

-----------------------------------------------------------------------------
(* Parts of a sequence of digits *)

\* The value of n entries of s, behind the first from.
Part(s, from, n, base) == Value([k \in 0..(n - 1) |-> s[from + k + 1]], n, base)

\* A part of n digits is worth less than base^n.
LEMMA PartBound ==
    ASSUME NEW s, NEW base \in Nat \ {0}, NEW from \in Nat, NEW n \in Nat,
           \A x \in (from + 1)..(from + n) : s[x] \in 0..(base - 1)
    PROVE  Part(s, from, n, base) \in 0..(Pow(base, n) - 1)
<1> DEFINE f == [k \in 0..(n - 1) |-> s[from + k + 1]]
<1>1. \A k \in 0..(n - 1) : f[k] \in 0..(base - 1)
  OBVIOUS
<1>2. Part(s, from, n, base) = Value(f, n, base)
  BY DEF Part
<1> HIDE DEF f
<1> QED  BY <1>1, <1>2, ValueBound

\* No digit: zero.
LEMMA PartNone ==
    ASSUME NEW s, NEW base \in Int, NEW from
    PROVE  Part(s, from, 0, base) = 0
BY ValueZero DEF Part

\* A part is a number.
LEMMA PartInt ==
    ASSUME NEW s, NEW base \in Int, NEW from \in Nat, NEW n \in Nat,
           \A x \in (from + 1)..(from + n) : s[x] \in Int
    PROVE  Part(s, from, n, base) \in Int
<1> DEFINE f == [k \in 0..(n - 1) |-> s[from + k + 1]]
<1>1. \A k \in 0..(n - 1) : f[k] \in Int
  OBVIOUS
<1>2. Part(s, from, n, base) = Value(f, n, base)
  BY DEF Part
<1> HIDE DEF f
<1> QED  BY <1>1, <1>2, ValueInt

\* Two adjacent parts are joined by the power of the second one's length.
LEMMA PartJoin ==
    ASSUME NEW s, NEW base \in Int, NEW from \in Nat, NEW m \in Nat, NEW n \in Nat,
           \A x \in (from + 1)..(from + m + n) : s[x] \in Int
    PROVE  Part(s, from, m + n, base)
             = Part(s, from, m, base) * Pow(base, n) + Part(s, from + m, n, base)
<1> DEFINE f == [k \in 0..(m + n - 1) |-> s[from + k + 1]]
           g == [k \in 0..(n - 1) |-> s[from + m + k + 1]]
           h == [k \in 0..(m - 1) |-> s[from + k + 1]]
<1>1. \A k \in 0..(m + n - 1) : f[k] \in Int
  OBVIOUS
<1>2. \A k \in 0..(n - 1) : g[k] = f[m + k]
  OBVIOUS
<1>3. \A k \in 0..(m - 1) : f[k] \in Int /\ h[k] = f[k]
  OBVIOUS
<1>4. Part(s, from, m + n, base) = Value(f, m + n, base) /\ Part(s, from, m, base) = Value(h, m, base)
        /\ Part(s, from + m, n, base) = Value(g, n, base)
  BY DEF Part
<1> HIDE DEF f, g, h
<1>5. Value(f, m + n, base) = Value(f, m, base) * Pow(base, n) + Value(g, n, base)
  BY <1>1, <1>2, ValueJoin
<1>6. Value(h, m, base) = Value(f, m, base)
  BY <1>3, ValueEqual
<1> QED  BY <1>4, <1>5, <1>6

\* One more digit.
LEMMA PartNext ==
    ASSUME NEW s, NEW base \in Int, NEW from \in Nat, NEW n \in Nat,
           \A x \in (from + 1)..(from + n + 1) : s[x] \in Int
    PROVE  Part(s, from, n + 1, base) = Part(s, from, n, base) * base + s[from + n + 1]
<1> DEFINE f == [k \in 0..((n + 1) - 1) |-> s[from + k + 1]]
           g == [k \in 0..(n - 1) |-> s[from + k + 1]]
<1>1. \A k \in 0..n : f[k] \in Int
  OBVIOUS
<1>2. f[n] = s[from + n + 1]
  OBVIOUS
<1>3. \A k \in 0..(n - 1) : f[k] \in Int /\ g[k] = f[k]
  OBVIOUS
<1>4. Part(s, from, n + 1, base) = Value(f, n + 1, base) /\ Part(s, from, n, base) = Value(g, n, base)
  BY DEF Part
<1> HIDE DEF f, g
<1>5. Value(f, n + 1, base) = Value(f, n, base) * base + f[n]
  BY <1>1, ValueStep
<1>6. Value(g, n, base) = Value(f, n, base)
  BY <1>3, ValueEqual
<1> QED  BY <1>2, <1>4, <1>5, <1>6

-----------------------------------------------------------------------------
(* Division by multiplication *)

\* The quotient by d is the quotient by p of the product with m = (p + e) / d, a
\* reciprocal rounded up, as long as the error does not reach m: for every
\* number below n * d when n * e < m.
LEMMA Reciprocal ==
    ASSUME NEW d \in Nat \ {0}, NEW p \in Nat \ {0}, NEW m \in Nat, NEW e \in Nat, NEW n \in Nat,
           m * d = p + e, n * e < m, NEW x \in Nat, x < n * d
    PROVE  (x * m) \div p = x \div d
<1> DEFINE q == x \div d
           r == x % d
<1>1. q \in Nat /\ r \in 0..(d - 1) /\ x = q * d + r
  <2>1. x \in Int
    OBVIOUS
  <2> QED  BY <2>1, DivMod, DivNat
<1> HIDE DEF q, r
<1>2. q + 1 <= n
  <2>1. ASSUME q >= n PROVE FALSE
    <3>1. (q - n) * d >= 0 /\ (q - n) * d = q * d - n * d /\ q * d \in Int /\ n * d \in Int
      BY <1>1, <2>1
    <3> QED  BY <1>1, <3>1
  <2> QED  BY <1>1, <2>1
<1>3. (q + 1) * e < m
  <2>1. (n - (q + 1)) * e >= 0 /\ (n - (q + 1)) * e = n * e - (q + 1) * e
    BY <1>1, <1>2
  <2>2. n * e \in Int /\ (q + 1) * e \in Int
    BY <1>1
  <2> QED  BY <2>1, <2>2
<1> DEFINE s == q * e + r * m
<1>4. x * m = q * p + s
  <2>1. x * m = q * (d * m) + r * m
    <3>1. \A a, b, c, f \in Int : (a * b + c) * f = a * (b * f) + c * f
      OBVIOUS
    <3> QED  BY <1>1, <3>1
  <2>2. d * m = p + e
    BY <1>1
  <2>3. \A a, b, c, f \in Int : a * (b + c) + f = a * b + (a * c + f)
    OBVIOUS
  <2>4. r * m \in Int
    BY <1>1
  <2> QED  BY <1>1, <2>1, <2>2, <2>3, <2>4
<1>5. s \in 0..(p - 1)
  <2>1. q * e >= 0 /\ r * m >= 0 /\ q * e \in Int /\ r * m \in Int /\ (q + 1) * e = q * e + e
    BY <1>1
  <2>2. (d - 1 - r) * m >= 0 /\ (d - 1 - r) * m = m * d - m - r * m /\ m * d \in Int
    BY <1>1
  <2> QED  BY <1>3, <2>1, <2>2
<1> HIDE DEF s
<1>6. x * m \in Int /\ q \in Int
  BY <1>1
<1> DEFINE a == x * m
<1>7. a \in Int /\ a = q * p + s
  BY <1>4, <1>6
<1> HIDE DEF a
<1>8. a \div p = q
  BY <1>5, <1>6, <1>7, DivModUnique
<1> QED  BY <1>8 DEF a, q

-----------------------------------------------------------------------------
(* Digits found again *)

\* Digits below base are those of their value: no two numbers of n digits are
\* worth the same.
LEMMA DigitsUnique ==
    ASSUME NEW f, NEW base \in Nat \ {0}, NEW n \in Nat, NEW k \in 0..(n - 1),
           \A j \in 0..(n - 1) : f[j] \in 0..(base - 1)
    PROVE  f[k] = Digit(Value(f, n, base), k, n, base)
<1> DEFINE m == n - 1 - k
           g == [j \in 0..(m - 1) |-> f[(k + 1) + j]]
           p == Pow(base, m)
           x == Value(f, k + 1, base)
           y == Value(g, m, base)
           z == Value(f, k, base)
<1>1. m \in Nat /\ k \in Nat /\ k + 1 \in Nat /\ (k + 1) + m = n /\ base \in Int
  OBVIOUS
<1>2. \A j \in 0..(n - 1) : f[j] \in Int
  OBVIOUS
<1>3. Value(f, n, base) = x * p + y
  <2>1. \A j \in 0..((k + 1) + m - 1) : f[j] \in Int
    BY <1>1, <1>2
  <2>2. \A j \in 0..(m - 1) : g[j] = f[(k + 1) + j]
    OBVIOUS
  <2> HIDE DEF m, g
  <2>3. Value(f, (k + 1) + m, base) = x * p + y
    BY <1>1, <2>1, <2>2, ValueJoin
  <2> QED  BY <1>1, <2>3
<1>4. y \in 0..(p - 1)
  <2>1. \A j \in 0..(m - 1) : (k + 1) + j \in 0..(n - 1) /\ g[j] = f[(k + 1) + j]
    BY <1>1
  <2>2. \A j \in 0..(m - 1) : g[j] \in 0..(base - 1)
    BY <2>1
  <2> HIDE DEF m, g
  <2> QED  BY <1>1, <2>2, ValueBound
<1>5. p \in Nat \ {0}
  BY <1>1, PowPos
<1>6. x = z * base + f[k]
  <2>1. \A j \in 0..k : f[j] \in Int
    BY <1>2
  <2> QED  BY <1>1, <2>1, ValueStep
<1>7. z \in Int /\ x \in Int /\ f[k] \in 0..(base - 1)
  <2>1. \A j \in 0..(k - 1) : f[j] \in Int
    BY <1>2
  <2>2. \A j \in 0..((k + 1) - 1) : f[j] \in Int
    BY <1>2
  <2>3. z \in Int
    BY <1>1, <2>1, ValueInt
  <2>4. x \in Int
    BY <1>1, <2>2, ValueInt
  <2> QED  BY <2>3, <2>4
<1> HIDE DEF x, y, z, p, m, g
<1>8. x * p + y \in Int
  BY <1>4, <1>5, <1>7
<1>9. (x * p + y) \div p = x
  BY <1>4, <1>5, <1>7, <1>8, DivModUnique
<1>10. x % base = f[k]
  BY <1>6, <1>7, DivModUnique
<1> QED  BY <1>3, <1>9, <1>10 DEF Digit, p, m

\* Even with digits that reach base a number of n digits is below 2 * base^n.
LEMMA ValueLoose ==
    ASSUME NEW f, NEW base \in Nat \ {0, 1}, NEW n \in Nat,
           \A k \in 0..(n - 1) : f[k] \in 0..base
    PROVE  Value(f, n, base) \in Nat /\ Value(f, n, base) < 2 * Pow(base, n)
<1> DEFINE g == [k \in 0..(n - 1) |-> IF f[k] = base THEN base - 1 ELSE f[k]]
           h == [k \in 0..(n - 1) |-> IF f[k] = base THEN 1 ELSE 0]
           p == Pow(base, n)
<1>1. /\ \A k \in 0..(n - 1) : g[k] \in 0..(base - 1)
      /\ \A k \in 0..(n - 1) : h[k] \in 0..(base - 1)
      /\ \A k \in 0..(n - 1) : f[k] = g[k] + 1 * h[k]
  OBVIOUS
<1> HIDE DEF g, h
<1>2. /\ \A k \in 0..(n - 1) : g[k] \in Int
      /\ \A k \in 0..(n - 1) : h[k] \in Int
  BY <1>1
<1>3. base \in Nat \ {0} /\ base \in Int /\ 1 \in Int
  OBVIOUS
<1>4. Value(f, n, base) = Value(g, n, base) + 1 * Value(h, n, base)
  BY <1>1, <1>2, <1>3, ValueLinear
<1>5. Value(g, n, base) \in 0..(p - 1) /\ Value(h, n, base) \in 0..(p - 1)
  BY <1>1, <1>3, ValueBound
<1>6. p \in Nat
  BY <1>3, PowPos
<1> HIDE DEF p
<1> QED  BY <1>4, <1>5, <1>6 DEF p

-----------------------------------------------------------------------------
(* Orders of powers *)

\* A power is larger than its exponent.
LEMMA PowExponent ==
    ASSUME NEW base \in Nat \ {0, 1}, NEW n \in Nat
    PROVE  n < Pow(base, n)
<1> DEFINE S == {k \in Nat : k < Pow(base, k)}
<1>1. 0 \in S
  BY PowZero
<1>2. ASSUME NEW k \in Nat, k \in S PROVE k + 1 \in S
  <2>1. Pow(base, k + 1) = Pow(base, k) * base /\ Pow(base, k) \in Nat
    BY PowStep, PowPos
  <2>2. \A p \in Nat, b \in Nat \ {0, 1} : p * b >= p + p
    OBVIOUS
  <2>3. k < Pow(base, k)
    BY <1>2
  <2>4. Pow(base, k) * base >= Pow(base, k) + Pow(base, k)
    BY <2>1, <2>2
  <2>5. Pow(base, k) * base \in Int
    BY <2>1
  <2> QED  BY <2>1, <2>3, <2>4, <2>5
<1> HIDE DEF S
<1>3. \A k \in Nat : k \in S
  BY <1>1, <1>2, NatInduct
<1> QED  BY <1>3 DEF S

\* Powers of the same exponent are ordered as their bases.
LEMMA PowRoot ==
    ASSUME NEW a \in Nat, NEW b \in Nat, NEW n \in Nat \ {0}, Pow(a, n) <= Pow(b, n)
    PROVE  a <= b
<1> SUFFICES ASSUME b < a PROVE FALSE
  OBVIOUS
<1> DEFINE m == n - 1
<1>1. m \in Nat /\ n = m + 1 /\ a \in Nat \ {0} /\ b <= a /\ b \in Int /\ a \in Int
  OBVIOUS
<1> HIDE DEF m
<1>2. Pow(a, m + 1) = Pow(a, m) * a
  BY <1>1, PowStep
<1>3. Pow(b, m + 1) = Pow(b, m) * b
  BY <1>1, PowStep
<1>4. Pow(b, m) <= Pow(a, m)
  BY <1>1, PowBase
<1>5. Pow(a, m) \in Nat \ {0}
  BY <1>1, PowPos
<1>6. Pow(b, m) \in Int
  BY <1>1, PowInt
<1>7. \A p \in Int, q \in Nat \ {0} : p <= q => p * b < q * a
  <2> SUFFICES ASSUME NEW p \in Int, NEW q \in Nat \ {0}, p <= q PROVE p * b < q * a
    OBVIOUS
  <2>1. (q - p) * b >= 0 /\ (q - p) * b = q * b - p * b
    OBVIOUS
  <2>2. q * (a - b) > 0 /\ q * (a - b) = q * a - q * b
    OBVIOUS
  <2> QED  BY <2>1, <2>2
<1>8. Pow(b, m) * b < Pow(a, m) * a
  BY <1>4, <1>5, <1>6, <1>7
<1>9. Pow(b, m) * b \in Int /\ Pow(a, m) * a \in Int
  BY <1>5, <1>6
<1> QED  BY <1>1, <1>2, <1>3, <1>8, <1>9

-----------------------------------------------------------------------------
(* Digits of a number as remainders of quotients *)

\* A multiple of the divisor goes straight into the quotient.
LEMMA DivShift ==
    ASSUME NEW m \in Int, NEW x \in Int, NEW q \in Nat \ {0}
    PROVE  (m * q + x) \div q = m + (x \div q)
<1> DEFINE d == x \div q
           r == x % q
<1>1. d \in Int /\ r \in 0..(q - 1) /\ x = d * q + r
  BY DivMod
<1> HIDE DEF d, r
<1>2. m * q + x = (m + d) * q + r
  BY <1>1
<1>3. m * q + x \in Int /\ m + d \in Int
  BY <1>1
<1> DEFINE y == m * q + x
           e == m + d
<1>4. y \in Int /\ e \in Int /\ y = e * q + r
  BY <1>2, <1>3
<1> HIDE DEF y, e
<1>5. y \div q = e
  BY <1>1, <1>4, DivModUnique
<1> QED  BY <1>5 DEF y, e, d

\* The same for the remainder.
LEMMA ModShift ==
    ASSUME NEW m \in Int, NEW x \in Int, NEW q \in Nat \ {0}
    PROVE  (m * q + x) % q = x % q
<1> DEFINE d == x \div q
           r == x % q
<1>1. d \in Int /\ r \in 0..(q - 1) /\ x = d * q + r
  BY DivMod
<1> HIDE DEF d, r
<1> DEFINE y == m * q + x
           e == m + d
<1>2. y \in Int /\ e \in Int /\ y = e * q + r
  BY <1>1
<1> HIDE DEF y, e
<1>3. y % q = r
  BY <1>1, <1>2, DivModUnique
<1> QED  BY <1>3 DEF y, r

\* A remainder of a product: the digit above, and the remainder below.
LEMMA ModSplit ==
    ASSUME NEW x \in Nat, NEW q \in Nat \ {0}, NEW b \in Nat \ {0}
    PROVE  x % (q * b) = ((x \div q) % b) * q + (x % q)
<1> DEFINE d == x \div q
           r == x % q
           u == d \div b
           v == d % b
<1>1. d \in Nat /\ r \in 0..(q - 1) /\ x = d * q + r
  BY DivMod, DivNat
<1>2. u \in Int /\ v \in 0..(b - 1) /\ d = u * b + v
  <2>1. d \in Int
    BY <1>1
  <2> HIDE DEF d
  <2> QED  BY <2>1, DivMod
<1> HIDE DEF d, r, u, v
<1>3. v * q <= (b - 1) * q /\ v * q \in Nat /\ (b - 1) * q = q * b - q
  <2>1. (b - 1 - v) * q \in Nat /\ (b - 1 - v) * q = (b - 1) * q - v * q
    BY <1>2
  <2>2. v * q \in Nat /\ (b - 1) * q \in Nat /\ (b - 1) * q = q * b - q
    BY <1>2
  <2> QED  BY <2>1, <2>2
<1> DEFINE c == q * b
           t == v * q + r
<1>4. c \in Nat \ {0} /\ t \in 0..(c - 1)
  BY <1>1, <1>3
<1>5. x = u * c + t
  <2>1. (u * b + v) * q = u * (q * b) + v * q
    BY <1>2
  <2> QED  BY <1>1, <1>2, <2>1
<1> HIDE DEF c, t
<1>6. x \in Int /\ u \in Int
  BY <1>2
<1>7. x % c = t
  BY <1>4, <1>5, <1>6, DivModUnique
<1> QED  BY <1>7 DEF c, t, v, r, d

\* A digit of a remainder is the digit of the number.
DigitSplit(y, m, a, b, c) ==
    /\ y \in Nat /\ a \in Nat \ {0} /\ b \in Nat \ {0} /\ c \in Nat \ {0}
    /\ m = a * b * c

LEMMA ModDigit ==
    ASSUME NEW y, NEW m, NEW a, NEW b, NEW c, DigitSplit(y, m, a, b, c)
    PROVE  ((y % m) \div a) % b = (y \div a) % b
<1> DEFINE q == y \div m
           r == y % m
<1>0. y \in Nat /\ a \in Nat \ {0} /\ b \in Nat \ {0} /\ c \in Nat \ {0} /\ m = a * b * c
  BY DEF DigitSplit
<1>1. m \in Nat \ {0}
  <2>1. a * b \in Nat \ {0}
    BY <1>0
  <2> QED  BY <1>0, <2>1
<1>2. q \in Int /\ r \in Int /\ y = q * m + r
  <2>1. y \in Int
    BY <1>0
  <2>2. q \in Int /\ r \in 0..(m - 1) /\ y = q * m + r
    BY <1>1, <2>1, DivMod
  <2> QED  BY <1>1, <2>2
<1> HIDE DEF q, r
<1>3. q * m = (q * c * b) * a /\ q * c \in Int /\ q * c * b \in Int
  BY <1>0, <1>2
<1> DEFINE h == q * c
           k == h * b
<1>4. h \in Int /\ k \in Int /\ y = k * a + r
  BY <1>0, <1>2, <1>3
<1> HIDE DEF h
<1>5. r \div a \in Int
  BY <1>0, <1>2, DivMod
<1>6. y \div a = k + (r \div a)
  <2>1. k \in Int /\ r \in Int /\ y = k * a + r
    BY <1>0, <1>2, <1>4
  <2> HIDE DEF k
  <2>2. (k * a + r) \div a = k + (r \div a)
    BY <1>0, <2>1, DivShift
  <2> QED  BY <2>1, <2>2
<1>7. (h * b + (r \div a)) % b = (r \div a) % b
  BY <1>0, <1>4, <1>5, ModShift
<1> QED  BY <1>6, <1>7 DEF r

\* A quotient is at least m if and only if m times the divisor fits.
LEMMA DivOrder ==
    ASSUME NEW y \in Nat, NEW q \in Nat \ {0}, NEW m \in Int
    PROVE  m <= y \div q <=> m * q <= y
<1> DEFINE d == y \div q
           r == y % q
<1>1. d \in Int /\ r \in 0..(q - 1) /\ y = d * q + r
  <2>1. y \in Int
    OBVIOUS
  <2> QED  BY <2>1, DivMod
<1> HIDE DEF d, r
<1>2. ASSUME m <= d PROVE m * q <= y
  <2>1. (d - m) * q >= 0 /\ (d - m) * q = d * q - m * q
    BY <1>1, <1>2
  <2>2. d * q \in Int /\ m * q \in Int
    BY <1>1
  <2> QED  BY <1>1, <2>1, <2>2
<1>3. ASSUME ~(m <= d) PROVE ~(m * q <= y)
  <2>1. (m - (d + 1)) * q >= 0 /\ (m - (d + 1)) * q = m * q - d * q - q
    BY <1>1, <1>3
  <2>2. d * q \in Int /\ m * q \in Int
    BY <1>1
  <2> QED  BY <1>1, <2>1, <2>2
<1> QED  BY <1>2, <1>3 DEF d

-----------------------------------------------------------------------------
(* Multiplying a number by p and adding g, digit by digit *)

\* What is carried over when the digits below q are done.
CarryOver(x, p, g, q) == ((x % q) * p + g) \div q

\* A limb a, the digit of x above q, becomes s before its own carry is taken away.
CarryLink(x, p, g, q, b, a, s) ==
    /\ x \in Nat /\ p \in Nat /\ g \in Nat /\ q \in Nat \ {0} /\ b \in Nat \ {0}
    /\ a = (x \div q) % b
    /\ s = a * p + CarryOver(x, p, g, q)

\* It leaves the digit of the product, and the next carry.
LEMMA CarryNext ==
    ASSUME NEW x, NEW p, NEW g, NEW q, NEW b, NEW a, NEW s, CarryLink(x, p, g, q, b, a, s)
    PROVE  s \div b = CarryOver(x, p, g, q * b) /\ s % b = ((x * p + g) \div q) % b
<1>0. x \in Nat /\ p \in Nat /\ g \in Nat /\ q \in Nat \ {0} /\ b \in Nat \ {0}
  BY DEF CarryLink
<1> USE <1>0
<1> DEFINE r == x % q
           d == x \div q
           l == d % b
           u == d \div b
           y == r * p + g
           c == y \div q
<1>1. r \in Nat /\ d \in Nat /\ x = d * q + r
  <2>1. x \in Int
    OBVIOUS
  <2>2. r \in 0..(q - 1) /\ x = d * q + r
    BY <2>1, DivMod
  <2>3. d \in Nat
    BY DivNat
  <2> QED  BY <2>2, <2>3
<1>2. l \in Nat /\ u \in Nat /\ d = u * b + l
  <2>1. d \in Int /\ d \in Nat
    BY <1>1
  <2> HIDE DEF d
  <2>2. l \in 0..(b - 1) /\ d = u * b + l
    BY <2>1, DivMod
  <2>3. u \in Nat
    BY <2>1, DivNat
  <2> QED  BY <2>2, <2>3
<1>3. x % (q * b) = l * q + r
  BY ModSplit
<1>4. y \in Nat
  BY <1>1
<1>5. c \in Nat
  <2> HIDE DEF y
  <2> QED  BY <1>4, DivNat
<1> HIDE DEF r, d, l, u
<1>6. (l * p + c) \div b = ((x % (q * b)) * p + g) \div (q * b)
  <2> DEFINE m == l * p
             w == m * q + y
  <2>1. (l * q + r) * p + g = w
    BY <1>1, <1>2
  <2>2. m \in Nat /\ w \in Nat /\ y \in Int /\ m \in Int
    <3>1. m \in Nat
      BY <1>2
    <3> HIDE DEF m, y
    <3> QED  BY <1>4, <3>1
  <2>3. w \div q = m + c
    <3> HIDE DEF m, y
    <3> QED  BY <2>2, DivShift
  <2>4. (w \div q) \div b = w \div (q * b)
    <3> HIDE DEF w
    <3> QED  BY <2>2, DivDiv
  <2> QED  BY <1>3, <2>1, <2>3, <2>4
<1>7. (l * p + c) % b = ((x * p + g) \div q) % b
  <2> DEFINE m == d * p
             k == u * p
             e == l * p + c
  <2>1. x * p + g = m * q + y
    BY <1>1
  <2>2. m \in Int /\ k \in Int /\ e \in Int /\ y \in Int
    <3>1. m \in Int /\ k \in Int /\ l * p \in Int
      BY <1>1, <1>2
    <3> HIDE DEF y, c
    <3> QED  BY <1>4, <1>5, <3>1
  <2>3. (m * q + y) \div q = m + c
    <3> HIDE DEF m, y
    <3> QED  BY <2>2, DivShift
  <2>4. m = k * b + l * p
    BY <1>2
  <2>5. m + c = k * b + e
    <3>1. k * b \in Int /\ l * p \in Int
      BY <1>2
    <3> HIDE DEF c, m, k
    <3> QED  BY <1>5, <2>4, <3>1
  <2>6. (k * b + e) % b = e % b
    <3> HIDE DEF k, e
    <3> QED  BY <2>2, ModShift
  <2> QED  BY <2>1, <2>3, <2>5, <2>6
<1>8. s = l * p + c
  BY DEF CarryLink, CarryOver, l, d, r
<1> QED  BY <1>6, <1>7, <1>8 DEF CarryOver
=============================================================================
