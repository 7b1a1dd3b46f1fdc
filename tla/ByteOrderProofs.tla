--------------------------- MODULE ByteOrderProofs ---------------------------
(***************************************************************************)
(* hton and ntoh are inverse to each other, for bytes of every size and    *)
(* numbers of every width: first induction and recursion over the          *)
(* naturals, then numbers and their digits, then the two templates.        *)
(***************************************************************************)
EXTENDS ByteOrder, TLAPS, WellFoundedInduction

-----------------------------------------------------------------------------
(***************************************************************************)
(* Induction and recursion                                                 *)
(***************************************************************************)
\* A set of naturals that is not empty has a smallest element.
LEMMA LeastElement ==
  ASSUME NEW T, T \subseteq Nat, T # {}
  PROVE  \E m \in T : \A k \in T : m <= k
<1> DEFINE R == OpToRel(<, Nat)
<1>1. IsWellFoundedOn(R, Nat)
  BY NatLessThanWellFounded, Zenon
<1>2. \A x, y \in Nat : y < x => <<y, x>> \in R
  BY DEF OpToRel
<1> HIDE DEF R
<1>3. PICK x \in T : \A y \in T : ~(<<y, x>> \in R)
  BY <1>1, WFMin
<1>4. \A k \in T : k \in Nat /\ x \in Nat /\ ~(k < x)
  BY <1>2, <1>3
<1>5. \A k \in T : x <= k
  BY <1>4
<1> QED BY <1>5

\* Induction, for the set of the numbers that have the property.
LEMMA SetInduction ==
  ASSUME NEW S, S \subseteq Nat, 0 \in S, \A n \in Nat : n \in S => n + 1 \in S
  PROVE  \A n \in Nat : n \in S
<1> SUFFICES ASSUME Nat \ S # {} PROVE FALSE
  OBVIOUS
<1>1. PICK m \in Nat \ S : \A k \in Nat \ S : m <= k
  BY LeastElement
<1>2. m # 0 /\ m - 1 \in Nat
  BY <1>1
<1>3. m - 1 \in S
  BY <1>1, <1>2
<1> QED BY <1>1, <1>2, <1>3

\* f begins with a and goes on with the step h, up to n.
Follows(f, a, h, n) == f[0] = a /\ \A k \in 0..(n - 1) : f[k + 1] = h[<<k, f[k]>>]

Unrolls(f, a, h) == f[0] = a /\ \A n \in Nat : f[n + 1] = h[<<n, f[n]>>]

\* A first value and a step from each value to the next one define a function.
LEMMA Recursion ==
  ASSUME NEW V, NEW a \in V, NEW h \in [Nat \X V -> V]
  PROVE  \E f \in [Nat -> V] : Unrolls(f, a, h)
<1> DEFINE S == {n \in Nat : \E g \in [0..n -> V] : Follows(g, a, h, n)}
<1>1. \A n \in Nat : n \in S
  <2>1. 0 \in S
    <3> DEFINE g == [k \in 0..0 |-> a]
    <3>1. g \in [0..0 -> V] /\ Follows(g, a, h, 0)
      BY DEF Follows
    <3> QED BY <3>1
  <2>2. ASSUME NEW n \in Nat, n \in S PROVE n + 1 \in S
    <3>1. PICK g \in [0..n -> V] : Follows(g, a, h, n)
      BY <2>2
    <3> DEFINE new == [k \in 0..(n + 1) |-> IF k = n + 1 THEN h[<<n, g[n]>>] ELSE g[k]]
    <3>2. <<n, g[n]>> \in Nat \X V
      BY <3>1
    <3>3. h[<<n, g[n]>>] \in V
      BY <3>2
    <3>4. new \in [0..(n + 1) -> V]
      BY <3>1, <3>3
    <3>5. new[0] = a
      BY <3>1 DEF Follows
    <3>6. ASSUME NEW k \in 0..((n + 1) - 1) PROVE new[k + 1] = h[<<k, new[k]>>]
      <4>1. CASE k = n
        <5>1. n \in 0..(n + 1) /\ n + 1 \in 0..(n + 1) /\ n # n + 1
          OBVIOUS
        <5>2. new[n + 1] = h[<<n, g[n]>>] /\ new[n] = g[n]
          BY <5>1
        <5> QED BY <4>1, <5>2
      <4>2. CASE k # n
        <5>1. k \in 0..(n - 1) /\ k + 1 \in 0..(n + 1) /\ k + 1 # n + 1 /\ k # n + 1
              /\ k \in 0..(n + 1)
          BY <4>2
        <5>2. new[k + 1] = g[k + 1] /\ new[k] = g[k]
          BY <5>1
        <5> QED BY <3>1, <5>1, <5>2 DEF Follows
      <4> QED BY <4>1, <4>2
    <3>7. Follows(new, a, h, n + 1)
      BY <3>5, <3>6 DEF Follows
    <3> QED BY <3>4, <3>7
  <2> QED BY <2>1, <2>2, SetInduction
<1>2. ASSUME NEW n \in Nat, NEW m \in Nat, NEW f, NEW g, n <= m,
             Follows(f, a, h, n), Follows(g, a, h, m)
      PROVE  f[n] = g[n]
  <2> DEFINE E == {k \in Nat : k <= n => f[k] = g[k]}
  <2>1. 0 \in E
    BY <1>2 DEF Follows
  <2>2. ASSUME NEW k \in Nat, k \in E PROVE k + 1 \in E
    <3> SUFFICES ASSUME k + 1 <= n PROVE f[k + 1] = g[k + 1]
      OBVIOUS
    <3>1. k \in 0..(n - 1) /\ k \in 0..(m - 1)
      BY <1>2
    <3>2. f[k] = g[k]
      BY <2>2
    <3> QED BY <1>2, <3>1, <3>2 DEF Follows
  <2>3. \A k \in Nat : k \in E
    BY <2>1, <2>2, SetInduction
  <2> QED BY <2>3
<1> DEFINE F == [n \in Nat |-> CHOOSE g \in [0..n -> V] : Follows(g, a, h, n)]
           f == [n \in Nat |-> F[n][n]]
<1>3. \A n \in Nat : F[n] \in [0..n -> V] /\ Follows(F[n], a, h, n)
  BY <1>1
<1>4. f \in [Nat -> V]
  <2>1. \A n \in Nat : n \in 0..n
    OBVIOUS
  <2>2. \A n \in Nat : F[n][n] \in V
    BY <1>3, <2>1
  <2> QED BY <2>2
<1> HIDE DEF F
<1>5. f[0] = a
  BY <1>3 DEF Follows
<1>6. ASSUME NEW n \in Nat PROVE f[n + 1] = h[<<n, f[n]>>]
  <2>1. /\ n + 1 \in Nat /\ n <= n + 1 /\ n \in 0..((n + 1) - 1)
        /\ Follows(F[n], a, h, n) /\ Follows(F[n + 1], a, h, n + 1)
    BY <1>3
  <2>2. F[n][n] = F[n + 1][n]
    BY <1>2, <2>1
  <2>3. F[n + 1][n + 1] = h[<<n, F[n + 1][n]>>]
    BY <2>1 DEF Follows
  <2> QED BY <2>1, <2>2, <2>3
<1> QED BY <1>4, <1>5, <1>6 DEF Unrolls
-----------------------------------------------------------------------------
(***************************************************************************)
(* Numbers and their digits                                                *)
(***************************************************************************)
\* Quotient and remainder.
Splits(n, d, q, r) == n = q * d + r /\ r \in 0..(d - 1)

LEMMA Division ==
  ASSUME NEW n \in Nat, NEW d \in Nat \ {0}
  PROVE  n \div d \in Nat /\ Splits(n, d, n \div d, n % d)
  BY DEF Splits

LEMMA QuotientIsUnique ==
  ASSUME NEW n \in Nat, NEW d \in Nat \ {0}, NEW q \in Nat, NEW r, Splits(n, d, q, r)
  PROVE  n \div d = q /\ n % d = r
<1>1. r \in Nat /\ r < d /\ n = q * d + r
  BY DEF Splits
<1> QED BY <1>1

\* The quotient's own last digit.
LEMMA NextDigit ==
  ASSUME NEW n, NEW B \in Nat \ {0}, NEW d \in Nat \ {0}, NEW x, NEW y \in Nat, NEW c, NEW r,
         Splits(x, B, y, c), Splits(n, d, x, r)
  PROVE  Splits(n, B * d, y, c * d + r)
<1>0. c \in 0..(B - 1) /\ r \in 0..(d - 1) /\ x = y * B + c /\ n = x * d + r
  BY DEF Splits
<1>1. x * d = y * (B * d) + c * d
  BY <1>0
<1>2. c * d \in Nat /\ (B - 1) * d \in Nat /\ (B - 1) * d = B * d - d /\ B * d \in Nat
  BY <1>0
<1>3. c * d <= (B - 1) * d
  BY <1>0
<1>4. y * (B * d) \in Nat
  OBVIOUS
<1>5. n = y * (B * d) + (c * d + r)
  BY <1>0, <1>1, <1>2, <1>4
<1>6. c * d + r \in 0..(B * d - 1)
  BY <1>0, <1>2, <1>3
<1> QED BY <1>5, <1>6 DEF Splits

\* p are the powers of B.
Powers(p, B) == p \in [Nat -> Nat \ {0}] /\ p[0] = 1 /\ \A n \in Nat : p[n + 1] = B * p[n]

\* v[k] is the number that the first k of the w digits s stand for.
Values(v, s, w, B) ==
  v \in [0..w -> Nat] /\ v[0] = 0 /\ \A k \in 0..(w - 1) : v[k + 1] = v[k] * B + s[k + 1]

\* s are the w last digits of n, the most significant first.
Digits(s, n, w, p, B) == \A k \in 1..w : s[k] = (n \div p[w - k]) % B

LEMMA PowersExist ==
  ASSUME NEW B \in Nat \ {0}
  PROVE  \E p : p = [n \in Nat |-> IF n = 0 THEN 1 ELSE B * p[n - 1]]
<1> DEFINE V == Nat
           h == [x \in Nat \X V |-> B * x[2]]
<1>1. h \in [Nat \X V -> V] /\ 1 \in V
  OBVIOUS
<1>2. \A n \in Nat, y \in V : h[<<n, y>>] = B * y
  OBVIOUS
<1> HIDE DEF h, V
<1>7. \E p \in [Nat -> V] : Unrolls(p, 1, h)
  BY <1>1, Recursion
<1> USE DEF V
<1>3. PICK p \in [Nat -> V] : p[0] = 1 /\ \A n \in Nat : p[n + 1] = h[<<n, p[n]>>]
  BY <1>7 DEF Unrolls
<1>4. ASSUME NEW n \in Nat PROVE p[n] = IF n = 0 THEN 1 ELSE B * p[n - 1]
  <2>1. CASE n = 0
    BY <1>3, <2>1
  <2>2. CASE n # 0
    <3>1. n - 1 \in Nat /\ (n - 1) + 1 = n
      BY <2>2
    <3> QED BY <1>2, <1>3, <2>2, <3>1
  <2> QED BY <2>1, <2>2
<1>5. p = [n \in Nat |-> IF n = 0 THEN 1 ELSE B * p[n - 1]]
  BY <1>3, <1>4
<1> QED BY <1>5

LEMMA PowersFacts ==
  ASSUME NEW B \in Nat \ {0}, NEW p, p = [n \in Nat |-> IF n = 0 THEN 1 ELSE B * p[n - 1]]
  PROVE  Powers(p, B)
<1>1. p[0] = 1
  OBVIOUS
<1>2. ASSUME NEW n \in Nat PROVE p[n + 1] = B * p[n]
  <2>1. n + 1 \in Nat /\ n + 1 # 0 /\ (n + 1) - 1 = n
    OBVIOUS
  <2> QED BY <2>1
<1> DEFINE S == {n \in Nat : p[n] \in Nat \ {0}}
<1>3. \A n \in Nat : n \in S
  <2>1. 0 \in S
    BY <1>1
  <2>2. ASSUME NEW n \in Nat, n \in S PROVE n + 1 \in S
    <3>1. p[n] \in Nat \ {0}
      BY <2>2
    <3>2. B * p[n] \in Nat \ {0}
      BY <3>1
    <3> QED BY <1>2, <3>2
  <2> QED BY <2>1, <2>2, SetInduction
<1>4. DOMAIN p = Nat
  OBVIOUS
<1> QED BY <1>1, <1>2, <1>3, <1>4 DEF Powers

LEMMA ValuesExist ==
  ASSUME NEW B \in Nat, NEW w \in Nat, NEW s \in [1..w -> Nat]
  PROVE  \E v : v = [k \in 0..w |-> IF k = 0 THEN 0 ELSE v[k - 1] * B + s[k]]
<1> DEFINE V == Nat
           h == [x \in Nat \X V |-> IF x[1] + 1 \in 1..w THEN x[2] * B + s[x[1] + 1] ELSE 0]
<1>1. h \in [Nat \X V -> V] /\ 0 \in V
  <2>1. ASSUME NEW x \in Nat \X V
        PROVE  (IF x[1] + 1 \in 1..w THEN x[2] * B + s[x[1] + 1] ELSE 0) \in V
    <3>1. x[1] \in Nat /\ x[2] \in Nat
      OBVIOUS
    <3>2. x[2] * B \in Nat
      BY <3>1
    <3>3. x[1] + 1 \in 1..w => s[x[1] + 1] \in Nat
      OBVIOUS
    <3> QED BY <3>2, <3>3
  <2> QED BY <2>1
<1>2. \A n \in Nat, y \in V : n + 1 \in 1..w => h[<<n, y>>] = y * B + s[n + 1]
  OBVIOUS
<1> HIDE DEF h, V
<1>7. \E f \in [Nat -> V] : Unrolls(f, 0, h)
  BY <1>1, Recursion
<1> USE DEF V
<1>3. PICK f \in [Nat -> V] : f[0] = 0 /\ \A n \in Nat : f[n + 1] = h[<<n, f[n]>>]
  BY <1>7 DEF Unrolls
<1> DEFINE v == [k \in 0..w |-> f[k]]
<1>4. ASSUME NEW k \in 0..w PROVE v[k] = IF k = 0 THEN 0 ELSE v[k - 1] * B + s[k]
  <2>1. CASE k = 0
    BY <1>3, <2>1
  <2>2. CASE k # 0
    <3>1. k - 1 \in Nat /\ k - 1 \in 0..w /\ (k - 1) + 1 = k /\ k \in 1..w
      BY <2>2
    <3>2. v[k - 1] = f[k - 1] /\ v[k] = f[k]
      BY <3>1
    <3>3. f[k] = h[<<k - 1, f[k - 1]>>]
      BY <1>3, <3>1
    <3>4. f[k - 1] \in V
      BY <1>3, <3>1
    <3> HIDE DEF v
    <3> QED BY <1>2, <2>2, <3>1, <3>2, <3>3, <3>4
  <2> QED BY <2>1, <2>2
<1>5. v = [k \in 0..w |-> IF k = 0 THEN 0 ELSE v[k - 1] * B + s[k]]
  BY <1>4
<1> QED BY <1>5

LEMMA ValuesFacts ==
  ASSUME NEW B \in Nat, NEW w \in Nat, NEW s \in [1..w -> Nat], NEW v,
         v = [k \in 0..w |-> IF k = 0 THEN 0 ELSE v[k - 1] * B + s[k]]
  PROVE  Values(v, s, w, B)
<1>1. v[0] = 0 /\ DOMAIN v = 0..w
  OBVIOUS
<1>2. ASSUME NEW k \in 0..(w - 1) PROVE v[k + 1] = v[k] * B + s[k + 1]
  <2>1. k + 1 \in 0..w /\ k + 1 # 0 /\ (k + 1) - 1 = k
    OBVIOUS
  <2> QED BY <2>1
<1> DEFINE S == {k \in Nat : k <= w => v[k] \in Nat}
<1>3. \A k \in Nat : k \in S
  <2>1. 0 \in S
    BY <1>1
  <2>2. ASSUME NEW k \in Nat, k \in S PROVE k + 1 \in S
    <3> SUFFICES ASSUME k + 1 <= w PROVE v[k + 1] \in Nat
      OBVIOUS
    <3>1. k \in 0..(w - 1) /\ k + 1 \in 1..w /\ v[k] \in Nat
      BY <2>2
    <3>2. s[k + 1] \in Nat
      BY <3>1
    <3>3. v[k] * B \in Nat
      BY <3>1
    <3>4. v[k] * B + s[k + 1] \in Nat
      BY <3>2, <3>3
    <3> QED BY <1>2, <3>1, <3>4
  <2> QED BY <2>1, <2>2, SetInduction
<1>4. ASSUME NEW k \in 0..w PROVE v[k] \in Nat
  <2>1. k \in Nat /\ k <= w
    OBVIOUS
  <2>2. k \in S
    BY <1>3, <2>1
  <2> QED BY <2>1, <2>2
<1>5. v \in [0..w -> Nat]
  BY <1>1, <1>4
<1> QED BY <1>1, <1>2, <1>5 DEF Values
\* What the two definitions say, fact by fact.
LEMMA PowerOf ==
  ASSUME NEW p, NEW B, Powers(p, B), NEW n \in Nat
  PROVE  p[n] \in Nat \ {0} /\ p[n + 1] = B * p[n] /\ p[0] = 1
  BY DEF Powers

LEMMA ValueOf ==
  ASSUME NEW v, NEW s, NEW w \in Nat, NEW B, Values(v, s, w, B), NEW k \in 0..w
  PROVE  v[k] \in Nat /\ v[0] = 0 /\ (k # w => v[k + 1] = v[k] * B + s[k + 1])
  BY DEF Values

\* The digits can be read off the number again, and it has no more of them.
LEMMA DigitsOfValue ==
  ASSUME NEW B \in Nat \ {0, 1}, NEW w \in Nat, NEW s \in [1..w -> 0..(B - 1)],
         NEW p, Powers(p, B), NEW v, Values(v, s, w, B)
  PROVE  /\ v[w] \in 0..(p[w] - 1)
         /\ Digits(s, v[w], w, p, B)
<1>0. B \in Nat \ {0} /\ w \in 0..w
  OBVIOUS
<1>1. ASSUME NEW k \in 0..w, k # w PROVE Splits(v[k + 1], B, v[k], s[k + 1])
  <2>1. v[k + 1] = v[k] * B + s[k + 1]
    <3>1. k \in 0..(w - 1)
      BY <1>1
    <3> QED BY <3>1 DEF Values
  <2>2. s[k + 1] \in 0..(B - 1)
    BY <1>1
  <2> QED BY <2>1, <2>2 DEF Splits
<1> DEFINE L == {j \in Nat : j <= w => \E r : Splits(v[w], p[j], v[w - j], r)}
<1>2. \A j \in Nat : j \in L
  <2>1. 0 \in L
    <3>1. v[w] \in Nat /\ p[0] = 1
      BY <1>0, ValueOf, PowerOf
    <3>2. Splits(v[w], 1, v[w], 0)
      BY <3>1 DEF Splits
    <3>3. w - 0 = w
      OBVIOUS
    <3>4. \E r : Splits(v[w], p[0], v[w - 0], r)
      BY <3>1, <3>2, <3>3
    <3> QED BY <3>4
  <2>2. ASSUME NEW j \in Nat, j \in L PROVE j + 1 \in L
    <3> SUFFICES ASSUME j + 1 <= w PROVE \E r : Splits(v[w], p[j + 1], v[w - (j + 1)], r)
      OBVIOUS
    <3>1. PICK r : Splits(v[w], p[j], v[w - j], r)
      BY <2>2
    <3> DEFINE k == w - (j + 1)
    <3>2. k \in 0..w /\ k # w /\ k + 1 = w - j
      OBVIOUS
    <3> HIDE DEF k
    <3>3. Splits(v[w - j], B, v[k], s[k + 1])
      BY <1>1, <3>2
    <3>4. v[k] \in Nat /\ p[j] \in Nat \ {0} /\ p[j + 1] = B * p[j]
      BY <3>2, ValueOf, PowerOf
    <3>5. Splits(v[w], B * p[j], v[k], s[k + 1] * p[j] + r)
      BY <1>0, <3>1, <3>3, <3>4, NextDigit, Zenon
    <3>6. \E x : Splits(v[w], p[j + 1], v[k], x)
      BY <3>4, <3>5, Zenon
    <3> QED BY <3>6 DEF k
  <2> HIDE DEF L
  <2> QED BY <2>1, <2>2, SetInduction DEF L
<1>3. ASSUME NEW j \in 0..w PROVE \E r : Splits(v[w], p[j], v[w - j], r)
  BY <1>2
<1>4. v[w] \in 0..(p[w] - 1)
  <2>1. PICK r : Splits(v[w], p[w], v[w - w], r)
    BY <1>0, <1>3
  <2>4. p[w] \in Nat \ {0} /\ v[0] = 0
    BY <1>0, ValueOf, PowerOf, Zenon
  <2>2. w - w = 0 /\ v[0] = 0 /\ p[w] \in Nat
    BY <2>4
  <2>3. v[w] = 0 * p[w] + r /\ r \in 0..(p[w] - 1)
    BY <2>1, <2>2 DEF Splits
  <2> QED BY <2>2, <2>3
<1>5. ASSUME NEW k \in 1..w PROVE s[k] = (v[w] \div p[w - k]) % B
  <2>1. w - k \in 0..w /\ w - k \in Nat /\ w - (w - k) = k /\ k \in 0..w
        /\ k - 1 \in 0..w /\ k - 1 # w /\ (k - 1) + 1 = k
    OBVIOUS
  <2>2. PICK r : Splits(v[w], p[w - k], v[k], r)
    BY <1>3, <2>1
  <2>3. v[w] \in Nat /\ v[k] \in Nat /\ v[k - 1] \in Nat /\ p[w - k] \in Nat \ {0}
    BY <1>0, <2>1, ValueOf, PowerOf
  <2>4. v[w] \div p[w - k] = v[k]
    BY <2>2, <2>3, QuotientIsUnique, Zenon
  <2>5. Splits(v[k], B, v[k - 1], s[k])
    BY <1>1, <2>1
  <2>6. v[k] % B = s[k]
    BY <1>0, <2>3, <2>5, QuotientIsUnique, Zenon
  <2> QED BY <2>4, <2>6
<1> QED BY <1>4, <1>5 DEF Digits

\* The digits of a number stand for the number, if they are enough.
LEMMA ValueOfDigits ==
  ASSUME NEW B \in Nat \ {0, 1}, NEW w \in Nat, NEW p, Powers(p, B), NEW n \in 0..(p[w] - 1),
         NEW s, Digits(s, n, w, p, B), NEW v, Values(v, s, w, B)
  PROVE  v[w] = n
<1>0. B \in Nat \ {0} /\ w \in 0..w /\ n \in Nat
  BY PowerOf
<1> DEFINE S == {k \in Nat : k <= w => v[k] = n \div p[w - k]}
<1>2. \A k \in Nat : k \in S
  <2>1. 0 \in S
    <3>4. w - 0 = w
      OBVIOUS
    <3>1. p[w] \in Nat \ {0} /\ v[0] = 0 /\ w - 0 = w
      BY <1>0, <3>4, PowerOf, ValueOf, Zenon
    <3>2. Splits(n, p[w], 0, n)
      BY <1>0, <3>1 DEF Splits
    <3>3. n \div p[w] = 0
      BY <1>0, <3>1, <3>2, QuotientIsUnique
    <3> QED BY <3>1, <3>3
  <2>2. ASSUME NEW k \in Nat, k \in S PROVE k + 1 \in S
    <3> SUFFICES ASSUME k + 1 <= w PROVE v[k + 1] = n \div p[w - (k + 1)]
      OBVIOUS
    <3> DEFINE j == w - (k + 1)
    <3>1. /\ j \in Nat /\ j + 1 = w - k /\ k \in 0..w /\ k # w /\ k + 1 \in 1..w /\ k <= w
          /\ w - (k + 1) = j
      OBVIOUS
    <3> HIDE DEF j
    <3>11. v[k] = n \div p[w - k]
      BY <2>2, <3>1
    <3> HIDE DEF S
    <3>2. p[j] \in Nat \ {0} /\ p[w - k] = B * p[j]
      BY <3>1, PowerOf
    <3> DEFINE d == p[j]
               q == n \div d
    <3>3. v[k] = n \div (B * d)
      BY <3>2, <3>11
    <3>4. v[k + 1] = v[k] * B + s[k + 1]
      BY <3>1, ValueOf
    <3>12. s[k + 1] = q % B
      BY <3>1 DEF Digits
    <3>13. d \in Nat \ {0}
      BY <3>2
    <3> HIDE DEF d
    <3>5. q \in Nat /\ Splits(n, d, q, n % d)
      BY <1>0, <3>13, Division
    <3> HIDE DEF q
    <3>6. q \div B \in Nat /\ Splits(q, B, q \div B, q % B)
      BY <1>0, <3>5, Division
    <3>7. Splits(n, B * d, q \div B, (q % B) * d + (n % d))
      BY <1>0, <3>13, <3>5, <3>6, NextDigit, Zenon
    <3>8. B * d \in Nat \ {0}
      BY <1>0, <3>13
    <3>9. n \div (B * d) = q \div B
      <4> DEFINE e == B * d
                 r == (q % B) * d + (n % d)
                 y == q \div B
      <4>1. e \in Nat \ {0} /\ y \in Nat /\ Splits(n, e, y, r)
        BY <3>6, <3>7, <3>8
      <4> HIDE DEF e, r, y
      <4>2. n \div e = y
        BY <1>0, <4>1, QuotientIsUnique
      <4> QED BY <4>2 DEF e, y
    <3>10. v[k + 1] = q
      BY <3>3, <3>4, <3>6, <3>9, <3>12, Zenon DEF Splits
    <3> QED BY <3>1, <3>10 DEF q, d
  <2> HIDE DEF S
  <2> QED BY <2>1, <2>2, SetInduction DEF S
<1>3. v[w] = n \div p[w - w]
  BY <1>2
<1>4. w - w = 0 /\ p[0] = 1
  BY PowerOf
<1>5. v[w] = n \div 1
  BY <1>3, <1>4, Zenon
<1>6. n \div 1 = n
  BY <1>0
<1> QED BY <1>5, <1>6
-----------------------------------------------------------------------------
(***************************************************************************)
(* hton and ntoh                                                           *)
(***************************************************************************)
\* Pow is what its definition says.
LEMMA PowFacts == Powers(Pow, Base)
<1>1. Base \in Nat \ {0}
  BY ByteAssumption
<1>2. \E p : p = [n \in Nat |-> IF n = 0 THEN 1 ELSE Base * p[n - 1]]
  BY <1>1, PowersExist
<1>3. Pow = [n \in Nat |-> IF n = 0 THEN 1 ELSE Base * Pow[n - 1]]
  BY <1>2, Zenon DEF Pow
<1> QED BY <1>1, <1>3, PowersFacts

\* So is ntoh.
LEMMA NtohFacts ==
  ASSUME NEW w \in Nat, NEW s \in [1..w -> Bytes]
  PROVE  \E v : Values(v, s, w, Base) /\ ntoh(s) = v[w]
<1>1. Base \in Nat /\ s \in [1..w -> Nat] /\ Len(s) = w
  BY ByteAssumption DEF Bytes
<1>2. \E v : v = [k \in 0..w |-> IF k = 0 THEN 0 ELSE v[k - 1] * Base + s[k]]
  BY <1>1, ValuesExist
<1> DEFINE v == CHOOSE v : v = [k \in 0..w |-> IF k = 0 THEN 0 ELSE v[k - 1] * Base + s[k]]
<1>3. v = [k \in 0..w |-> IF k = 0 THEN 0 ELSE v[k - 1] * Base + s[k]]
  BY <1>2, Zenon
<1>4. ntoh(s) = v[w]
  BY <1>1, Zenon DEF ntoh
<1> HIDE DEF v
<1>5. Values(v, s, w, Base)
  BY <1>1, <1>3, ValuesFacts
<1> QED BY <1>4, <1>5

\* Reading bytes and writing the number again gives the same bytes.
LEMMA WrittenAsRead ==
  ASSUME NEW w \in Nat, NEW s \in [1..w -> Bytes]
  PROVE  ntoh(s) \in 0..(Pow[w] - 1) /\ hton(ntoh(s), w) = s
<1>1. PICK v : Values(v, s, w, Base) /\ ntoh(s) = v[w]
  BY NtohFacts
<1>2. Base \in Nat \ {0, 1} /\ s \in [1..w -> 0..(Base - 1)]
  BY ByteAssumption DEF Bytes
<1>3. v[w] \in 0..(Pow[w] - 1) /\ Digits(s, v[w], w, Pow, Base)
  BY <1>1, <1>2, PowFacts, DigitsOfValue, Zenon
<1>4. hton(ntoh(s), w) = [k \in 1..w |-> (v[w] \div Pow[w - k]) % Base]
  BY <1>1, Zenon DEF hton
<1>5. hton(ntoh(s), w) = [k \in 1..w |-> s[k]]
  BY <1>3, <1>4, Zenon DEF Digits
<1>6. s = [k \in 1..w |-> s[k]]
  OBVIOUS
<1> QED BY <1>1, <1>3, <1>5, <1>6, Zenon

\* Writing a number that fits and reading it again gives the same number.
LEMMA ReadAsWritten ==
  ASSUME NEW w \in Nat, NEW n \in 0..(Pow[w] - 1)
  PROVE  hton(n, w) \in [1..w -> Bytes] /\ ntoh(hton(n, w)) = n
<1> DEFINE s == hton(n, w)
<1>1. Base \in Nat \ {0, 1} /\ Base \in Nat \ {0}
  BY ByteAssumption
<1>2. ASSUME NEW k \in 1..w PROVE (n \div Pow[w - k]) % Base \in Bytes
  <2>1. w - k \in Nat
    OBVIOUS
  <2>2. Pow[w - k] \in Nat \ {0} /\ Pow[w] \in Nat
    BY <2>1, PowFacts, PowerOf
  <2>3. n \in Nat
    BY <2>2
  <2>4. n \div Pow[w - k] \in Nat
    BY <2>2, <2>3, Division
  <2> DEFINE q == n \div Pow[w - k]
  <2> HIDE DEF q
  <2>5. q \in Nat => q % Base \in 0..(Base - 1)
    BY <1>1
  <2> QED BY <2>4, <2>5 DEF Bytes, q
<1>3. s = [k \in 1..w |-> (n \div Pow[w - k]) % Base]
  BY Zenon DEF hton
<1> HIDE DEF s
<1>4. s \in [1..w -> Bytes] /\ Digits(s, n, w, Pow, Base)
  BY <1>2, <1>3, Zenon DEF Digits
<1>5. PICK v : Values(v, s, w, Base) /\ ntoh(s) = v[w]
  BY <1>4, NtohFacts
<1>6. v[w] = n
  BY <1>1, <1>4, <1>5, PowFacts, ValueOfDigits, Zenon
<1> QED BY <1>4, <1>5, <1>6, Zenon DEF s
=============================================================================
