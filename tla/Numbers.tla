------------------------------ MODULE Numbers ------------------------------
(***************************************************************************)
(* Facts about natural numbers that the proofs share: the least-number     *)
(* principle, which their inductions use (to show that no number fails,    *)
(* look at the least that does), recursion over a range, products,         *)
(* quotients and remainders.                                               *)
(***************************************************************************)
EXTENDS Integers, FiniteSetsExt, TLAPS, WellFoundedInduction

\* A set of natural numbers, unless empty, has a least element.
LEMMA LeastNatural ==
  ASSUME NEW T \in SUBSET Nat, T # {}
  PROVE  \E x \in T : \A y \in T : x <= y
<1>1. \E x \in T : \A y \in T : ~ (<<y, x>> \in OpToRel(<, Nat))
  BY NatLessThanWellFounded, WFMin
<1>2. PICK x \in T : \A y \in T : ~ (<<y, x>> \in OpToRel(<, Nat))
  BY <1>1
<1>3. ASSUME NEW y \in T, y < x PROVE FALSE
  <2>1. <<y, x>> \in OpToRel(<, Nat)
    BY <1>3 DEF OpToRel
  <2> QED
    BY <2>1, <1>2
<1>4. \A y \in T : x <= y
  <2> TAKE y \in T
  <2>1. x \in Nat /\ y \in Nat /\ ~(y < x)
    BY <1>3
  <2> QED
    BY <2>1
<1> QED
  BY <1>4

\* The least element of a set, as the operator of the library gives it.
LEMMA MinIsLeast ==
  ASSUME NEW T \in SUBSET Nat, T # {}
  PROVE  Min(T) \in T /\ Min(T) \in Nat /\ \A y \in T : Min(T) <= y
<1>1. \E x \in T : \A y \in T : x <= y
  BY LeastNatural
<1> QED
  BY <1>1 DEF Min

LEMMA MinUnique ==
  ASSUME NEW T \in SUBSET Int, NEW x \in T, \A y \in T : x <= y
  PROVE  Min(T) = x
<1>1. Min(T) \in T /\ \A y \in T : Min(T) <= y
  BY DEF Min
<1>2. Min(T) <= x /\ x <= Min(T) /\ Min(T) \in Int /\ x \in Int
  BY <1>1
<1> QED
  BY <1>2

\* Recursion over 0..n: from a first value and a step there is a function that
\* goes from each value to the next.
LEMMA RecursionExists ==
  ASSUME NEW V, NEW c \in V, NEW n \in Nat, NEW step \in [1..n -> [V -> V]]
  PROVE  \E f \in [0..n -> V] : f[0] = c /\ \A k \in 1..n : f[k] = step[k][f[k - 1]]
<1> DEFINE IsIt(m, f) ==
             f \in [0..m -> V] /\ f[0] = c /\ \A k \in 1..m : f[k] = step[k][f[k - 1]]
           T == {m \in Nat : m <= n /\ ~ \E f : IsIt(m, f)}
<1>1. T = {}
  <2>1. SUFFICES ASSUME T # {} PROVE FALSE
    OBVIOUS
  <2>2. PICK m \in T : \A l \in T : m <= l
    <3>1. T \in SUBSET Nat
      OBVIOUS
    <3> HIDE DEF T
    <3> QED
      BY <2>1, <3>1, LeastNatural
  <2>3. m \in Nat /\ m <= n /\ ~ \E f : IsIt(m, f)
    OBVIOUS
  <2>4. CASE m = 0
    <3> DEFINE f == [k \in 0..0 |-> c]
    <3>1. IsIt(0, f)
      OBVIOUS
    <3> QED
      BY <2>3, <2>4, <3>1
  <2>5. CASE m # 0
    <3>1. m - 1 \in Nat /\ m - 1 <= n /\ m - 1 \notin T
      <4> HIDE DEF T
      <4> QED
        BY <2>2, <2>3, <2>5
    <3>2. PICK f : IsIt(m - 1, f)
      BY <3>1
    <3> DEFINE g == [k \in 0..m |-> IF k = m THEN step[m][f[m - 1]] ELSE f[k]]
    <3>3. f[m - 1] \in V /\ m \in 1..n
      BY <2>3, <2>5, <3>1, <3>2
    <3>4. step[m][f[m - 1]] \in V
      BY <3>3
    <3>5. g \in [0..m -> V] /\ g[0] = c
      BY <2>3, <2>5, <3>2, <3>4
    <3>6. ASSUME NEW k \in 1..m PROVE g[k] = step[k][g[k - 1]]
      <4>1. k - 1 \in 0..m /\ k - 1 # m /\ k \in 0..m /\ k - 1 \in 0..(m - 1)
        BY <2>3
      <4>2. g[k - 1] = f[k - 1]
        BY <4>1
      <4>3. CASE k = m
        BY <4>1, <4>2, <4>3
      <4>4. CASE k # m
        <5>1. k \in 1..(m - 1)
          BY <2>3, <4>4
        <5> QED
          BY <3>2, <4>1, <4>2, <4>4, <5>1
      <4> QED
        BY <4>3, <4>4
    <3>7. IsIt(m, g)
      BY <3>5, <3>6
    <3> QED
      BY <2>3, <3>7
  <2> QED
    BY <2>4, <2>5
<1>2. \E f : IsIt(n, f)
  <2>1. n \notin T
    <3> HIDE DEF T
    <3> QED
      BY <1>1
  <2> HIDE DEF IsIt
  <2> QED
    BY <2>1
<1> QED
  BY <1>2

\* f goes from c on as step says, in V.
Follows(f, step, c, n, V) ==
  f \in [0..n -> V] /\ f[0] = c /\ \A k \in 1..n : f[k] = step[k][f[k - 1]]

LEMMA RecursionFollows ==
  ASSUME NEW n \in Nat, NEW V
  PROVE  \A step, c : step \in [1..n -> [V -> V]] /\ c \in V =>
           \E f : Follows(f, step, c, n, V)
<1> SUFFICES ASSUME NEW step, NEW c
             PROVE  step \in [1..n -> [V -> V]] /\ c \in V =>
                      \E f : Follows(f, step, c, n, V)
  OBVIOUS
<1>1. ASSUME step \in [1..n -> [V -> V]], c \in V
      PROVE  \E f \in [0..n -> V] : f[0] = c /\ \A k \in 1..n : f[k] = step[k][f[k - 1]]
  BY <1>1, RecursionExists
<1> QED
  BY <1>1 DEF Follows

\* What holds of the first value and goes from each to the next holds of all.
LEMMA RecursionTyped ==
  ASSUME NEW V, NEW n \in Nat, NEW f, f[0] \in V,
         \A k \in 1..n : f[k - 1] \in V => f[k] \in V
  PROVE  \A k \in 0..n : f[k] \in V
<1> DEFINE T == {k \in 0..n : f[k] \notin V}
<1>1. SUFFICES ASSUME T # {} PROVE FALSE
  OBVIOUS
<1>2. PICK m \in T : \A l \in T : m <= l
  <2>1. T \in SUBSET Nat
    OBVIOUS
  <2> HIDE DEF T
  <2> QED
    BY <1>1, <2>1, LeastNatural
<1>3. m # 0 /\ m \in 1..n /\ m - 1 \in 0..n
  BY <1>2
<1>4. m - 1 \notin T
  <2> HIDE DEF T
  <2> QED
    BY <1>2, <1>3
<1> QED
  BY <1>2, <1>3, <1>4

\* Two functions that begin alike and go on alike are alike.
LEMMA RecursionUnique ==
  ASSUME NEW n \in Nat, NEW f, NEW g, f[0] = g[0],
         \A k \in 1..n : f[k - 1] = g[k - 1] => f[k] = g[k]
  PROVE  \A k \in 0..n : f[k] = g[k]
<1> DEFINE T == {k \in 0..n : f[k] # g[k]}
<1>1. SUFFICES ASSUME T # {} PROVE FALSE
  OBVIOUS
<1>2. PICK m \in T : \A l \in T : m <= l
  <2>1. T \in SUBSET Nat
    OBVIOUS
  <2> HIDE DEF T
  <2> QED
    BY <1>1, <2>1, LeastNatural
<1>3. m # 0 /\ m \in 1..n /\ m - 1 \in 0..n /\ ~(m <= m - 1) /\ f[m] # g[m]
  BY <1>2
<1>4. m - 1 \notin T
  <2> HIDE DEF T
  <2> QED
    BY <1>2, <1>3
<1> QED
  BY <1>3, <1>4


-----------------------------------------------------------------------------
LEMMA TimesMonotone ==
  ASSUME NEW a \in Int, NEW b \in Int, NEW c \in Nat, a <= b
  PROVE  a * c <= b * c
<1>1. PICK d \in Nat : b = a + d
  BY b - a \in Nat
<1>2. b * c = a * c + d * c /\ d * c >= 0 /\ a * c \in Int /\ d * c \in Int
  BY <1>1
<1> QED
  BY <1>2

\* What is below the next multiple is at most this one.
LEMMA TimesBelow ==
  ASSUME NEW a \in Int, NEW b \in Int, NEW c \in Nat \ {0}, a * c < (b + 1) * c
  PROVE  a <= b
<1>1. SUFFICES ASSUME b + 1 <= a PROVE FALSE
  OBVIOUS
<1>2. (b + 1) * c <= a * c
  BY <1>1, TimesMonotone, b + 1 \in Int
<1>3. (b + 1) * c \in Int /\ a * c \in Int
  OBVIOUS
<1> QED
  BY <1>2, <1>3

LEMMA DivBounds ==
  ASSUME NEW a \in Nat, NEW c \in Nat \ {0}
  PROVE  /\ a \div c \in Nat
         /\ (a \div c) * c <= a
         /\ a < (a \div c + 1) * c
<1>1. a \div c \in Int /\ a % c \in 0..(c - 1) /\ a = c * (a \div c) + (a % c)
  OBVIOUS
<1>2. (a \div c) * c = c * (a \div c) /\ (a \div c + 1) * c = c * (a \div c) + c
  BY <1>1
<1>3. c * (a \div c) \in Int
  BY <1>1
<1>4. (a \div c) * c <= a /\ a < (a \div c + 1) * c
  BY <1>1, <1>2, <1>3
<1>5. 0 * c < (a \div c + 1) * c
  BY <1>4
<1>6. 0 <= a \div c
  BY <1>1, <1>5, TimesBelow
<1> QED
  BY <1>1, <1>4, <1>6

LEMMA DivUnique ==
  ASSUME NEW a \in Nat, NEW c \in Nat \ {0}, NEW q \in Nat, q * c <= a, a < (q + 1) * c
  PROVE  a \div c = q
<1> DEFINE d == a \div c
<1>1. d \in Nat /\ d * c <= a /\ a < (d + 1) * c
  BY DivBounds
<1> HIDE DEF d
<1>2. d * c < (q + 1) * c /\ q * c < (d + 1) * c
  <2>1. d * c \in Int /\ q * c \in Int /\ (q + 1) * c \in Int /\ (d + 1) * c \in Int
    BY <1>1
  <2> QED
    BY <1>1, <2>1
<1>3. d <= q /\ q <= d
  BY <1>1, <1>2, TimesBelow
<1>4. d = q
  BY <1>1, <1>3
<1> QED
  BY <1>4 DEF d

LEMMA DivMonotone ==
  ASSUME NEW a \in Nat, NEW b \in Nat, NEW c \in Nat \ {0}, a <= b
  PROVE  a \div c <= b \div c
<1>1. /\ a \div c \in Nat /\ (a \div c) * c <= a
      /\ b \div c \in Nat /\ b < (b \div c + 1) * c
  BY DivBounds
<1> DEFINE p == a \div c
           q == b \div c
<1> HIDE DEF p, q
<1>2. p \in Nat /\ q \in Nat /\ p * c < (q + 1) * c
  <2>1. p \in Nat /\ q \in Nat /\ p * c <= a /\ b < (q + 1) * c
    BY <1>1 DEF p, q
  <2>2. p * c \in Nat /\ (q + 1) * c \in Nat
    BY <2>1
  <2> QED
    BY <2>1, <2>2
<1>3. p <= q
  BY <1>2, TimesBelow
<1> QED
  BY <1>3 DEF p, q

\* What fits a word does not wrap.
LEMMA NoWrap ==
  ASSUME NEW a \in Nat, NEW c \in Nat, a < c
  PROVE  a % c = a
<1>1. c \in Nat \ {0}
  OBVIOUS
<1>2. a \div c = 0
  <2>1. 0 * c <= a /\ a < (0 + 1) * c
    BY <1>1
  <2> QED
    BY <1>1, <2>1, DivUnique
<1>3. a % c \in Int /\ a = c * (a \div c) + (a % c)
  BY <1>1
<1>4. c * 0 = 0
  BY <1>1
<1> QED
  BY <1>2, <1>3, <1>4

\* The quotient rounded up is the least whose product is enough.
LEMMA CeilingLeast ==
  ASSUME NEW a \in Nat, NEW c \in Nat \ {0}, NEW f \in Nat
  PROVE  a <= f * c <=> (a + c - 1) \div c <= f
<1> DEFINE q == (a + c - 1) \div c
<1>1. q \in Nat /\ q * c <= a + c - 1 /\ a + c - 1 < (q + 1) * c
  BY DivBounds, a + c - 1 \in Nat
<1> HIDE DEF q
<1>2. /\ q * c \in Nat /\ f * c \in Nat
      /\ (q + 1) * c = q * c + c /\ (f + 1) * c = f * c + c
  BY <1>1
<1>3. ASSUME a <= f * c PROVE q <= f
  <2>1. q * c < (f + 1) * c
    BY <1>1, <1>2, <1>3
  <2> QED
    BY <1>1, <2>1, TimesBelow
<1>4. ASSUME q <= f PROVE a <= f * c
  <2>1. q * c <= f * c
    BY <1>1, <1>4, TimesMonotone
  <2> QED
    BY <1>1, <1>2, <2>1
<1> QED
  BY <1>3, <1>4 DEF q

\* The quotient rounded down is the greatest whose product fits.
LEMMA FloorGreatest ==
  ASSUME NEW a \in Nat, NEW c \in Nat \ {0}, NEW f \in Nat
  PROVE  f * c <= a <=> f <= a \div c
<1> DEFINE q == a \div c
<1>1. q \in Nat /\ q * c <= a /\ a < (q + 1) * c
  BY DivBounds
<1> HIDE DEF q
<1>2. q * c \in Nat /\ f * c \in Nat /\ (q + 1) * c \in Nat
  BY <1>1
<1>3. ASSUME f * c <= a PROVE f <= q
  <2>1. f * c < (q + 1) * c
    BY <1>1, <1>2, <1>3
  <2> QED
    BY <1>1, <2>1, TimesBelow
<1>4. ASSUME f <= q PROVE f * c <= a
  <2>1. f * c <= q * c
    BY <1>1, <1>4, TimesMonotone
  <2> QED
    BY <1>1, <1>2, <2>1
<1> QED
  BY <1>3, <1>4 DEF q

\* Dividing twice is dividing by the product.
LEMMA DivDiv ==
  ASSUME NEW a \in Nat, NEW b \in Nat \ {0}, NEW c \in Nat \ {0}
  PROVE  (a \div c) \div b = a \div (b * c)
<1>1. PICK d \in Nat : d = a \div c /\ d * c <= a /\ a < (d + 1) * c
  BY DivBounds
<1>2. PICK q \in Nat : q = d \div b /\ q * b <= d /\ d < (q + 1) * b
  BY DivBounds
<1>3. q * (b * c) <= a
  <2>1. (q * b) * c <= d * c
    BY <1>2, TimesMonotone, q * b \in Nat
  <2>2. (q * b) * c = q * (b * c) /\ (q * b) * c \in Nat /\ d * c \in Nat
    <3>1. q * b \in Nat /\ b * c \in Nat
      OBVIOUS
    <3> QED
      BY <3>1, SMT
  <2> QED
    BY <1>1, <2>1, <2>2
<1>4. a < (q + 1) * (b * c)
  <2>1. (d + 1) * c <= ((q + 1) * b) * c
    <3>1. d + 1 <= (q + 1) * b /\ d + 1 \in Int /\ (q + 1) * b \in Int
      BY <1>2
    <3> HIDE <1>1, <1>2
    <3> QED
      BY <3>1, TimesMonotone
  <2>2. /\ ((q + 1) * b) * c = (q + 1) * (b * c)
        /\ ((q + 1) * b) * c \in Nat /\ (d + 1) * c \in Nat
    OBVIOUS
  <2> QED
    BY <1>1, <2>1, <2>2
<1>5. b * c \in Nat \ {0}
  <2>1. 0 * c < b * c
    <3>1. 0 * c = 0 /\ b * c \in Nat
      OBVIOUS
    <3>2. 1 * c <= b * c /\ 1 * c = c
      BY TimesMonotone
    <3> QED
      BY <3>1, <3>2
  <2> QED
    BY <2>1
<1>6. a \div (b * c) = q
  BY <1>3, <1>4, <1>5, DivUnique
<1> QED
  BY <1>1, <1>2, <1>6
=============================================================================
