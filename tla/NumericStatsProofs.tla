------------------------- MODULE NumericStatsProofs -------------------------
(***************************************************************************)
(* The arithmetic of the statistics pass, for any width: powers of two,    *)
(* wrapping, and the binary gcd of gcd_compute, which is the greatest      *)
(* common divisor whatever its early exits.                                *)
(***************************************************************************)
EXTENDS NumericStats, ListingsProofs

-----------------------------------------------------------------------------
(* Recursive functions.  The recursions of NumericStats call themselves at  *)
(* most once, with an argument of lower rank: at x they are val[x] when x   *)
(* is in Stop, and turn[x] of the value at next[x] otherwise.               *)

Unfolds(f, D, Stop, val, next, turn) ==
    \A x \in D : f[x] = IF x \in Stop THEN val[x] ELSE turn[x][f[next[x]]]

UnfoldsBelow(f, D, Stop, val, next, turn, rank, n) ==
    \A x \in D : rank[x] < n => f[x] = IF x \in Stop THEN val[x] ELSE turn[x][f[next[x]]]

Recursion(D, V, Stop, val, next, turn, rank) ==
    /\ val \in [D -> V] /\ next \in [D -> D] /\ turn \in [D -> [V -> V]] /\ rank \in [D -> Nat]
    /\ \A x \in D : x \notin Stop => rank[next[x]] < rank[x]

(* Below any rank the recursion has a solution. *)
LEMMA UnfoldsToAnyRank ==
    ASSUME NEW D, NEW V, NEW Stop, NEW val, NEW next, NEW turn, NEW rank,
           Recursion(D, V, Stop, val, next, turn, rank), NEW n \in Nat
    PROVE  \E f \in [D -> V] : UnfoldsBelow(f, D, Stop, val, next, turn, rank, n)
<1>0. /\ val \in [D -> V] /\ next \in [D -> D] /\ turn \in [D -> [V -> V]] /\ rank \in [D -> Nat]
      /\ \A x \in D : x \notin Stop => rank[next[x]] < rank[x]
  BY DEF Recursion
<1> USE <1>0
<1> DEFINE P == {m \in Nat : \E f \in [D -> V] : UnfoldsBelow(f, D, Stop, val, next, turn, rank, m)}
<1>1. 0 \in P
  <2>1. UnfoldsBelow(val, D, Stop, val, next, turn, rank, 0)
    BY DEF UnfoldsBelow
  <2> QED
    BY <2>1
<1>2. ASSUME NEW m \in P PROVE m + 1 \in P
  <2>1. PICK f \in [D -> V] : UnfoldsBelow(f, D, Stop, val, next, turn, rank, m)
    OBVIOUS
  <2> DEFINE g == [x \in D |-> IF x \in Stop THEN val[x] ELSE turn[x][f[next[x]]]]
  <2>2. g \in [D -> V]
    OBVIOUS
  <2>3. ASSUME NEW x \in D, rank[x] < m + 1, x \notin Stop PROVE g[x] = turn[x][g[next[x]]]
    <3>1. rank[next[x]] < m /\ next[x] \in D
      BY <2>3 DEF Recursion
    <3>2. f[next[x]] = g[next[x]]
      BY <2>1, <3>1 DEF UnfoldsBelow
    <3> QED
      BY <2>3, <3>2
  <2>4. UnfoldsBelow(g, D, Stop, val, next, turn, rank, m + 1)
    BY <2>3 DEF UnfoldsBelow
  <2> QED
    BY <2>2, <2>4
<1>3. P = Nat
  BY <1>1, <1>2, NatSteps
<1> QED
  BY <1>3

(* Two such solutions agree below the rank. *)
LEMMA UnfoldsOneWay ==
    ASSUME NEW D, NEW V, NEW Stop, NEW val, NEW next, NEW turn, NEW rank,
           Recursion(D, V, Stop, val, next, turn, rank), NEW n \in Nat
    PROVE  \A f, g : /\ UnfoldsBelow(f, D, Stop, val, next, turn, rank, n)
                     /\ UnfoldsBelow(g, D, Stop, val, next, turn, rank, n)
                     => \A x \in D : rank[x] < n => f[x] = g[x]
<1> SUFFICES ASSUME NEW f, NEW g, UnfoldsBelow(f, D, Stop, val, next, turn, rank, n),
                    UnfoldsBelow(g, D, Stop, val, next, turn, rank, n)
             PROVE  \A x \in D : rank[x] < n => f[x] = g[x]
  OBVIOUS
<1>0. /\ val \in [D -> V] /\ next \in [D -> D] /\ turn \in [D -> [V -> V]] /\ rank \in [D -> Nat]
      /\ \A x \in D : x \notin Stop => rank[next[x]] < rank[x]
  BY DEF Recursion
<1> USE <1>0
<1> DEFINE P == {m \in Nat : \A x \in D : rank[x] < n /\ rank[x] < m => f[x] = g[x]}
<1>1. 0 \in P
  OBVIOUS
<1>2. ASSUME NEW m \in P PROVE m + 1 \in P
  <2>1. ASSUME NEW x \in D, rank[x] < n, rank[x] < m + 1 PROVE f[x] = g[x]
    <3>1. CASE x \in Stop
      BY <2>1, <3>1 DEF UnfoldsBelow
    <3>2. CASE x \notin Stop
      <4>1. rank[next[x]] < rank[x] /\ next[x] \in D /\ rank[x] \in Nat /\ rank[next[x]] \in Nat
        BY <3>2 DEF Recursion
      <4>2. f[next[x]] = g[next[x]]
        BY <2>1, <4>1
      <4> QED
        BY <2>1, <3>2, <4>2 DEF UnfoldsBelow
    <3> QED
      BY <3>1, <3>2
  <2> QED
    BY <2>1
<1>3. P = Nat
  BY <1>1, <1>2, NatSteps
<1> QED
  BY <1>3

(* Hence the recursion has a solution. *)
LEMMA RecursionExists ==
    ASSUME NEW D, NEW V, NEW Stop, NEW val, NEW next, NEW turn, NEW rank,
           Recursion(D, V, Stop, val, next, turn, rank)
    PROVE  \E f \in [D -> V] : Unfolds(f, D, Stop, val, next, turn)
<1>0. /\ val \in [D -> V] /\ next \in [D -> D] /\ turn \in [D -> [V -> V]] /\ rank \in [D -> Nat]
      /\ \A x \in D : x \notin Stop => rank[next[x]] < rank[x]
  BY DEF Recursion
<1> USE <1>0
<1> DEFINE Below_(f, n) == UnfoldsBelow(f, D, Stop, val, next, turn, rank, n)
           upto == [n \in Nat |-> CHOOSE f \in [D -> V] : Below_(f, n)]
           g == [x \in D |-> upto[rank[x] + 1][x]]
<1>1. ASSUME NEW n \in Nat PROVE upto[n] \in [D -> V] /\ Below_(upto[n], n)
  <2>1. \E f \in [D -> V] : Below_(f, n)
    BY UnfoldsToAnyRank
  <2> QED
    BY <2>1
<1> HIDE DEF upto
<1>2. ASSUME NEW x \in D, NEW n \in Nat, rank[x] < n PROVE upto[n][x] = g[x]
  <2>1. rank[x] \in Nat /\ rank[x] + 1 \in Nat
    OBVIOUS
  <2>2. PICK r \in Nat : r = rank[x] + 1
    BY <2>1
  <2>3. UnfoldsBelow(upto[r], D, Stop, val, next, turn, rank, r)
    BY <1>1
  <2>4. UnfoldsBelow(upto[n], D, Stop, val, next, turn, rank, n)
    BY <1>1
  <2>5. UnfoldsBelow(upto[n], D, Stop, val, next, turn, rank, r)
    BY <1>2, <2>4, <2>1, <2>2 DEF UnfoldsBelow
  <2> DEFINE a == upto[n]
             b == upto[r]
  <2>6. UnfoldsBelow(a, D, Stop, val, next, turn, rank, r) /\ UnfoldsBelow(b, D, Stop, val, next, turn, rank, r)
    BY <2>3, <2>5
  <2> HIDE DEF a, b
  <2>7. \A y \in D : rank[y] < r => a[y] = b[y]
    <3>1. \A f, h : /\ UnfoldsBelow(f, D, Stop, val, next, turn, rank, r)
                    /\ UnfoldsBelow(h, D, Stop, val, next, turn, rank, r)
                    => \A y \in D : rank[y] < r => f[y] = h[y]
      BY UnfoldsOneWay
    <3> QED
      BY <2>6, <3>1
  <2>8. a[x] = b[x]
    BY <2>1, <2>2, <2>7
  <2> QED
    BY <2>2, <2>8 DEF a, b
<1>3. ASSUME NEW x \in D PROVE g[x] = IF x \in Stop THEN val[x] ELSE turn[x][g[next[x]]]
  <2>1. rank[x] \in Nat /\ next[x] \in D /\ rank[next[x]] \in Nat
    OBVIOUS
  <2>2. PICK r \in Nat : r = rank[x] + 1
    BY <2>1
  <2>3. upto[r][x] = IF x \in Stop THEN val[x] ELSE turn[x][upto[r][next[x]]]
    BY <1>1, <2>1, <2>2 DEF UnfoldsBelow
  <2>4. x \notin Stop => upto[r][next[x]] = g[next[x]]
    BY <1>2, <2>1, <2>2 DEF Recursion
  <2>5. upto[r][x] = g[x]
    BY <2>2
  <2> QED
    BY <2>3, <2>4, <2>5
<1>4. g \in [D -> V]
  BY <1>1
<1> QED
  BY <1>3, <1>4 DEF Unfolds

-----------------------------------------------------------------------------
(* Powers of two.                                                          *)

LEMMA PowersDouble ==
    Pow2 \in [Nat -> Nat] /\ \A n \in Nat : Pow2[n] = IF n = 0 THEN 1 ELSE 2 * Pow2[n - 1]
<1> DEFINE ones == [n \in Nat |-> 1]
           less == [n \in Nat |-> IF n = 0 THEN 0 ELSE n - 1]
           turn == [n \in Nat |-> [v \in Nat |-> 2 * v]]
           rank == [n \in Nat |-> n]
<1>1. Recursion(Nat, Nat, {0}, ones, less, turn, rank)
  BY DEF Recursion
<1>2. PICK f \in [Nat -> Nat] : Unfolds(f, Nat, {0}, ones, less, turn)
  <2> HIDE DEF ones, less, turn, rank
  <2> QED
    BY <1>1, RecursionExists
<1>3. ASSUME NEW n \in Nat PROVE f[n] = IF n = 0 THEN 1 ELSE 2 * f[n - 1]
  <2>1. f[n] = IF n \in {0} THEN ones[n] ELSE turn[n][f[less[n]]]
    <3> HIDE DEF ones, less, turn, rank
    <3> QED
      BY <1>2 DEF Unfolds
  <2>2. CASE n = 0
    BY <2>1, <2>2
  <2>3. CASE n # 0
    <3>1. less[n] = n - 1 /\ n - 1 \in Nat
      BY <2>3
    <3>2. f[n - 1] \in Nat
      BY <3>1
    <3>3. turn[n][f[n - 1]] = 2 * f[n - 1]
      BY <3>2
    <3> QED
      BY <2>1, <2>3, <3>1, <3>3
  <2> QED
    BY <2>2, <2>3
<1>4. f = [n \in Nat |-> IF n = 0 THEN 1 ELSE 2 * f[n - 1]]
  BY <1>2, <1>3
<1>5. Pow2 = [n \in Nat |-> IF n = 0 THEN 1 ELSE 2 * Pow2[n - 1]]
  <2> HIDE DEF ones, less, turn, rank
  <2> QED
    BY <1>4, Zenon DEF Pow2
<1>6. \A n \in Nat : Pow2[n] = IF n = 0 THEN 1 ELSE 2 * Pow2[n - 1]
  BY <1>5
<1> DEFINE P == {n \in Nat : Pow2[n] \in Nat}
<1>7. 0 \in P
  BY <1>6
<1>8. ASSUME NEW n \in P PROVE n + 1 \in P
  <2>1. Pow2[n + 1] = 2 * Pow2[n] /\ Pow2[n] \in Nat
    BY <1>6
  <2> QED
    BY <2>1
<1>9. P = Nat
  BY <1>7, <1>8, NatSteps
<1>10. \A n \in Nat : Pow2[n] \in Nat
  BY <1>9
<1>11. Pow2 = [n \in Nat |-> Pow2[n]]
  BY <1>5
<1> QED
  BY <1>6, <1>10, <1>11

(* They are positive and grow, and they are even but for the first. *)
LEMMA PowerAt ==
    ASSUME NEW n \in Nat
    PROVE  /\ Pow2[n] \in Positive /\ Pow2[0] = 1 /\ Pow2[n + 1] = 2 * Pow2[n]
           /\ n # 0 => n - 1 \in Nat /\ Pow2[n] = 2 * Pow2[n - 1] /\ Pow2[n] > 1
<1> DEFINE P == {m \in Nat : Pow2[m] \in Positive}
<1>1. 0 \in P
  BY PowersDouble DEF Positive
<1>2. ASSUME NEW m \in P PROVE m + 1 \in P
  <2>1. Pow2[m + 1] = 2 * Pow2[m] /\ Pow2[m] \in Nat \ {0}
    BY PowersDouble DEF Positive
  <2> QED
    BY <2>1 DEF Positive
<1>3. P = Nat
  BY <1>1, <1>2, NatSteps
<1>4. \A m \in Nat : Pow2[m] \in Positive
  BY <1>3
<1>5. Pow2[0] = 1 /\ Pow2[n + 1] = 2 * Pow2[n] /\ (n # 0 => Pow2[n] = 2 * Pow2[n - 1])
  BY PowersDouble
<1>6. n # 0 => n - 1 \in Nat
  OBVIOUS
<1> QED
  BY <1>4, <1>5, <1>6 DEF Positive

LEMMA PowersGrow ==
    ASSUME NEW a \in Nat, NEW b \in Nat, a =< b PROVE Pow2[a] =< Pow2[b]
<1> DEFINE P == {n \in Nat : a =< n => Pow2[a] =< Pow2[n]}
<1>1. 0 \in P
  BY PowerAt DEF Positive
<1>2. ASSUME NEW m \in P PROVE m + 1 \in P
  <2>1. Pow2[m + 1] = 2 * Pow2[m] /\ Pow2[m] \in Nat /\ Pow2[a] \in Nat
    BY PowerAt DEF Positive
  <2>2. a =< m \/ a = m + 1 \/ a > m + 1
    OBVIOUS
  <2> QED
    BY <2>1, <2>2
<1>3. P = Nat
  BY <1>1, <1>2, NatSteps
<1> QED
  BY <1>3

-----------------------------------------------------------------------------
(* Wrapping arithmetic.                                                    *)

LEMMA ModFacts ==
    ASSUME NEW x \in Int, NEW m \in Positive
    PROVE  \E k \in Int, r \in Nat : k = x \div m /\ r = x % m /\ x = m * k + r /\ r < m
<1>1. m \in Nat \ {0}
  BY DEF Positive
<1> QED
  BY <1>1

LEMMA ModUnique ==
    ASSUME NEW m \in Positive, NEW k \in Int, NEW r \in 0 .. m - 1
    PROVE  (m * k + r) % m = r /\ (m * k + r) \div m = k
<1>1. m * k \in Int /\ m \in Int /\ m > 0
  BY DEF Positive
<1>2. PICK x \in Int : x = m * k + r
  BY <1>1
<1>3. PICK j \in Int, s \in Nat : j = x \div m /\ s = x % m /\ x = m * j + s /\ s < m
  BY ModFacts
<1>4. j = k
  <2>1. CASE j > k
    <3>1. m * j >= m * (k + 1)
      BY <1>1, <2>1
    <3>2. m * (k + 1) = m * k + m
      BY <1>1
    <3> QED
      BY <1>1, <1>2, <1>3, <3>1, <3>2
  <2>2. CASE j < k
    <3>1. m * k >= m * (j + 1)
      BY <1>1, <2>2
    <3>2. m * (j + 1) = m * j + m
      BY <1>1
    <3> QED
      BY <1>1, <1>2, <1>3, <3>1, <3>2
  <2> QED
    BY <2>1, <2>2
<1> QED
  BY <1>1, <1>2, <1>3, <1>4

(* The width, by the quarter of the range. *)
LEMMA Ranges ==
    ASSUME WidthAssumption
    PROVE  \E q \in Positive : /\ Modulus = 4 * q /\ Low = -(2 * q) /\ High = 2 * q - 1
                               /\ Int64 = -(2 * q) .. 2 * q - 1 /\ HalfRange = -q .. q - 1
                               /\ Modulus \in Positive
<1>1. W - 2 \in Nat /\ W - 1 = (W - 2) + 1 /\ W = (W - 1) + 1 /\ W - 1 \in Nat
  BY DEF WidthAssumption
<1>2. PICK q \in Positive : q = Pow2[W - 2]
  BY <1>1, PowerAt
<1>3. Pow2[W - 1] = 2 * q /\ Pow2[W] = 2 * Pow2[W - 1]
  BY <1>1, <1>2, PowerAt
<1>4. q \in Nat /\ q > 0
  BY DEF Positive
<1>5. (-(2 * q)) \div 2 = -q /\ (2 * q - 1) \div 2 = q - 1
  BY <1>4
<1>6. Low = -(2 * q) /\ High = 2 * q - 1 /\ Modulus = 4 * q
  BY <1>3, <1>4 DEF Low, High, Modulus
<1> QED
  BY <1>4, <1>5, <1>6 DEF Int64, HalfRange, Positive

(* Wrapping leaves the integers of the width alone, and is not disturbed by a
   multiple of the modulus. *)
LEMMA WrapFacts ==
    ASSUME WidthAssumption, NEW x \in Int
    PROVE  /\ Wrap(x) \in Int64 /\ Unsigned(x) \in 0 .. Modulus - 1
           /\ x \in Int64 => Wrap(x) = x
           /\ x \in 0 .. Modulus - 1 => Unsigned(x) = x /\ Unsigned(Wrap(x)) = x
<1>1. PICK q \in Positive : /\ Modulus = 4 * q /\ Low = -(2 * q) /\ Int64 = -(2 * q) .. 2 * q - 1
                            /\ Modulus \in Positive
  BY Ranges
<1>2. PICK m \in Positive : m = Modulus
  BY <1>1
<1>3. q \in Nat /\ q > 0 /\ m = 4 * q /\ m \in Int
  BY <1>1, <1>2 DEF Positive
<1>4. PICK y \in Int : y = x - Low
  BY <1>1, <1>3
<1>5. y % m \in 0 .. m - 1 /\ x % m \in 0 .. m - 1
  <2>1. PICK k \in Int, r \in Nat : r = y % m /\ r < m
    BY ModFacts
  <2>2. PICK j \in Int, s \in Nat : s = x % m /\ s < m
    BY ModFacts
  <2> QED
    BY <1>3, <2>1, <2>2
<1>6. Wrap(x) = (y % m) - 2 * q /\ Wrap(x) \in Int64 /\ Unsigned(x) \in 0 .. Modulus - 1
  BY <1>1, <1>2, <1>3, <1>4, <1>5 DEF Wrap, Unsigned
<1>7. \A z \in 0 .. m - 1 : z % m = z
  <2> SUFFICES ASSUME NEW z \in 0 .. m - 1 PROVE z % m = z
    OBVIOUS
  <2>1. (m * 0 + z) % m = z
    BY ModUnique
  <2> QED
    BY <2>1, <1>3
<1>8. x \in Int64 => Wrap(x) = x
  BY <1>1, <1>3, <1>4, <1>6, <1>7
<1>9. ASSUME x \in 0 .. Modulus - 1 PROVE Unsigned(x) = x /\ Unsigned(Wrap(x)) = x
  <2>1. Unsigned(x) = x
    BY <1>2, <1>7, <1>9 DEF Unsigned
  <2>2. CASE x =< 2 * q - 1
    BY <1>1, <1>3, <1>8, <1>9, <2>1, <2>2
  <2>3. CASE x >= 2 * q
    <3>1. y = m * 1 + (x - 2 * q) /\ x - 2 * q \in 0 .. m - 1
      BY <1>1, <1>2, <1>3, <1>4, <1>9, <2>3
    <3>2. y % m = x - 2 * q
      BY <3>1, ModUnique
    <3>3. PICK w \in Int : w = Wrap(x)
      BY <1>5, <1>6, <1>3
    <3>4. w = m * (-1) + x
      BY <1>3, <1>6, <3>2, <3>3
    <3>5. w % m = x
      BY <1>2, <1>9, <3>4, ModUnique
    <3> QED
      BY <1>2, <2>1, <3>3, <3>5 DEF Unsigned
  <2> QED
    BY <1>3, <1>9, <2>2, <2>3
<1> QED
  BY <1>6, <1>8, <1>9

-----------------------------------------------------------------------------
(* Divisors.                                                               *)

LEMMA DividesBy ==
    ASSUME NEW d \in Positive, NEW q \in Nat, NEW n \in Nat, n = d * q PROVE Divides(d, n)
<1>1. d \in Nat /\ d >= 1
  BY DEF Positive
<1>2. d * q >= q
  <2>1. PICK c \in Nat : d = c + 1
    BY <1>1
  <2>2. d * q = c * q + q /\ c * q >= 0
    BY <2>1
  <2> QED
    BY <2>2
<1> QED
  BY <1>1, <1>2 DEF Divides

LEMMA Quotient ==
    ASSUME NEW d \in Positive, NEW n \in Nat, Divides(d, n) PROVE \E q \in Nat : n = d * q
  BY DEF Divides

LEMMA DividesSimple ==
    ASSUME NEW d \in Positive
    PROVE  /\ Divides(d, 0) /\ Divides(d, d)
           /\ \A n \in Nat : Divides(1, n)
           /\ \A n \in Positive : Divides(d, n) => d =< n
           /\ Divides(d, 1) => d = 1
<1>1. d \in Nat /\ d >= 1 /\ 1 \in Positive
  BY DEF Positive
<1>2. Divides(d, 0) /\ Divides(d, d)
  <2>1. 0 = d * 0 /\ d = d * 1
    BY <1>1
  <2> QED
    BY <1>1, <2>1, DividesBy
<1>3. ASSUME NEW n \in Nat PROVE Divides(1, n)
  BY <1>1, DividesBy
<1>4. ASSUME NEW n \in Positive, Divides(d, n) PROVE d =< n
  <2>1. PICK q \in Nat : n = d * q
    BY <1>4, Quotient DEF Positive
  <2>2. q # 0 /\ n \in Nat /\ n # 0
    BY <1>1, <2>1 DEF Positive
  <2>3. PICK c \in Nat : q = c + 1
    BY <2>2
  <2>4. d * q = d * c + d /\ d * c >= 0
    BY <1>1, <2>3
  <2> QED
    BY <1>1, <2>1, <2>4
<1>5. Divides(d, 1) => d = 1
  BY <1>1, <1>4
<1> QED
  BY <1>2, <1>3, <1>4, <1>5

LEMMA DividesSums ==
    ASSUME NEW d \in Positive, NEW a \in Nat, NEW b \in Nat, Divides(d, a)
    PROVE  /\ Divides(d, b) => Divides(d, a + b)
           /\ Divides(d, a + b) => Divides(d, b)
<1>1. d \in Nat
  BY DEF Positive
<1>2. PICK p \in Nat : a = d * p
  BY Quotient
<1>3. ASSUME Divides(d, b) PROVE Divides(d, a + b)
  <2>1. PICK q \in Nat : b = d * q
    BY <1>3, Quotient
  <2>2. a + b = d * (p + q) /\ a + b \in Nat /\ p + q \in Nat
    BY <1>1, <1>2, <2>1
  <2> QED
    BY <2>2, DividesBy
<1>4. ASSUME Divides(d, a + b) PROVE Divides(d, b)
  <2>1. PICK q \in Nat : a + b = d * q
    BY <1>4, Quotient
  <2>2. p =< q
    <3>1. CASE q < p
      <4>1. PICK c \in Nat : p = q + c + 1
        BY <3>1
      <4>2. d * p = d * q + d * c + d /\ d * c >= 0
        BY <1>1, <4>1
      <4>3. d >= 1
        BY DEF Positive
      <4> QED
        BY <1>1, <1>2, <2>1, <4>2, <4>3
    <3> QED
      BY <3>1
  <2>3. PICK c \in Nat : q = p + c
    BY <2>2
  <2>4. d * q = d * p + d * c /\ d * p \in Nat /\ d * c \in Nat
    BY <1>1, <2>3
  <2>5. b = d * c
    BY <1>2, <2>1, <2>4
  <2> QED
    BY <2>5, DividesBy
<1> QED
  BY <1>3, <1>4

LEMMA DividesProducts ==
    ASSUME NEW a \in Positive, NEW b \in Positive, NEW m \in Nat, NEW n \in Nat,
           Divides(a, m), Divides(b, n)
    PROVE  Divides(a * b, m * n) /\ a * b \in Positive /\ m * n \in Nat
<1>1. a \in Nat /\ b \in Nat /\ a # 0 /\ b # 0
  BY DEF Positive
<1>2. PICK p \in Nat, q \in Nat : m = a * p /\ n = b * q
  BY Quotient
<1>3. a * b \in Nat /\ a * b # 0 /\ m * n \in Nat /\ p * q \in Nat
  BY <1>1
<1>4. m * n = (a * b) * (p * q)
  BY <1>1, <1>2
<1>5. PICK c \in Positive, k \in Nat, r \in Nat : c = a * b /\ k = m * n /\ r = p * q
  BY <1>3 DEF Positive
<1> QED
  BY <1>4, <1>5, DividesBy

LEMMA DividesThrough ==
    ASSUME NEW a \in Positive, NEW b \in Positive, NEW n \in Nat, Divides(a, b), Divides(b, n)
    PROVE  Divides(a, n)
<1>1. a \in Nat /\ b \in Nat
  BY DEF Positive
<1>2. PICK p \in Nat, q \in Nat : b = a * p /\ n = b * q
  BY <1>1, Quotient
<1>3. n = a * (p * q) /\ p * q \in Nat
  BY <1>1, <1>2
<1>4. PICK r \in Nat : r = p * q
  BY <1>3
<1> QED
  BY <1>3, <1>4, DividesBy

-----------------------------------------------------------------------------
(* The odd part of a number, and the power of two in it.                   *)

Even(n) == n % 2 = 0

LEMMA Halves ==
    ASSUME NEW n \in Nat
    PROVE  /\ Even(n) => \E m \in Nat : n = 2 * m /\ m = n \div 2 /\ (n # 0 => m # 0 /\ m < n)
           /\ ~ Even(n) => n % 2 = 1 /\ n # 0 /\ \E m \in Nat : n = 2 * m + 1
           /\ \A m \in Nat : Even(2 * m) /\ ~ Even(2 * m + 1) /\ (2 * m) \div 2 = m
           /\ n \div 2 \in Nat /\ (n # 0 => n \div 2 < n)
  BY DEF Even

LEMMA OddPartUnfolds ==
    OddPart \in [Nat -> Nat]
    /\ \A n \in Nat : OddPart[n] = IF n = 0 \/ n % 2 = 1 THEN n ELSE OddPart[n \div 2]
<1> DEFINE stop == {n \in Nat : n = 0 \/ n % 2 = 1}
           self == [n \in Nat |-> n]
           half == [n \in Nat |-> n \div 2]
           turn == [n \in Nat |-> [v \in Nat |-> v]]
<1>1. Recursion(Nat, Nat, stop, self, half, turn, self)
  <2>1. self \in [Nat -> Nat] /\ turn \in [Nat -> [Nat -> Nat]]
    OBVIOUS
  <2>2. half \in [Nat -> Nat]
    BY Halves
  <2>3. \A n \in Nat : n \notin stop => self[half[n]] < self[n]
    BY Halves
  <2> HIDE DEF self, half, turn, stop
  <2> QED
    BY <2>1, <2>2, <2>3 DEF Recursion
<1>2. PICK f \in [Nat -> Nat] : Unfolds(f, Nat, stop, self, half, turn)
  <2> HIDE DEF stop, self, half, turn
  <2> QED
    BY <1>1, RecursionExists
<1>3. ASSUME NEW n \in Nat
      PROVE  f[n] = IF n = 0 \/ n % 2 = 1 THEN n ELSE f[n \div 2]
  <2>1. f[n] = IF n \in stop THEN self[n] ELSE turn[n][f[half[n]]]
    <3> HIDE DEF stop, self, half, turn
    <3> QED
      BY <1>2 DEF Unfolds
  <2>2. half[n] = n \div 2 /\ f[n \div 2] \in Nat /\ self[n] = n
    BY Halves
  <2>3. turn[n][f[n \div 2]] = f[n \div 2]
    BY <2>2
  <2> QED
    BY <2>1, <2>2, <2>3
<1>4. f = [n \in Nat |-> IF n = 0 \/ n % 2 = 1 THEN n ELSE f[n \div 2]]
  <2> HIDE DEF stop, self, half, turn
  <2> QED
    BY <1>2, <1>3
<1>5. OddPart = [n \in Nat |-> IF n = 0 \/ n % 2 = 1 THEN n ELSE OddPart[n \div 2]]
  <2> HIDE DEF stop, self, half, turn
  <2> QED
    BY <1>4, Zenon DEF OddPart
<1>6. \A n \in Nat : OddPart[n] = IF n = 0 \/ n % 2 = 1 THEN n ELSE OddPart[n \div 2]
  BY <1>5
<1> DEFINE P == {n \in Nat : \A k \in Nat : k =< n => OddPart[k] \in Nat}
<1>7. 0 \in P
  BY <1>6
<1>8. ASSUME NEW n \in P PROVE n + 1 \in P
  <2>1. ASSUME NEW k \in Nat, k =< n + 1 PROVE OddPart[k] \in Nat
    <3>1. CASE k = 0 \/ k % 2 = 1
      BY <1>6, <3>1
    <3>2. CASE ~ (k = 0 \/ k % 2 = 1)
      <4>1. k \div 2 \in Nat /\ k \div 2 =< n
        BY <2>1, <3>2, Halves
      <4> QED
        BY <1>6, <3>2, <4>1
    <3> QED
      BY <3>1, <3>2
  <2> QED
    BY <2>1
<1>9. P = Nat
  BY <1>7, <1>8, NatSteps
<1>10. ASSUME NEW n \in Nat PROVE OddPart[n] \in Nat
  <2>1. n \in P
    <3> HIDE DEF P
    <3> QED
      BY <1>9
  <2>2. n =< n
    OBVIOUS
  <2> QED
    BY <2>1, <2>2
<1>11. OddPart = [n \in Nat |-> OddPart[n]]
  BY <1>5
<1> QED
  BY <1>6, <1>10, <1>11

\* What halving until it is odd makes of a number.
SplitsAt(n) ==
    /\ OddPart[n] \in Positive /\ ~ Even(OddPart[n]) /\ OddPart[n] =< n
    /\ Twos(n) \in Positive /\ n = OddPart[n] * Twos(n)

LEMMA OddIsWhole ==
    ASSUME NEW n \in Nat, ~ Even(n)
    PROVE  OddPart[n] = n /\ Twos(n) = 1 /\ SplitsAt(n)
<1>1. n % 2 = 1 /\ n # 0
  BY Halves
<1>2. OddPart[n] = n
  BY <1>1, OddPartUnfolds
<1>3. Twos(n) = 1
  <2>1. n \in Positive /\ 1 \in Int /\ 0 \in 0 .. n - 1
    BY <1>1 DEF Positive
  <2>2. (n * 1 + 0) \div n = 1
    BY <2>1, ModUnique
  <2>3. n * 1 + 0 = n
    OBVIOUS
  <2> QED
    BY <1>2, <2>2, <2>3 DEF Twos
<1> QED
  BY <1>1, <1>2, <1>3 DEF SplitsAt, Positive

LEMMA EvenHasHalf ==
    ASSUME NEW m \in Positive, SplitsAt(m)
    PROVE  OddPart[2 * m] = OddPart[m] /\ Twos(2 * m) = 2 * Twos(m) /\ SplitsAt(2 * m)
<1>1. m \in Nat /\ m # 0 /\ 2 * m \in Nat /\ 2 * m # 0
  BY DEF Positive
<1>2. OddPart[2 * m] = OddPart[m]
  <2>1. (2 * m) % 2 # 1 /\ (2 * m) \div 2 = m
    BY <1>1
  <2> QED
    BY <1>1, <2>1, OddPartUnfolds
<1>3. PICK o \in Positive, t \in Positive : o = OddPart[m] /\ t = Twos(m) /\ m = o * t
  BY DEF SplitsAt
<1>4. o \in Nat /\ o # 0 /\ t \in Nat /\ t # 0 /\ 2 * t \in Nat
  BY <1>3 DEF Positive
<1>5. Twos(2 * m) = 2 * t
  <2>1. 2 * t \in Int /\ 0 \in 0 .. o - 1
    BY <1>4
  <2>2. (o * (2 * t) + 0) \div o = 2 * t
    BY <2>1, ModUnique
  <2>3. o * (2 * t) + 0 = 2 * m
    BY <1>3, <1>4
  <2> QED
    BY <1>2, <1>3, <2>2, <2>3 DEF Twos
<1>6. 2 * m = o * (2 * t)
  BY <1>3, <1>4
<1> QED
  BY <1>1, <1>2, <1>3, <1>4, <1>5, <1>6 DEF SplitsAt, Positive

LEMMA Splits == ASSUME NEW n \in Positive PROVE SplitsAt(n)
<1> DEFINE P == {m \in Nat : \A k \in Positive : k =< m => SplitsAt(k)}
<1>1. 0 \in P
  BY DEF Positive
<1>2. ASSUME NEW m \in P PROVE m + 1 \in P
  <2>1. ASSUME NEW k \in Positive, k =< m + 1 PROVE SplitsAt(k)
    <3>1. k \in Nat /\ k # 0
      BY DEF Positive
    <3>2. CASE ~ Even(k)
      BY <3>1, <3>2, OddIsWhole
    <3>3. CASE Even(k)
      <4>1. PICK h \in Nat : k = 2 * h /\ h # 0 /\ h < k
        BY <3>1, <3>3, Halves
      <4>2. h \in Positive /\ h =< m
        BY <2>1, <3>1, <4>1 DEF Positive
      <4> QED
        BY <4>1, <4>2, EvenHasHalf
    <3> QED
      BY <3>2, <3>3
  <2> QED
    BY <2>1
<1>3. P = Nat
  BY <1>1, <1>2, NatSteps
<1>4. n \in P /\ n =< n
  BY <1>3 DEF Positive
<1> QED
  BY <1>4

LEMMA HalfSplits ==
    ASSUME NEW m \in Positive
    PROVE  OddPart[2 * m] = OddPart[m] /\ Twos(2 * m) = 2 * Twos(m) /\ 2 * m \in Positive
<1>1. 2 * m \in Positive
  BY DEF Positive
<1> QED
  BY <1>1, Splits, EvenHasHalf

\* An odd divisor of twice a number divides the number.
LEMMA OddDivisorOfDouble ==
    ASSUME NEW f \in Positive, ~ Even(f), NEW m \in Nat, Divides(f, 2 * m)
    PROVE  Divides(f, m)
<1>1. f \in Nat /\ 2 * m \in Nat
  BY DEF Positive
<1>2. PICK q \in Nat : 2 * m = f * q
  BY <1>1, Quotient
<1>3. PICK h \in Nat : f = 2 * h + 1
  BY <1>1, Halves
<1>4. f * q = 2 * (h * q) + q /\ h * q \in Nat
  BY <1>2, <1>3
<1>5. PICK r \in Nat : r = h * q
  BY <1>4
<1>6. PICK s \in Nat : q = 2 * s
  <2>1. 2 * m = 2 * r + q
    BY <1>2, <1>4, <1>5
  <2>2. q = 2 * (m - r) /\ m - r \in Nat
    BY <2>1
  <2> QED
    BY <2>2
<1>7. f * (2 * s) = 2 * (f * s) /\ f * s \in Nat
  BY <1>1
<1>8. m = f * s
  BY <1>2, <1>6, <1>7
<1> QED
  BY <1>8, DividesBy

LEMMA OddDivisorOfOddPart ==
    ASSUME NEW f \in Positive, ~ Even(f), NEW n \in Positive, Divides(f, n)
    PROVE  Divides(f, OddPart[n])
<1> DEFINE P == {m \in Nat : \A k \in Positive : k =< m /\ Divides(f, k) => Divides(f, OddPart[k])}
<1>1. 0 \in P
  BY DEF Positive
<1>2. ASSUME NEW m \in P PROVE m + 1 \in P
  <2>1. ASSUME NEW k \in Positive, k =< m + 1, Divides(f, k) PROVE Divides(f, OddPart[k])
    <3>1. k \in Nat /\ k # 0
      BY DEF Positive
    <3>2. CASE ~ Even(k)
      BY <2>1, <3>1, <3>2, OddIsWhole
    <3>3. CASE Even(k)
      <4>1. PICK h \in Nat : k = 2 * h /\ h # 0 /\ h < k
        BY <3>1, <3>3, Halves
      <4>2. h \in Positive /\ h =< m
        BY <2>1, <3>1, <4>1 DEF Positive
      <4>3. Divides(f, h)
        BY <2>1, <4>1, OddDivisorOfDouble
      <4>4. OddPart[k] = OddPart[h]
        BY <4>1, <4>2, HalfSplits
      <4> QED
        BY <4>2, <4>3, <4>4
    <3> QED
      BY <3>2, <3>3
  <2> QED
    BY <2>1
<1>3. P = Nat
  BY <1>1, <1>2, NatSteps
<1>4. n \in P /\ n =< n
  BY <1>3 DEF Positive
<1> QED
  BY <1>4

\* The odd part and the power of two divide the number.
LEMMA PartsDivide ==
    ASSUME NEW n \in Positive
    PROVE  Divides(OddPart[n], n) /\ Divides(Twos(n), n)
<1>1. PICK o \in Positive, t \in Positive : o = OddPart[n] /\ t = Twos(n) /\ n = o * t
  BY Splits DEF SplitsAt
<1>2. o \in Nat /\ t \in Nat /\ n \in Nat
  BY DEF Positive
<1>3. n = t * o
  BY <1>1, <1>2
<1> QED
  BY <1>1, <1>2, <1>3, DividesBy

\* The powers of two: that of a divisor divides that of the number.
LEMMA TwosDivide ==
    ASSUME NEW e \in Positive, NEW n \in Positive, Divides(e, n)
    PROVE  Divides(Twos(e), Twos(n))
<1> DEFINE P == {m \in Nat : \A k, l \in Positive :
                                k =< m /\ Divides(k, l) => Divides(Twos(k), Twos(l))}
<1>1. 0 \in P
  BY DEF Positive
<1>2. ASSUME NEW m \in P PROVE m + 1 \in P
  <2>1. ASSUME NEW k \in Positive, NEW l \in Positive, k =< m + 1, Divides(k, l)
        PROVE  Divides(Twos(k), Twos(l))
    <3>1. k \in Nat /\ k # 0 /\ l \in Nat /\ l # 0 /\ Twos(l) \in Positive /\ Twos(l) \in Nat
      BY Splits DEF Positive, SplitsAt
    <3>2. CASE ~ Even(k)
      BY <3>1, <3>2, OddIsWhole, DividesSimple
    <3>3. CASE Even(k)
      <4>1. PICK h \in Nat : k = 2 * h /\ h # 0 /\ h < k
        BY <3>1, <3>3, Halves
      <4>2. h \in Positive /\ h =< m
        BY <2>1, <3>1, <4>1 DEF Positive
      <4>3. PICK q \in Nat : l = k * q
        BY <2>1, <3>1, Quotient
      <4>4. PICK g \in Nat : g = h * q
        OBVIOUS
      <4>5. l = 2 * g
        BY <4>1, <4>3, <4>4
      <4>6. g \in Positive /\ Divides(h, g)
        <5>1. g \in Positive
          BY <3>1, <4>4, <4>5 DEF Positive
        <5>2. Divides(h, g)
          BY <4>2, <4>4, DividesBy
        <5> QED
          BY <5>1, <5>2
      <4>7. Divides(Twos(h), Twos(g))
        BY <4>2, <4>6
      <4>8. Twos(k) = 2 * Twos(h) /\ Twos(l) = 2 * Twos(g)
        BY <4>1, <4>2, <4>5, <4>6, HalfSplits
      <4>9. Twos(h) \in Positive /\ Twos(g) \in Nat /\ 2 \in Positive /\ Divides(2, 2)
        BY <4>2, <4>6, Splits, DividesSimple DEF Positive, SplitsAt
      <4>10. PICK a \in Positive, b \in Nat : a = Twos(h) /\ b = Twos(g)
        BY <4>9
      <4>11. Divides(2 * a, 2 * b)
        BY <4>7, <4>9, <4>10, DividesProducts
      <4> QED
        BY <4>8, <4>10, <4>11
    <3> QED
      BY <3>2, <3>3
  <2> QED
    BY <2>1
<1>3. P = Nat
  BY <1>1, <1>2, NatSteps
<1>4. e \in P /\ e =< e
  BY <1>3 DEF Positive
<1> QED
  BY <1>4

\* And of two of them the lesser divides the greater.
LEMMA TwosInOrder ==
    ASSUME NEW e \in Positive, NEW n \in Positive, Twos(e) =< Twos(n)
    PROVE  Divides(Twos(e), Twos(n))
<1> DEFINE P == {m \in Nat : \A k, l \in Positive :
                                k =< m /\ Twos(k) =< Twos(l) => Divides(Twos(k), Twos(l))}
<1>1. 0 \in P
  BY DEF Positive
<1>2. ASSUME NEW m \in P PROVE m + 1 \in P
  <2>1. ASSUME NEW k \in Positive, NEW l \in Positive, k =< m + 1, Twos(k) =< Twos(l)
        PROVE  Divides(Twos(k), Twos(l))
    <3>1. k \in Nat /\ k # 0 /\ l \in Nat /\ l # 0 /\ Twos(l) \in Positive /\ Twos(l) \in Nat
      BY Splits DEF Positive, SplitsAt
    <3>2. CASE ~ Even(k)
      BY <3>1, <3>2, OddIsWhole, DividesSimple
    <3>3. CASE Even(k)
      <4>1. PICK h \in Nat : k = 2 * h /\ h # 0 /\ h < k
        BY <3>1, <3>3, Halves
      <4>2. h \in Positive /\ h =< m
        BY <2>1, <3>1, <4>1 DEF Positive
      <4>3. PICK a \in Positive : a = Twos(h) /\ Twos(k) = 2 * a
        BY <4>1, <4>2, HalfSplits, Splits DEF SplitsAt
      <4>4. a \in Nat /\ a >= 1
        BY DEF Positive
      <4>5. CASE ~ Even(l)
        <5>1. Twos(l) = 1
          BY <3>1, <4>5, OddIsWhole
        <5> QED
          BY <2>1, <4>3, <4>4, <5>1
      <4>6. CASE Even(l)
        <5>1. PICK g \in Nat : l = 2 * g /\ g # 0
          BY <3>1, <4>6, Halves
        <5>2. g \in Positive
          BY <5>1 DEF Positive
        <5>3. PICK b \in Positive : b = Twos(g) /\ Twos(l) = 2 * b
          BY <5>1, <5>2, HalfSplits, Splits DEF SplitsAt
        <5>4. b \in Nat /\ 2 \in Positive /\ Divides(2, 2)
          BY DividesSimple DEF Positive
        <5>5. Twos(h) =< Twos(g)
          BY <2>1, <4>3, <4>4, <5>3, <5>4
        <5>6. Divides(a, b)
          BY <4>2, <4>3, <5>2, <5>3, <5>5
        <5>7. Divides(2 * a, 2 * b)
          BY <5>4, <5>6, DividesProducts
        <5> QED
          BY <4>3, <5>3, <5>7
      <4> QED
        BY <4>5, <4>6
    <3> QED
      BY <3>2, <3>3
  <2> QED
    BY <2>1
<1>3. P = Nat
  BY <1>1, <1>2, NatSteps
<1>4. e \in P /\ e =< e
  BY <1>3 DEF Positive
<1> QED
  BY <1>4

-----------------------------------------------------------------------------
(* The binary gcd.                                                         *)

\* The odd divisors of g are those that a and b have in common.
OddCommon(g, a, b) ==
    /\ g \in Positive /\ ~ Even(g)
    /\ \A e \in Positive : ~ Even(e) => (Divides(e, g) <=> Divides(e, a) /\ Divides(e, b))

\* The odd divisors of a number are those of its odd part.
LEMMA OddDivisors ==
    ASSUME NEW n \in Positive, NEW e \in Positive, ~ Even(e)
    PROVE  Divides(e, OddPart[n]) <=> Divides(e, n)
<1>1. OddPart[n] \in Positive /\ Divides(OddPart[n], n) /\ n \in Nat
  BY Splits, PartsDivide DEF SplitsAt, Positive
<1>2. Divides(e, OddPart[n]) => Divides(e, n)
  BY <1>1, DividesThrough
<1> QED
  BY <1>2, OddDivisorOfOddPart

\* One turn of the loop, which ends where the two meet or one of them is 1.
LEMMA MeetIsCommon ==
    ASSUME NEW a \in Positive, ~ Even(a), NEW b \in Positive, ~ Even(b), Meet(a, b)
    PROVE  OddCommon(Lesser(a, b), a, b)
<1>1. a \in Nat /\ b \in Nat /\ a # 0 /\ b # 0
  BY DEF Positive
<1>2. CASE a = b
  BY <1>1, <1>2 DEF Lesser, OddCommon
<1>3. CASE Lesser(a, b) = 1
  <2>1. 1 \in Positive /\ ~ Even(1) /\ (a = 1 \/ b = 1)
    BY <1>3 DEF Positive, Even, Lesser
  <2>2. ASSUME NEW e \in Positive PROVE Divides(e, 1) <=> Divides(e, a) /\ Divides(e, b)
    <3>1. Divides(e, 1) => e = 1
      BY DividesSimple
    <3>2. Divides(1, a) /\ Divides(1, b)
      BY <1>1, <2>1, DividesSimple
    <3> QED
      BY <2>1, <3>1, <3>2
  <2> QED
    BY <1>3, <2>1, <2>2 DEF OddCommon
<1> QED
  BY <1>2, <1>3 DEF Meet

LEMMA SubtractIsCommon ==
    ASSUME NEW a \in Positive, NEW b \in Positive, a # b, NEW e \in Positive
    PROVE  /\ Lesser(a, b) \in Positive /\ Greater(a, b) - Lesser(a, b) \in Positive
           /\ Divides(e, Lesser(a, b)) /\ Divides(e, Greater(a, b) - Lesser(a, b))
                  <=> Divides(e, a) /\ Divides(e, b)
<1>1. PICK l \in Positive, g \in Positive :
         l = Lesser(a, b) /\ g = Greater(a, b) /\ l < g /\ ((l = a /\ g = b) \/ (l = b /\ g = a))
  BY DEF Lesser, Greater, Positive
<1>2. l \in Nat /\ g \in Nat /\ g - l \in Nat /\ g - l \in Positive
  BY <1>1 DEF Positive
<1>3. PICK d \in Nat : d = g - l /\ g = l + d
  BY <1>2
<1>4. Divides(e, l) => (Divides(e, d) <=> Divides(e, g))
  BY <1>2, <1>3, DividesSums
<1> QED
  BY <1>1, <1>2, <1>3, <1>4

LEMMA GcdLoopUnfolds ==
    ASSUME NEW a \in Positive, NEW b \in Positive, NEW o \in Positive, o = OddPart[b]
    PROVE  GcdLoop[<<a, b>>] =
               IF Meet(a, o) THEN Lesser(a, o)
               ELSE GcdLoop[<<Lesser(a, o), Greater(a, o) - Lesser(a, o)>>]
<1> DEFINE D == Positive \X Positive
           odd(p) == OddPart[p[2]]
           stop == {p \in D : Meet(p[1], odd(p))}
           val == [p \in D |-> Lesser(p[1], odd(p))]
           next == [p \in D |-> IF p \in stop THEN p
                                ELSE <<Lesser(p[1], odd(p)), Greater(p[1], odd(p)) - Lesser(p[1], odd(p))>>]
           turn == [p \in D |-> [v \in Int |-> v]]
           rank == [p \in D |-> p[1] + p[2]]
<1>1. ASSUME NEW p \in D
      PROVE  /\ val[p] \in Int /\ turn[p] \in [Int -> Int] /\ rank[p] \in Nat /\ next[p] \in D
             /\ p \notin stop => rank[next[p]] < rank[p]
  <2>1. PICK x \in Positive, y \in Positive : x = p[1] /\ y = p[2] /\ p = <<x, y>>
    OBVIOUS
  <2>2. PICK z \in Positive : z = OddPart[y] /\ z =< y
    BY Splits DEF SplitsAt
  <2>3. x \in Nat /\ y \in Nat /\ z \in Nat /\ x # 0 /\ y # 0 /\ z # 0
    BY DEF Positive
  <2>4. val[p] \in Int /\ rank[p] = x + y /\ rank[p] \in Nat
    BY <2>1, <2>2, <2>3 DEF Lesser
  <2>5. ASSUME p \notin stop PROVE next[p] \in D /\ rank[next[p]] < rank[p]
    <3>1. x # z
      BY <2>1, <2>2, <2>5 DEF Meet
    <3>2. PICK l \in Positive, d \in Positive : l = Lesser(x, z) /\ d = Greater(x, z) - Lesser(x, z)
      BY <2>3, <3>1 DEF Lesser, Greater, Positive
    <3>3. l + d < x + y
      BY <2>2, <2>3, <3>2 DEF Lesser, Greater, Positive
    <3>4. next[p] = <<l, d>>
      BY <2>1, <2>2, <2>5, <3>2
    <3>5. rank[<<l, d>>] = l + d
      OBVIOUS
    <3> QED
      BY <2>4, <3>3, <3>4, <3>5
  <2>6. p \in stop => next[p] = p
    OBVIOUS
  <2> HIDE DEF val, rank, next, stop
  <2> QED
    BY <2>4, <2>5, <2>6
<1>2. Recursion(D, Int, stop, val, next, turn, rank)
  <2>1. val \in [D -> Int] /\ turn \in [D -> [Int -> Int]] /\ rank \in [D -> Nat] /\ next \in [D -> D]
    <3>1. val = [p \in D |-> val[p]] /\ rank = [p \in D |-> rank[p]] /\ next = [p \in D |-> next[p]]
          /\ turn = [p \in D |-> turn[p]]
      OBVIOUS
    <3> HIDE DEF D, val, rank, next, stop, turn
    <3> QED
      BY <1>1, <3>1
  <2> HIDE DEF D, val, rank, next, stop, turn
  <2> QED
    BY <1>1, <2>1 DEF Recursion
<1>3. PICK f \in [D -> Int] : Unfolds(f, D, stop, val, next, turn)
  <2> HIDE DEF D, val, rank, next, stop, turn
  <2> QED
    BY <1>2, RecursionExists
<1>4. ASSUME NEW p \in D
      PROVE  f[p] = LET q == OddPart[p[2]] IN
                    IF Meet(p[1], q) THEN Lesser(p[1], q)
                    ELSE f[<<Lesser(p[1], q), Greater(p[1], q) - Lesser(p[1], q)>>]
  <2>1. f[p] = IF p \in stop THEN val[p] ELSE turn[p][f[next[p]]]
    <3> HIDE DEF D, val, next, stop, turn
    <3> QED
      BY <1>3 DEF Unfolds
  <2>2. turn[p][f[next[p]]] = f[next[p]]
    <3>1. f[next[p]] \in Int
      <4> HIDE DEF D, val, rank, next, stop, turn
      <4> QED
        BY <1>1
    <3> QED
      BY <3>1
  <2>3. p \in stop <=> Meet(p[1], OddPart[p[2]])
    OBVIOUS
  <2>4. val[p] = Lesser(p[1], OddPart[p[2]])
    OBVIOUS
  <2>5. p \notin stop => next[p] = <<Lesser(p[1], OddPart[p[2]]), Greater(p[1], OddPart[p[2]]) - Lesser(p[1], OddPart[p[2]])>>
    OBVIOUS
  <2> HIDE DEF D, val, rank, next, stop, turn
  <2> QED
    BY <2>1, <2>2, <2>3, <2>4, <2>5
<1>5. f = [p \in D |-> LET q == OddPart[p[2]] IN
                    IF Meet(p[1], q) THEN Lesser(p[1], q)
                    ELSE f[<<Lesser(p[1], q), Greater(p[1], q) - Lesser(p[1], q)>>]]
  <2> HIDE DEF D, val, rank, next, stop, turn
  <2> QED
    BY <1>3, <1>4
<1>6. GcdLoop = [p \in D |-> LET q == OddPart[p[2]] IN
                    IF Meet(p[1], q) THEN Lesser(p[1], q)
                    ELSE GcdLoop[<<Lesser(p[1], q), Greater(p[1], q) - Lesser(p[1], q)>>]]
  <2> HIDE DEF val, rank, next, stop, turn
  <2> QED
    BY <1>5, Zenon DEF GcdLoop
<1>7. <<a, b>> \in D /\ <<a, b>>[1] = a /\ <<a, b>>[2] = b
  OBVIOUS
<1>8. GcdLoop[<<a, b>>] = LET q == OddPart[b] IN
                          IF Meet(a, q) THEN Lesser(a, q)
                          ELSE GcdLoop[<<Lesser(a, q), Greater(a, q) - Lesser(a, q)>>]
  <2> HIDE DEF D, val, rank, next, stop, turn
  <2> QED
    BY <1>6, <1>7
<1> QED
  BY <1>8

LEMMA GcdLoopIsCommon ==
    ASSUME NEW a \in Positive, ~ Even(a), NEW b \in Positive
    PROVE  OddCommon(GcdLoop[<<a, b>>], a, b)
<1> DEFINE P == {n \in Nat : \A x, y \in Positive :
                                x + y =< n /\ ~ Even(x) => OddCommon(GcdLoop[<<x, y>>], x, y)}
<1>1. 0 \in P
  BY DEF Positive
<1>2. ASSUME NEW n \in P PROVE n + 1 \in P
  <2>1. ASSUME NEW x \in Positive, NEW y \in Positive, x + y =< n + 1, ~ Even(x)
        PROVE  OddCommon(GcdLoop[<<x, y>>], x, y)
    <3>1. PICK o \in Positive : o = OddPart[y] /\ o =< y /\ ~ Even(o)
      BY Splits DEF SplitsAt
    <3>2. \A e \in Positive : ~ Even(e) => (Divides(e, o) <=> Divides(e, y))
      BY <3>1, OddDivisors
    <3>3. x \in Nat /\ x # 0 /\ y \in Nat /\ y # 0 /\ o \in Nat /\ o # 0
      BY DEF Positive
    <3>4. CASE Meet(x, o)
      <4>1. OddCommon(Lesser(x, o), x, o)
        BY <2>1, <3>1, <3>4, MeetIsCommon
      <4>2. GcdLoop[<<x, y>>] = Lesser(x, o)
        BY <3>1, <3>4, GcdLoopUnfolds
      <4> QED
        BY <3>2, <4>1, <4>2 DEF OddCommon
    <3>5. CASE ~ Meet(x, o)
      <4>1. x # o
        BY <3>5 DEF Meet
      <4>2. PICK l \in Positive, d \in Positive : l = Lesser(x, o) /\ d = Greater(x, o) - Lesser(x, o)
        BY <4>1, SubtractIsCommon
      <4>3. l + d =< n /\ ~ Even(l)
        BY <2>1, <3>1, <3>3, <4>2 DEF Lesser, Greater, Positive
      <4>4. OddCommon(GcdLoop[<<l, d>>], l, d)
        BY <4>3
      <4>5. GcdLoop[<<x, y>>] = GcdLoop[<<l, d>>]
        BY <3>1, <3>5, <4>2, GcdLoopUnfolds
      <4>6. \A e \in Positive : Divides(e, l) /\ Divides(e, d) <=> Divides(e, x) /\ Divides(e, o)
        BY <4>1, <4>2, SubtractIsCommon
      <4> QED
        BY <3>2, <4>4, <4>5, <4>6 DEF OddCommon
    <3> QED
      BY <3>4, <3>5
  <2> QED
    BY <2>1
<1>3. P = Nat
  BY <1>1, <1>2, NatSteps
<1>4. a + b \in P /\ a + b =< a + b
  BY <1>3 DEF Positive
<1> QED
  BY <1>4

\* The divisors of g are those that x and y have in common.
Common(g, x, y) ==
    /\ g \in Nat /\ (g = 0 <=> x = 0 /\ y = 0)
    /\ \A e \in Positive : Divides(e, g) <=> Divides(e, x) /\ Divides(e, y)

\* With the power of two put back.
LEMMA CommonOfParts ==
    ASSUME NEW x \in Positive, NEW y \in Positive, NEW l, OddCommon(l, OddPart[x], y)
    PROVE  Common(l * Lesser(Twos(x), Twos(y)), x, y)
<1>1. l \in Positive /\ ~ Even(l)
  BY DEF OddCommon
<1>2. PICK ox \in Positive, tx \in Positive : ox = OddPart[x] /\ tx = Twos(x) /\ x = ox * tx
  BY Splits DEF SplitsAt
<1>3. PICK oy \in Positive, ty \in Positive : oy = OddPart[y] /\ ty = Twos(y) /\ y = oy * ty
  BY Splits DEF SplitsAt
<1>4. /\ x \in Nat /\ x # 0 /\ y \in Nat /\ y # 0 /\ l \in Nat /\ l # 0
      /\ ox \in Nat /\ tx \in Nat /\ oy \in Nat /\ ty \in Nat
  BY <1>1 DEF Positive
<1>5. PICK t \in Positive : t = Lesser(Twos(x), Twos(y)) /\ Divides(t, tx) /\ Divides(t, ty)
  <2>1. CASE tx < ty
    <3>1. Divides(tx, ty)
      BY <1>2, <1>3, <2>1, <1>4, TwosInOrder
    <3> QED
      BY <1>2, <1>3, <2>1, <3>1, DividesSimple DEF Lesser
  <2>2. CASE ~ (tx < ty)
    <3>1. Divides(ty, tx)
      BY <1>2, <1>3, <2>2, <1>4, TwosInOrder
    <3> QED
      BY <1>2, <1>3, <2>2, <3>1, DividesSimple DEF Lesser
  <2> QED
    BY <2>1, <2>2
<1>6. PICK g \in Positive : g = l * t
  <2>1. l * t \in Nat /\ l * t # 0
    BY <1>1 DEF Positive
  <2> QED
    BY <2>1 DEF Positive
<1>7. Divides(l, ox) /\ Divides(l, oy)
  <2>1. Divides(l, ox) /\ Divides(l, y)
    BY <1>1, <1>2, DividesSimple DEF OddCommon
  <2> QED
    BY <1>1, <1>3, <2>1, OddDivisors
<1>8. Divides(g, x) /\ Divides(g, y)
  <2>1. Divides(l * t, ox * tx) /\ Divides(l * t, oy * ty)
    BY <1>1, <1>4, <1>5, <1>7, DividesProducts
  <2> QED
    BY <1>2, <1>3, <1>6, <2>1
<1>9. ASSUME NEW e \in Positive, Divides(e, x), Divides(e, y) PROVE Divides(e, g)
  <2>1. PICK o \in Positive, p \in Positive : o = OddPart[e] /\ p = Twos(e) /\ e = o * p /\ ~ Even(o)
    BY Splits DEF SplitsAt
  <2>2. Divides(o, e) /\ e \in Nat
    BY <2>1, PartsDivide DEF Positive
  <2>3. Divides(o, x) /\ Divides(o, y)
    BY <1>4, <1>9, <2>2, DividesThrough
  <2>4. Divides(o, l)
    <3>1. Divides(o, ox)
      BY <1>2, <2>1, <2>3, OddDivisors
    <3> QED
      BY <1>2, <2>1, <2>3, <3>1 DEF OddCommon
  <2>5. Divides(p, tx) /\ Divides(p, ty)
    BY <1>2, <1>3, <1>9, <2>1, TwosDivide
  <2>6. Divides(p, t)
    BY <1>2, <1>3, <1>5, <2>5 DEF Lesser
  <2>7. t \in Nat
    BY DEF Positive
  <2>8. Divides(o * p, l * t)
    BY <1>4, <2>4, <2>6, <2>7, DividesProducts
  <2> QED
    BY <1>6, <2>1, <2>8
<1>10. ASSUME NEW e \in Positive, Divides(e, g) PROVE Divides(e, x) /\ Divides(e, y)
  BY <1>4, <1>8, <1>10, DividesThrough
<1>11. g \in Nat /\ g # 0
  BY DEF Positive
<1>12. Common(g, x, y)
  BY <1>4, <1>9, <1>10, <1>11 DEF Common
<1> QED
  BY <1>5, <1>6, <1>12

(* gcd_compute returns a number whose divisors are exactly the common ones: the
   greatest common divisor, and 0 only of two zeros. *)
THEOREM GcdIsCommon ==
    ASSUME NEW a \in Int, NEW b \in Int PROVE Common(gcd_compute(a, b), Abs(a), Abs(b))
<1>1. PICK x \in Nat, y \in Nat : x = Abs(a) /\ y = Abs(b)
  BY DEF Abs
<1>2. \A e \in Positive : Divides(e, 0)
  BY DividesSimple
<1>3. CASE x = 0
  BY <1>1, <1>2, <1>3 DEF gcd_compute, Common
<1>4. CASE x # 0 /\ y = 0
  BY <1>1, <1>2, <1>4 DEF gcd_compute, Common
<1>5. CASE x # 0 /\ y # 0
  <2>1. x \in Positive /\ y \in Positive
    BY <1>5 DEF Positive
  <2>2. OddPart[x] \in Positive /\ ~ Even(OddPart[x])
    BY <2>1, Splits DEF SplitsAt
  <2>3. Common(GcdLoop[<<OddPart[x], y>>] * Lesser(Twos(x), Twos(y)), x, y)
    BY <2>1, <2>2, GcdLoopIsCommon, CommonOfParts
  <2> QED
    BY <1>1, <1>5, <2>3 DEF gcd_compute
<1> QED
  BY <1>3, <1>4, <1>5

-----------------------------------------------------------------------------
(* The statistics of a set of values.                                      *)

\* The divisors of g are those all of a set of numbers have in common.
CommonOf(g, ns) == \A e \in Positive : Divides(e, g) <=> \A n \in ns : Divides(e, n)

LEMMA GreatestIsCommon ==
    ASSUME WidthAssumption, NEW ns \in SUBSET (0 .. High), NEW g \in Nat, CommonOf(g, ns)
    PROVE  GreatestDivisor(ns) = g
<1>1. Modulus \in Nat /\ High < Modulus /\ High \in Nat
  BY Ranges DEF Positive
<1>2. ASSUME NEW n \in Nat, n # 0, Divides(n + 1, n) PROVE FALSE
  BY <1>2, DividesSimple DEF Positive
<1>3. CASE ns \subseteq {0}
  <2>1. \A e \in Positive : Divides(e, g)
    BY <1>3, DividesSimple DEF CommonOf
  <2>2. g + 1 \in Positive
    BY DEF Positive
  <2>3. g = 0
    BY <1>2, <2>1, <2>2
  <2> QED
    BY <1>3, <2>3 DEF GreatestDivisor
<1>4. CASE ~ (ns \subseteq {0})
  <2>1. PICK k \in ns : k \in Positive /\ k =< Modulus /\ k \in Nat
    BY <1>1, <1>4 DEF Positive
  <2>2. g # 0
    <3>1. CASE g = 0
      <4>1. Divides(k + 1, g) /\ k + 1 \in Positive
        BY <2>1, <3>1, DividesSimple DEF Positive
      <4>2. Divides(k + 1, k)
        BY <4>1 DEF CommonOf
      <4> QED
        BY <1>2, <2>1, <4>2 DEF Positive
    <3> QED
      BY <3>1
  <2>3. g \in Positive /\ Divides(g, g)
    BY <2>2, DividesSimple DEF Positive
  <2>4. \A n \in ns : Divides(g, n)
    BY <2>3 DEF CommonOf
  <2>5. g =< k
    BY <2>1, <2>3, <2>4, DividesSimple
  <2> DEFINE Greatest(d) == /\ \A n \in ns : Divides(d, n)
                            /\ \A e \in d + 1 .. Modulus : \E n \in ns : ~ Divides(e, n)
  <2>6. \A e \in Positive : (\A n \in ns : Divides(e, n)) => e =< g
    BY <2>3, DividesSimple DEF CommonOf
  <2>7. g \in 1 .. Modulus /\ Greatest(g)
    <3>1. \A e \in g + 1 .. Modulus : e \in Positive /\ ~ (e =< g)
      BY DEF Positive
    <3> QED
      BY <1>1, <2>1, <2>3, <2>4, <2>5, <2>6, <3>1 DEF Positive
  <2>8. ASSUME NEW d \in 1 .. Modulus, Greatest(d) PROVE d = g
    <3>1. d =< g
      BY <1>1, <2>6, <2>8 DEF Positive
    <3>2. ~ (g \in d + 1 .. Modulus)
      BY <2>4, <2>8
    <3> QED
      BY <1>1, <2>7, <3>1, <3>2
  <2>9. GreatestDivisor(ns) = CHOOSE d \in 1 .. Modulus : Greatest(d)
    BY <1>4 DEF GreatestDivisor
  <2> HIDE DEF Greatest
  <2> QED
    BY <2>7, <2>8, <2>9
<1> QED
  BY <1>3, <1>4

Differences(S, first) == {Abs(v - first) : v \in S}

\* What the statistics of the values S of a column that begins with first are.
GcdIs(g, first, S) ==
    /\ g \in 0 .. High
    /\ IF S \subseteq HalfRange THEN CommonOf(g, Differences(S, first)) ELSE g = 1
TableIs(unique, S) ==
    unique = IF Cardinality(S) =< TableLimit THEN [some |-> TRUE, set |-> S] ELSE NoTable
LeastIs(m, S) == m \in S /\ \A v \in S : m =< v
GreatestIs(m, S) == m \in S /\ \A v \in S : v =< m

Summarises(s, first, S) ==
    /\ s = [min |-> s.min, max |-> s.max, gcd |-> s.gcd, unique |-> s.unique]
    /\ LeastIs(s.min, S \cup {first}) /\ GreatestIs(s.max, S \cup {first})
    /\ GcdIs(s.gcd, first, S) /\ TableIs(s.unique, S)

\* Differences within the half range do not wrap.
LEMMA HalfDifferences ==
    ASSUME WidthAssumption, NEW v \in HalfRange, NEW w \in HalfRange
    PROVE  v - w \in Int64 /\ Wrap(v - w) = v - w /\ Abs(v - w) \in 0 .. High /\ v \in Int64
<1>1. PICK q \in Positive : /\ High = 2 * q - 1 /\ Int64 = -(2 * q) .. 2 * q - 1
                            /\ HalfRange = -q .. q - 1
  BY Ranges
<1>2. q \in Nat /\ v \in Int /\ w \in Int
  BY <1>1 DEF Positive
<1>3. v - w \in Int64 /\ Abs(v - w) \in 0 .. High /\ v \in Int64
  BY <1>1, <1>2 DEF Abs
<1> QED
  BY <1>2, <1>3, WrapFacts

\* The gcd after one more value.
LEMMA GcdGrows ==
    ASSUME WidthAssumption, NEW first \in Int64, NEW S \in SUBSET Int64, NEW v \in Int64,
           NEW g, GcdIs(g, first, S), S = {} => v = first, S # {} => first \in S
    PROVE  GcdIs(IF g = 1 \/ v \notin HalfRange THEN 1 ELSE gcd_compute(g, Wrap(v - first)),
                 first, S \cup {v})
<1>1. High \in Nat /\ 1 =< High /\ Int64 \subseteq Int
  BY Ranges DEF Positive
<1>2. g \in Nat /\ g \in 0 .. High
  BY <1>1 DEF GcdIs
<1>3. CASE v \notin HalfRange
  BY <1>1, <1>3 DEF GcdIs
<1>4. CASE v \in HalfRange /\ ~ (S \subseteq HalfRange)
  BY <1>1, <1>4 DEF GcdIs
<1>5. CASE v \in HalfRange /\ S \subseteq HalfRange
  <2>1. first \in HalfRange
    BY <1>5
  <2>2. PICK d \in 0 .. High : d = Abs(v - first) /\ Wrap(v - first) = v - first
    BY <1>5, <2>1, HalfDifferences
  <2>3. CommonOf(g, Differences(S, first))
    BY <1>5 DEF GcdIs
  <2>4. ASSUME NEW e \in Positive
        PROVE  (\A n \in Differences(S \cup {v}, first) : Divides(e, n))
               <=> Divides(e, g) /\ Divides(e, d)
    BY <2>2, <2>3 DEF CommonOf, Differences
  <2>5. S \cup {v} \subseteq HalfRange
    BY <1>5
  <2>6. CASE g = 1
    <3>1. CommonOf(1, Differences(S \cup {v}, first))
      <4> SUFFICES ASSUME NEW e \in Positive
                   PROVE  Divides(e, 1) <=> \A n \in Differences(S \cup {v}, first) : Divides(e, n)
        BY DEF CommonOf
      <4>1. Divides(e, 1) => e = 1 /\ Divides(1, d)
        BY <1>1, DividesSimple
      <4> QED
        BY <2>4, <2>6, <4>1
    <3> QED
      BY <1>1, <2>5, <2>6, <3>1 DEF GcdIs
  <2>7. CASE g # 1
    <3>1. PICK r : r = gcd_compute(g, Wrap(v - first))
      OBVIOUS
    <3>2. v - first \in Int /\ Abs(g) = g
      BY <1>1, <1>2 DEF Abs
    <3>3. Common(r, g, d)
      <4>1. Common(gcd_compute(g, v - first), Abs(g), Abs(v - first))
        BY <1>2, <3>2, GcdIsCommon
      <4> QED
        BY <2>2, <3>1, <3>2, <4>1
    <3>4. r \in 0 .. High
      <4>1. CASE r = 0
        BY <1>1, <4>1
      <4>2. CASE r # 0
        <5>1. r \in Positive /\ Divides(r, r)
          BY <3>3, <4>2, DividesSimple DEF Common, Positive
        <5>2. Divides(r, g) /\ Divides(r, d) /\ (g \in Positive \/ d \in Positive)
          BY <1>1, <1>2, <3>3, <4>2, <5>1 DEF Common, Positive
        <5>3. r =< g \/ r =< d
          BY <5>1, <5>2, DividesSimple
        <5> QED
          BY <1>1, <1>2, <5>1, <5>3 DEF Positive
      <4> QED
        BY <4>1, <4>2
    <3>5. CommonOf(r, Differences(S \cup {v}, first))
      BY <2>4, <3>3 DEF CommonOf, Common
    <3> QED
      BY <1>5, <2>5, <2>7, <3>1, <3>4, <3>5 DEF GcdIs
  <2> QED
    BY <2>6, <2>7
<1> QED
  BY <1>3, <1>4, <1>5

\* The table after one more value.
LEMMA TableGrows ==
    ASSUME WidthAssumption, NEW S, IsFiniteSet(S), NEW v, NEW unique, TableIs(unique, S)
    PROVE  TableIs(IF unique.some /\ Cardinality(unique.set \cup {v}) =< TableLimit
                   THEN [some |-> TRUE, set |-> unique.set \cup {v}] ELSE NoTable, S \cup {v})
<1>1. /\ IsFiniteSet(S \cup {v}) /\ Cardinality(S) \in Nat /\ Cardinality(S \cup {v}) \in Nat
      /\ Cardinality(S) =< Cardinality(S \cup {v}) /\ TableLimit \in Nat
  <2>1. S \subseteq S \cup {v} /\ IsFiniteSet(S \cup {v})
    BY FS_AddElement
  <2> QED
    BY <2>1, FS_Subset, FS_CardinalityType DEF WidthAssumption
<1>2. CASE Cardinality(S) =< TableLimit
  BY <1>2 DEF TableIs
<1>3. CASE ~ (Cardinality(S) =< TableLimit)
  BY <1>1, <1>3 DEF TableIs, NoTable
<1> QED
  BY <1>2, <1>3

(* One turn of the loop adds its value. *)
LEMMA SummaryGrows ==
    ASSUME WidthAssumption, NEW first \in Int64, NEW S \in SUBSET Int64, IsFiniteSet(S),
           NEW v \in Int64, NEW s, Summarises(s, first, S),
           S = {} => v = first, S # {} => first \in S
    PROVE  Summarises(AddValue(s, first, v), first, S \cup {v})
<1>1. Int64 \subseteq Int
  BY Ranges DEF Positive
<1>2. LeastIs(Lesser(s.min, v), (S \cup {v}) \cup {first})
  BY <1>1 DEF Summarises, LeastIs, Lesser
<1>3. GreatestIs(Greater(s.max, v), (S \cup {v}) \cup {first})
  BY <1>1 DEF Summarises, GreatestIs, Greater
<1>4. GcdIs(s.gcd, first, S) /\ TableIs(s.unique, S)
  BY DEF Summarises
<1>5. GcdIs(AddValue(s, first, v).gcd, first, S \cup {v})
  <2>1. AddValue(s, first, v).gcd =
           IF s.gcd = 1 \/ v \notin HalfRange THEN 1 ELSE gcd_compute(s.gcd, Wrap(v - first))
    BY DEF AddValue
  <2>2. PICK g : g = s.gcd
    OBVIOUS
  <2>3. GcdIs(IF g = 1 \/ v \notin HalfRange THEN 1 ELSE gcd_compute(g, Wrap(v - first)), first, S \cup {v})
    BY <1>4, <2>2, GcdGrows
  <2> QED
    BY <2>1, <2>2, <2>3
<1>6. TableIs(AddValue(s, first, v).unique, S \cup {v})
  <2>1. AddValue(s, first, v).unique =
           IF s.unique.some /\ Cardinality(s.unique.set \cup {v}) =< TableLimit
           THEN [some |-> TRUE, set |-> s.unique.set \cup {v}] ELSE NoTable
    BY DEF AddValue
  <2>2. PICK u : u = s.unique
    OBVIOUS
  <2>3. TableIs(IF u.some /\ Cardinality(u.set \cup {v}) =< TableLimit
                THEN [some |-> TRUE, set |-> u.set \cup {v}] ELSE NoTable, S \cup {v})
    BY <1>4, <2>2, TableGrows
  <2> QED
    BY <2>1, <2>2, <2>3
<1>7. AddValue(s, first, v).min = Lesser(s.min, v) /\ AddValue(s, first, v).max = Greater(s.max, v)
  BY DEF AddValue
<1>8. AddValue(s, first, v) = [min |-> AddValue(s, first, v).min, max |-> AddValue(s, first, v).max,
                               gcd |-> AddValue(s, first, v).gcd, unique |-> AddValue(s, first, v).unique]
  BY DEF AddValue
<1> QED
  BY <1>2, <1>3, <1>5, <1>6, <1>7, <1>8 DEF Summarises

LEMMA SummaryBegins ==
    ASSUME WidthAssumption, NEW first \in Int64
    PROVE  Summarises(StatsOfFirst(first), first, {})
<1>1. High \in Nat /\ first \in Int
  BY Ranges DEF Positive
<1>2. CommonOf(0, {})
  BY DividesSimple DEF CommonOf
<1>3. GcdIs(0, first, {})
  BY <1>1, <1>2 DEF GcdIs, Differences
<1>4. TableIs([some |-> TRUE, set |-> {}], {})
  BY FS_EmptySet DEF TableIs, WidthAssumption
<1> QED
  BY <1>1, <1>3, <1>4 DEF Summarises, StatsOfFirst, LeastIs, GreatestIs

(* When every value is in, they are what the terms mean. *)
LEMMA SummaryIsStats ==
    ASSUME WidthAssumption, NEW vs \in Seq(Int64), vs # <<>>, NEW s, NEW S,
           S = {vs[k] : k \in DOMAIN vs}, Summarises(s, vs[1], S)
    PROVE  s = StatsOf(vs)
<1>1. Int64 \subseteq Int
  BY Ranges DEF Positive
<1>2. vs[1] \in S /\ S \subseteq Int64 /\ S \cup {vs[1]} = S
  BY DEF Range
<1>3. s.min = CHOOSE v \in S : \A w \in S : v =< w
  <2>1. s.min \in S /\ \A v \in S : s.min =< v
    BY <1>2 DEF Summarises, LeastIs
  <2>2. ASSUME NEW v \in S, \A w \in S : v =< w PROVE v = s.min
    <3>1. v =< s.min /\ s.min =< v
      BY <2>1, <2>2
    <3>2. v \in Int /\ s.min \in Int
      BY <1>1, <1>2, <2>1
    <3> QED
      BY <3>1, <3>2
  <2> QED
    BY <2>1, <2>2
<1>4. s.max = CHOOSE v \in S : \A w \in S : v >= w
  <2>1. s.max \in S /\ \A v \in S : s.max >= v
    BY <1>1, <1>2 DEF Summarises, GreatestIs
  <2>2. ASSUME NEW v \in S, \A w \in S : v >= w PROVE v = s.max
    <3>1. v >= s.max /\ s.max >= v
      BY <2>1, <2>2
    <3>2. v \in Int /\ s.max \in Int
      BY <1>1, <1>2, <2>1
    <3> QED
      BY <3>1, <3>2
  <2> QED
    BY <2>1, <2>2
<1>5. s.gcd = IF S \subseteq HalfRange THEN GreatestDivisor(Differences(S, vs[1])) ELSE 1
  <2>1. CASE S \subseteq HalfRange
    <3>1. Differences(S, vs[1]) \in SUBSET (0 .. High)
      BY <1>2, <2>1, HalfDifferences DEF Differences
    <3>2. s.gcd \in Nat /\ CommonOf(s.gcd, Differences(S, vs[1]))
      BY <2>1, Ranges DEF Summarises, GcdIs
    <3> QED
      BY <2>1, <3>1, <3>2, GreatestIsCommon
  <2>2. CASE ~ (S \subseteq HalfRange)
    BY <2>2 DEF Summarises, GcdIs
  <2> QED
    BY <2>1, <2>2
<1>6. s.unique = IF Cardinality(S) =< TableLimit THEN [some |-> TRUE, set |-> S] ELSE NoTable
  BY DEF Summarises, TableIs
<1>7. s = [min |-> s.min, max |-> s.max, gcd |-> s.gcd, unique |-> s.unique]
  BY DEF Summarises
<1> QED
  BY <1>3, <1>4, <1>5, <1>6, <1>7 DEF StatsOf, Differences
=============================================================================
