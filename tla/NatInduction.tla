---------------------------- MODULE NatInduction ----------------------------
(***************************************************************************)
(* Induction over the natural numbers, for sets in the place of the        *)
(* predicates, and what it says of functions defined by recursion: the     *)
(* proofs about lists of chunks and texts of any length rest on it.        *)
(***************************************************************************)
EXTENDS Integers, WellFoundedInduction, TLAPS

(* A set of natural numbers has a least element.                           *)
LEMMA SmallestOf ==
  ASSUME NEW S \in SUBSET Nat, S # {}
  PROVE  \E x \in S : \A y \in S : x <= y
<1> DEFINE Less == {ss \in Nat \X Nat : ss[1] < ss[2]}
<1>1. IsWellFoundedOn(Less, Nat)
  BY NatLessThanWellFounded DEF OpToRel
<1>2. PICK x \in S : \A y \in S : <<y, x>> \notin Less
  BY <1>1, WFMin
<1>3. ASSUME NEW y \in S
      PROVE  x <= y
  <2>1. x \in Nat /\ y \in Nat
    OBVIOUS
  <2>2. y < x => <<y, x>> \in Less
    BY <2>1
  <2> QED
    BY <1>2, <2>1, <2>2
<1> QED
  BY <1>3

LEMMA SetInduction ==
  ASSUME NEW S \in SUBSET Nat, 0 \in S,
         \A n \in Nat \ {0} : n - 1 \in S => n \in S
  PROVE  S = Nat
<1> DEFINE Missing == Nat \ S
<1>1. SUFFICES ASSUME Missing # {}
               PROVE  FALSE
  OBVIOUS
<1>2. PICK m \in Missing : \A y \in Missing : m <= y
  <2>1. Missing \in SUBSET Nat
    OBVIOUS
  <2> QED
    BY <1>1, <2>1, SmallestOf
<1>3. m \in Nat \ {0}
  OBVIOUS
<1>4. m - 1 \in Nat /\ ~(m <= m - 1)
  BY <1>3
<1>5. m - 1 \in S
  BY <1>2, <1>4
<1> QED
  BY <1>3, <1>5

-----------------------------------------------------------------------------
(* Functions defined by recursion: f starts at a, and the step F says how  *)
(* its value at n comes from n and the value before.                       *)
Unfolds(S, a, F, f) ==
  /\ f \in [Nat -> S]
  /\ f[0] = a
  /\ \A n \in Nat \ {0} : f[n] = F[<<n, f[n - 1]>>]

(* The first m + 1 of its values.                                          *)
UnfoldsTo(S, a, F, m, h) ==
  /\ h \in [0..m -> S]
  /\ h[0] = a
  /\ \A n \in 1..m : h[n] = F[<<n, h[n - 1]>>]

LEMMA UnfoldsToExists ==
  ASSUME NEW S, NEW a \in S, NEW F \in [Nat \X S -> S]
  PROVE  \A m \in Nat : \E h : UnfoldsTo(S, a, F, m, h)
<1> DEFINE Z == {m \in Nat : \E h : UnfoldsTo(S, a, F, m, h)}
<1>1. 0 \in Z
  <2>1. UnfoldsTo(S, a, F, 0, [n \in 0..0 |-> a])
    BY DEF UnfoldsTo
  <2> QED
    BY <2>1
<1>2. ASSUME NEW m \in Nat \ {0}, m - 1 \in Z
      PROVE  m \in Z
  <2>1. PICK h : UnfoldsTo(S, a, F, m - 1, h)
    BY <1>2
  <2>2. PICK k : k = [n \in 0..m |-> IF n = m THEN F[<<m, h[m - 1]>>] ELSE h[n]]
    OBVIOUS
  <2>3. m - 1 \in Nat /\ m - 1 \in 0..(m - 1) /\ 0 \in 0..(m - 1) /\ 0 # m
    OBVIOUS
  <2>4. \A n \in 0..(m - 1) : k[n] = h[n] /\ h[n] \in S
    BY <2>1, <2>2 DEF UnfoldsTo
  <2>5. k[m] = F[<<m, h[m - 1]>>] /\ k[m] \in S
    <3>1. h[m - 1] \in S /\ m \in 0..m
      BY <2>3, <2>4
    <3> QED
      BY <2>2, <3>1
  <2>6. k \in [0..m -> S]
    <3>1. \A n \in 0..m : n = m \/ n \in 0..(m - 1)
      OBVIOUS
    <3>2. \A n \in 0..m : k[n] \in S
      BY <2>4, <2>5, <3>1
    <3> QED
      BY <2>2, <3>2
  <2>7. ASSUME NEW n \in 1..m
        PROVE  k[n] = F[<<n, k[n - 1]>>]
    <3>1. n - 1 \in 0..(m - 1)
      OBVIOUS
    <3>2. CASE n = m
      BY <2>3, <2>4, <2>5, <3>2
    <3>3. CASE n # m
      <4>1. n \in 1..(m - 1) /\ n \in 0..(m - 1)
        BY <3>3
      <4>2. h[n] = F[<<n, h[n - 1]>>]
        BY <2>1, <4>1 DEF UnfoldsTo
      <4> QED
        BY <2>4, <3>1, <4>1, <4>2
    <3> QED
      BY <3>2, <3>3
  <2>8. k[0] = a
    BY <2>1, <2>3, <2>4 DEF UnfoldsTo
  <2>9. UnfoldsTo(S, a, F, m, k)
    BY <2>6, <2>7, <2>8 DEF UnfoldsTo
  <2> QED
    BY <2>9
<1>3. Z = Nat
  <2> HIDE DEF Z
  <2>1. Z \in SUBSET Nat
    BY DEF Z
  <2> QED
    BY <1>1, <1>2, <2>1, SetInduction
<1> QED
  BY <1>3

LEMMA UnfoldsToAgree ==
  ASSUME NEW S, NEW a, NEW F,
         NEW j \in Nat, NEW m \in Nat, j <= m, NEW h, NEW k,
         UnfoldsTo(S, a, F, j, h), UnfoldsTo(S, a, F, m, k)
  PROVE  h[j] = k[j]
<1> DEFINE Z == {n \in Nat : n <= j => h[n] = k[n]}
<1>1. 0 \in Z
  BY DEF UnfoldsTo
<1>2. ASSUME NEW n \in Nat \ {0}, n - 1 \in Z
      PROVE  n \in Z
  <2>1. SUFFICES ASSUME n <= j
                 PROVE  h[n] = k[n]
    OBVIOUS
  <2>2. n \in 1..j /\ n \in 1..m /\ n - 1 <= j
    BY <2>1
  <2>3. h[n - 1] = k[n - 1]
    BY <1>2, <2>2
  <2> QED
    BY <2>2, <2>3 DEF UnfoldsTo
<1>3. Z = Nat
  <2> HIDE DEF Z
  <2>1. Z \in SUBSET Nat
    BY DEF Z
  <2> QED
    BY <1>1, <1>2, <2>1, SetInduction
<1> QED
  BY <1>3

LEMMA UnfoldsExists ==
  ASSUME NEW S, NEW a \in S, NEW F \in [Nat \X S -> S]
  PROVE  \E f : Unfolds(S, a, F, f)
<1>1. PICK H : H = [m \in Nat |-> CHOOSE h : UnfoldsTo(S, a, F, m, h)]
  OBVIOUS
<1>2. \A m \in Nat : UnfoldsTo(S, a, F, m, H[m])
  BY <1>1, UnfoldsToExists
<1>3. PICK f : f = [n \in Nat |-> H[n][n]]
  OBVIOUS
<1>4. f \in [Nat -> S]
  <2>1. \A n \in Nat : n \in 0..n
    OBVIOUS
  <2> QED
    BY <1>2, <1>3, <2>1 DEF UnfoldsTo
<1>5. f[0] = a
  BY <1>2, <1>3 DEF UnfoldsTo
<1>6. ASSUME NEW n \in Nat \ {0}
      PROVE  f[n] = F[<<n, f[n - 1]>>]
  <2>1. n - 1 \in Nat /\ n \in 1..n
    OBVIOUS
  <2>2. PICK j, h, k : j = n - 1 /\ h = H[j] /\ k = H[n]
    OBVIOUS
  <2>3. UnfoldsTo(S, a, F, j, h) /\ UnfoldsTo(S, a, F, n, k) /\ j \in Nat /\ j <= n
    BY <1>2, <2>1, <2>2
  <2>4. h[j] = k[j]
    BY <2>3, UnfoldsToAgree
  <2>5. k[n] = F[<<n, k[n - 1]>>]
    BY <2>1, <2>3 DEF UnfoldsTo
  <2> QED
    BY <1>3, <2>1, <2>2, <2>4, <2>5
<1> QED
  BY <1>4, <1>5, <1>6 DEF Unfolds

-----------------------------------------------------------------------------
(* f adds up the values of g at 1, 2, 3 ...                                *)
Adds(g, f) ==
  /\ f \in [Nat -> Int]
  /\ f[0] = 0
  /\ \A n \in Nat \ {0} : f[n] = f[n - 1] + g[n]

LEMMA AddsExists ==
  ASSUME NEW g \in [Nat -> Int]
  PROVE  \E f : Adds(g, f)
<1>1. PICK F : F = [x \in Nat \X Int |-> x[2] + g[x[1]]]
  OBVIOUS
<1>2. F \in [Nat \X Int -> Int]
  BY <1>1
<1>3. PICK f : Unfolds(Int, 0, F, f)
  <2>1. PICK S, a : S = Int /\ a = 0
    OBVIOUS
  <2>2. a \in S /\ F \in [Nat \X S -> S]
    BY <1>2, <2>1
  <2> QED
    BY <2>1, <2>2, UnfoldsExists
<1>4. ASSUME NEW n \in Nat \ {0}
      PROVE  f[n] = f[n - 1] + g[n]
  <2>1. n - 1 \in Nat /\ f[n - 1] \in Int
    BY <1>3 DEF Unfolds
  <2>2. PICK y : y = f[n - 1]
    OBVIOUS
  <2>3. F[<<n, y>>] = y + g[n]
    BY <1>1, <2>1, <2>2
  <2> QED
    BY <1>3, <2>2, <2>3 DEF Unfolds
<1> QED
  BY <1>3, <1>4 DEF Unfolds, Adds

LEMMA AddsUnique ==
  ASSUME NEW g, NEW f, NEW h, Adds(g, f), Adds(g, h)
  PROVE  f = h
<1> DEFINE S == {n \in Nat : f[n] = h[n]}
<1>1. 0 \in S
  BY DEF Adds
<1>2. ASSUME NEW n \in Nat \ {0}, n - 1 \in S
      PROVE  n \in S
  BY <1>2 DEF Adds
<1>3. S = Nat
  <2> HIDE DEF S
  <2>1. S \in SUBSET Nat
    BY DEF S
  <2> QED
    BY <1>1, <1>2, <2>1, SetInduction
<1> QED
  BY <1>3 DEF Adds

(* One value changes the sums from its place on, by the difference.        *)
LEMMA AddsChanged ==
  ASSUME NEW g \in [Nat -> Int], NEW h \in [Nat -> Int], NEW c \in Nat \ {0},
         \A n \in Nat \ {c} : g[n] = h[n],
         NEW f, NEW k, Adds(g, f), Adds(h, k)
  PROVE  \A n \in Nat : k[n] = IF n >= c THEN f[n] + h[c] - g[c] ELSE f[n]
<1> DEFINE S == {n \in Nat : k[n] = IF n >= c THEN f[n] + h[c] - g[c] ELSE f[n]}
<1>1. 0 \in S
  BY DEF Adds
<1>2. ASSUME NEW n \in Nat \ {0}, n - 1 \in S
      PROVE  n \in S
  <2>1. /\ f[n] = f[n - 1] + g[n] /\ k[n] = k[n - 1] + h[n]
        /\ n - 1 \in Nat /\ f[n - 1] \in Int /\ k[n - 1] \in Int
        /\ g[n] \in Int /\ h[n] \in Int /\ g[c] \in Int /\ h[c] \in Int
    BY DEF Adds
  <2>2. k[n - 1] = IF n - 1 >= c THEN f[n - 1] + h[c] - g[c] ELSE f[n - 1]
    BY <1>2
  <2>3. CASE n = c
    BY <2>1, <2>2, <2>3
  <2>4. CASE n # c
    BY <2>1, <2>2, <2>4
  <2> QED
    BY <2>3, <2>4
<1>3. S = Nat
  <2> HIDE DEF S
  <2>1. S \in SUBSET Nat
    BY DEF S
  <2> QED
    BY <1>1, <1>2, <2>1, SetInduction
<1> QED
  BY <1>3
=============================================================================
