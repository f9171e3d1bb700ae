--------------------------- MODULE NumbersProofs ---------------------------
(***************************************************************************)
(* printf and strtol, for any calls, buffer sizes and widths of the        *)
(* integers: printf stays in its buffer on the stack and within the count  *)
(* of snprintf, and prints what ISO C says; strtol is exact on whatever    *)
(* printf printed, and reads a number that was printed back as it was.     *)
(***************************************************************************)
EXTENDS Numbers, StrtolProofs, NatInduction

Char == -4..35    \* what printf handles; NUL is -4
Shown == -3..35   \* what the console gets

-----------------------------------------------------------------------------
(* _out_char.  Visible is computed character by character; that it is      *)
(* defined for every text takes an induction over the length of the text.  *)
Shows(text, v) ==
  /\ v[0] = <<>>
  /\ \A i \in Nat \ {0} :
       v[i] = IF text[i] = P!NUL THEN v[i - 1] ELSE Append(v[i - 1], text[i])

LEMMA VisibleSteps ==
  ASSUME NEW text
  PROVE  \E v : Shows(text, v) /\ P!Visible(text) = v[Len(text)]
<1> DEFINE visible == CHOOSE f : f = [n \in Nat |->
                        IF n = 0 THEN <<>>
                        ELSE IF text[n] = P!NUL THEN f[n - 1]
                        ELSE Append(f[n - 1], text[n])]
<1>1. P!Visible(text) = visible[Len(text)]
  BY DEF P!Visible
<1>2. PICK F, S, a : /\ a = <<>> /\ S = Seq({text[n] : n \in Nat})
                     /\ F = [x \in Nat \X S |->
                               IF text[x[1]] = P!NUL THEN x[2] ELSE Append(x[2], text[x[1]])]
  OBVIOUS
<1>3. a \in S /\ F \in [Nat \X S -> S]
  <2>1. \A n \in Nat : \A y \in S : Append(y, text[n]) \in S
    BY <1>2
  <2> QED
    BY <1>2, <2>1
<1>4. PICK f : Unfolds(S, a, F, f)
  BY <1>3, UnfoldsExists
<1>5. ASSUME NEW n \in Nat
      PROVE  f[n] = IF n = 0 THEN <<>>
                    ELSE IF text[n] = P!NUL THEN f[n - 1]
                    ELSE Append(f[n - 1], text[n])
  <2>1. CASE n = 0
    BY <1>2, <1>4, <2>1 DEF Unfolds
  <2>2. CASE n # 0
    <3>1. n - 1 \in Nat /\ f[n - 1] \in S /\ f[n] = F[<<n, f[n - 1]>>]
      BY <1>4, <2>2 DEF Unfolds
    <3>2. PICK y \in S : y = f[n - 1]
      BY <3>1
    <3>3. F[<<n, y>>] = IF text[n] = P!NUL THEN y ELSE Append(y, text[n])
      BY <1>2
    <3> QED
      BY <2>2, <3>1, <3>2, <3>3
  <2> QED
    BY <2>1, <2>2
<1>6. f = [n \in Nat |-> IF n = 0 THEN <<>>
                         ELSE IF text[n] = P!NUL THEN f[n - 1]
                         ELSE Append(f[n - 1], text[n])]
  BY <1>4, <1>5 DEF Unfolds
<1>7. visible = [n \in Nat |-> IF n = 0 THEN <<>>
                               ELSE IF text[n] = P!NUL THEN visible[n - 1]
                               ELSE Append(visible[n - 1], text[n])]
  BY <1>6
<1> HIDE DEF visible
<1>8. visible[0] = <<>>
  BY <1>7
<1>9. \A n \in Nat \ {0} :
        visible[n] = IF text[n] = P!NUL THEN visible[n - 1] ELSE Append(visible[n - 1], text[n])
  BY <1>7
<1> QED
  BY <1>1, <1>8, <1>9 DEF Shows

LEMMA VisibleIs ==
  ASSUME NEW text \in Seq(Char)
  PROVE  P!Visible(text) \in Seq(Shown)
<1>1. PICK v : Shows(text, v) /\ P!Visible(text) = v[Len(text)]
  BY VisibleSteps
<1> DEFINE Z == {n \in Nat : n <= Len(text) => v[n] \in Seq(Shown)}
<1>2. 0 \in Z
  <2>1. v[0] = <<>> /\ <<>> \in Seq(Shown)
    BY <1>1 DEF Shows
  <2> QED
    BY <2>1
<1>3. ASSUME NEW n \in Nat \ {0}, n - 1 \in Z
      PROVE  n \in Z
  <2>1. SUFFICES ASSUME n <= Len(text)
                 PROVE  v[n] \in Seq(Shown)
    OBVIOUS
  <2>2. v[n - 1] \in Seq(Shown)
    BY <1>3, <2>1
  <2>3. text[n] # P!NUL => text[n] \in Shown
    <3>1. text[n] \in Char
      BY <2>1
    <3> QED
      BY <3>1 DEF Char, Shown, P!NUL
  <2>4. PICK x : x = v[n - 1]
    OBVIOUS
  <2>5. v[n] = IF text[n] = P!NUL THEN x ELSE Append(x, text[n])
    BY <1>1, <2>4 DEF Shows
  <2> QED
    BY <2>2, <2>3, <2>4, <2>5
<1>4. Z = Nat
  <2> HIDE DEF Z
  <2>1. Z \in SUBSET Nat
    BY DEF Z
  <2> QED
    BY <1>2, <1>3, <2>1, SetInduction
<1> QED
  BY <1>1, <1>4

(* A text that is put out in two pieces shows both.                        *)
LEMMA VisibleConcat ==
  ASSUME NEW s \in Seq(Char), NEW t \in Seq(Char)
  PROVE  P!Visible(s \o t) = P!Visible(s) \o P!Visible(t)
<1>1. PICK st, m, n : /\ st = s \o t /\ m = Len(s) /\ n = Len(t)
  OBVIOUS
<1>2. /\ st \in Seq(Char) /\ Len(st) = m + n /\ m \in Nat /\ n \in Nat
      /\ \A i \in 1..(m + n) : st[i] = IF i <= m THEN s[i] ELSE t[i - m]
  BY <1>1, ConcatProperties, LenProperties
<1>3. PICK u : Shows(s, u) /\ P!Visible(s) = u[Len(s)]
  BY VisibleSteps
<1>4. PICK v : Shows(t, v) /\ P!Visible(t) = v[Len(t)]
  BY VisibleSteps
<1>5. PICK w : Shows(st, w) /\ P!Visible(st) = w[Len(st)]
  BY VisibleSteps
<1>6. u[m] = w[m]
  <2> DEFINE Z == {i \in Nat : i <= m => u[i] = w[i]}
  <2>1. 0 \in Z
    BY <1>3, <1>5 DEF Shows
  <2>2. ASSUME NEW i \in Nat \ {0}, i - 1 \in Z
        PROVE  i \in Z
    <3>1. SUFFICES ASSUME i <= m
                   PROVE  u[i] = w[i]
      OBVIOUS
    <3>2. u[i - 1] = w[i - 1]
      BY <1>2, <2>2, <3>1
    <3>3. st[i] = s[i]
      BY <1>2, <3>1
    <3> QED
      BY <1>3, <1>5, <3>2, <3>3 DEF Shows
  <2>3. Z = Nat
    <3> HIDE DEF Z
    <3>1. Z \in SUBSET Nat
      BY DEF Z
    <3> QED
      BY <2>1, <2>2, <3>1, SetInduction
  <2> QED
    BY <1>2, <2>3
<1>7. u[m] \in Seq(Shown)
  BY <1>1, <1>3, VisibleIs
<1>8. w[m + n] = u[m] \o v[n]
  <2> DEFINE Z == {i \in Nat : i <= n => v[i] \in Seq(Shown) /\ w[m + i] = u[m] \o v[i]}
  <2>1. 0 \in Z
    <3>1. m + 0 = m /\ u[m] \o <<>> = u[m]
      BY <1>2, <1>7, ConcatEmptySeq
    <3>2. v[0] = <<>> /\ <<>> \in Seq(Shown)
      BY <1>4 DEF Shows
    <3> QED
      BY <1>6, <3>1, <3>2
  <2>2. ASSUME NEW i \in Nat \ {0}, i - 1 \in Z
        PROVE  i \in Z
    <3>1. SUFFICES ASSUME i <= n
                   PROVE  v[i] \in Seq(Shown) /\ w[m + i] = u[m] \o v[i]
      OBVIOUS
    <3>2. PICK x, j, c : x = v[i - 1] /\ j = m + i /\ c = t[i]
      OBVIOUS
    <3>3. /\ j \in Nat \ {0} /\ j - 1 = m + (i - 1) /\ j \in 1..(m + n)
          /\ ~(j <= m) /\ j - m = i /\ i - 1 <= n
      BY <1>2, <3>1, <3>2
    <3>4. x \in Seq(Shown) /\ w[j - 1] = u[m] \o x
      BY <2>2, <3>2, <3>3
    <3>5. st[j] = c
      BY <1>2, <3>2, <3>3
    <3>6. /\ w[j] = IF c = P!NUL THEN w[j - 1] ELSE Append(w[j - 1], c)
          /\ v[i] = IF c = P!NUL THEN x ELSE Append(x, c)
      BY <1>4, <1>5, <3>2, <3>3, <3>5 DEF Shows
    <3>7. CASE c = P!NUL
      BY <3>2, <3>4, <3>6, <3>7
    <3>8. CASE c # P!NUL
      <4>1. c \in Shown
        <5>1. c \in Char
          BY <1>1, <3>1, <3>2
        <5> QED
          BY <3>8, <5>1 DEF Char, Shown, P!NUL
      <4>2. Append(x, c) = x \o <<c>> /\ Append(x, c) \in Seq(Shown)
        BY <3>4, <4>1, AppendIsConcat
      <4>3. PICK ux : ux = u[m] \o x
        OBVIOUS
      <4>4. ux \in Seq(Shown) /\ Append(ux, c) = ux \o <<c>>
        BY <1>7, <3>4, <4>1, <4>3, ConcatProperties, AppendIsConcat
      <4>5. ux \o <<c>> = u[m] \o (x \o <<c>>)
        <5>1. PICK cs, um : cs = <<c>> /\ um = u[m]
          OBVIOUS
        <5>2. cs \in Seq(Shown) /\ um \in Seq(Shown)
          BY <1>7, <4>1, <5>1
        <5>3. (um \o x) \o cs = um \o (x \o cs)
          BY <3>4, <5>2, ConcatAssociative
        <5> QED
          BY <4>3, <5>1, <5>3
      <4> QED
        BY <3>2, <3>4, <3>6, <3>8, <4>2, <4>3, <4>4, <4>5
    <3> QED
      BY <3>7, <3>8
  <2>3. Z = Nat
    <3> HIDE DEF Z
    <3>1. Z \in SUBSET Nat
      BY DEF Z
    <3> QED
      BY <2>1, <2>2, <3>1, SetInduction
  <2>4. n \in Nat
    BY <1>2
  <2>5. n <= n
    BY <2>4
  <2>6. n \in Z
    BY <2>3, <2>4
  <2> QED
    BY <2>5, <2>6
<1> QED
  BY <1>1, <1>2, <1>3, <1>4, <1>5, <1>8

(* The console does not show the NUL at the end.                           *)
LEMMA VisibleNul ==
  P!Visible(<<P!NUL>>) = <<>>
<1>1. PICK text, n : text = <<P!NUL>> /\ n = 1
  OBVIOUS
<1>2. PICK v : Shows(text, v) /\ P!Visible(text) = v[Len(text)]
  BY VisibleSteps
<1>3. Len(text) = n /\ n \in Nat \ {0} /\ n - 1 = 0 /\ text[n] = P!NUL
  BY <1>1
<1>4. v[n] = <<>>
  BY <1>2, <1>3 DEF Shows
<1> QED
  BY <1>1, <1>2, <1>3, <1>4

(* All of a text without NUL is shown.                                     *)
LEMMA VisibleAll ==
  ASSUME NEW s \in Seq(Shown)
  PROVE  P!Visible(s) = s
<1>1. PICK m \in Nat : m = Len(s)
  OBVIOUS
<1>2. PICK v : Shows(s, v) /\ P!Visible(s) = v[Len(s)]
  BY VisibleSteps
<1> DEFINE Z == {n \in Nat : n <= m => /\ v[n] \in Seq(Shown) /\ Len(v[n]) = n
                                       /\ \A i \in 1..n : v[n][i] = s[i]}
<1>3. 0 \in Z
  <2>1. v[0] = <<>> /\ <<>> \in Seq(Shown) /\ Len(<<>>) = 0
    BY <1>2 DEF Shows
  <2>2. v[0] \in Seq(Shown) /\ Len(v[0]) = 0 /\ \A i \in 1..0 : v[0][i] = s[i]
    BY <2>1
  <2> QED
    BY <2>2
<1>4. ASSUME NEW n \in Nat \ {0}, n - 1 \in Z
      PROVE  n \in Z
  <2>1. SUFFICES ASSUME n <= m
                 PROVE  /\ v[n] \in Seq(Shown) /\ Len(v[n]) = n
                        /\ \A i \in 1..n : v[n][i] = s[i]
    OBVIOUS
  <2>2. PICK x, k : x = v[n - 1] /\ k = n - 1
    OBVIOUS
  <2>3. /\ x \in Seq(Shown) /\ Len(x) = k /\ \A i \in 1..k : x[i] = s[i]
        /\ k \in Nat /\ k + 1 = n
    BY <1>4, <2>1, <2>2
  <2>4. PICK c \in Shown : c = s[n]
    <3>1. s[n] \in Shown
      BY <1>1, <2>1
    <3> QED
      BY <3>1
  <2>5. c # P!NUL
    BY DEF Shown, P!NUL
  <2>6. v[n] = Append(x, c)
    BY <1>2, <2>2, <2>4, <2>5 DEF Shows
  <2>7. /\ Append(x, c) \in Seq(Shown) /\ Len(Append(x, c)) = k + 1
        /\ \A i \in 1..k : Append(x, c)[i] = x[i]
        /\ Append(x, c)[k + 1] = c
    BY <2>3, AppendProperties
  <2>8. \A i \in 1..n : i = k + 1 \/ i \in 1..k
    BY <2>3
  <2> QED
    BY <2>3, <2>4, <2>6, <2>7, <2>8
<1>5. Z = Nat
  <2> HIDE DEF Z
  <2>1. Z \in SUBSET Nat
    BY DEF Z
  <2> QED
    BY <1>3, <1>4, <2>1, SetInduction
<1>6. v[m] \in Seq(Shown) /\ Len(v[m]) = Len(s) /\ \A i \in 1..Len(v[m]) : v[m][i] = s[i]
  BY <1>1, <1>5
<1>7. PICK x : x = v[m]
  OBVIOUS
<1>8. x = s
  BY <1>6, <1>7, SeqEqual
<1> QED
  BY <1>1, <1>2, <1>7, <1>8

-----------------------------------------------------------------------------
(* The pieces that _ntoa_format and _out_rev put together.                 *)

LEMMA RepeatIs ==
  ASSUME NEW c \in Char, NEW n \in Int
  PROVE  P!Repeat(c, n) \in Seq(Char) /\ Len(P!Repeat(c, n)) = IF n > 0 THEN n ELSE 0
<1>1. CASE n > 0
  <2>1. [i \in 1..n |-> c] \in Seq(Char) /\ Len([i \in 1..n |-> c]) = n
    BY <1>1
  <2> QED
    BY <1>1, <2>1 DEF P!Repeat
<1>2. CASE ~(n > 0)
  <2>1. P!Repeat(c, n) = <<>>
    BY <1>2 DEF P!Repeat
  <2>2. <<>> \in Seq(Char) /\ Len(<<>>) = 0
    OBVIOUS
  <2> QED
    BY <1>2, <2>1, <2>2
<1> QED
  BY <1>1, <1>2

LEMMA PadToIs ==
  ASSUME NEW s \in Seq(Char), NEW n \in Int
  PROVE  /\ P!PadTo(s, n, 0) \in Seq(Char)
         /\ Len(P!PadTo(s, n, 0)) = IF n > Len(s) THEN n ELSE Len(s)
<1>1. 0 \in Char /\ n - Len(s) \in Int /\ Len(s) \in Nat
  BY DEF Char
<1>2. PICK z : z = P!Repeat(0, n - Len(s))
  OBVIOUS
<1>3. z \in Seq(Char) /\ Len(z) = IF n - Len(s) > 0 THEN n - Len(s) ELSE 0
  BY <1>1, <1>2, RepeatIs
<1>4. s \o z \in Seq(Char) /\ Len(s \o z) = Len(s) + Len(z)
  BY <1>3, ConcatProperties
<1> QED
  BY <1>1, <1>2, <1>3, <1>4 DEF P!PadTo

LEMMA ReversedIs ==
  ASSUME NEW s \in Seq(Char)
  PROVE  P!Reversed(s) \in Seq(Char)
<1>1. Len(s) \in Nat /\ \A i \in 1..Len(s) : s[i] \in Char
  BY ElementOfSeq
<1>2. \A i \in 1..Len(s) : Len(s) + 1 - i \in 1..Len(s)
  BY <1>1
<1> QED
  BY <1>1, <1>2 DEF P!Reversed

LEMMA FieldIs ==
  ASSUME NEW s \in Seq(Char), NEW e, e.width \in Int
  PROVE  P!Field(s, e) \in Seq(Char)
<1>1. P!Width(e) \in Int /\ P!Width(e) - Len(s) \in Int
  BY DEF P!Width
<1>2. P!Space \in Char
  BY DEF P!Space, Char
<1>3. PICK pad : pad = P!Repeat(P!Space, P!Width(e) - Len(s))
  OBVIOUS
<1>4. pad \in Seq(Char)
  BY <1>1, <1>2, <1>3, RepeatIs
<1>5. s \o pad \in Seq(Char) /\ pad \o s \in Seq(Char)
  BY <1>4, ConcatProperties
<1> QED
  BY <1>3, <1>5 DEF P!Field

LEMMA CutIs ==
  ASSUME NEW s \in Seq(Char), NEW n \in Int, n <= Len(s)
  PROVE  /\ SubSeq(s, 1, n) \in Seq(Char)
         /\ Len(SubSeq(s, 1, n)) = IF n > 0 THEN n ELSE 0
<1>1. \A i \in 1..n : s[i] \in Char
  BY ElementOfSeq
<1> QED
  BY <1>1, SubSeqProperties

LEMMA BoundIs ==
  ASSUME NEW n \in Int
  PROVE  P!Bound(n) \in Int /\ P!Bound(n) <= NtoaBufferSize /\ P!Bound(n) <= n
BY PrintfConstants DEF P!Constants, P!Bound

LEMMA AppendFittingIs ==
  ASSUME NEW s \in Seq(Char), NEW t \in Seq(Char)
  PROVE  /\ P!AppendFitting(s, t) \in Seq(Char)
         /\ Len(P!AppendFitting(s, t)) <= NtoaBufferSize
<1>1. PICK u, n : u = s \o t /\ n = P!Bound(Len(s) + Len(t))
  OBVIOUS
<1>2. u \in Seq(Char) /\ Len(u) = Len(s) + Len(t) /\ Len(s) + Len(t) \in Int
  BY <1>1, ConcatProperties
<1>3. n \in Int /\ n <= NtoaBufferSize /\ n <= Len(u)
  BY <1>1, <1>2, BoundIs
<1>4. SubSeq(u, 1, n) \in Seq(Char) /\ Len(SubSeq(u, 1, n)) <= NtoaBufferSize
  BY <1>2, <1>3, CutIs, PrintfConstants DEF P!Constants
<1> QED
  BY <1>1, <1>4 DEF P!AppendFitting

-----------------------------------------------------------------------------
(* Powers and digits.                                                      *)

LEMMA PowerSteps ==
  ASSUME NEW b \in Nat
  PROVE  /\ P!Power(b, 0) = 1
         /\ \A n \in Nat : P!Power(b, n + 1) = b * P!Power(b, n) /\ P!Power(b, n) \in Nat
<1> DEFINE power == CHOOSE f : f = [k \in Nat |-> IF k = 0 THEN 1 ELSE b * f[k - 1]]
<1>1. \A n \in Nat : P!Power(b, n) = power[n]
  BY DEF P!Power
<1>2. PICK F : F = [x \in Nat \X Nat |-> b * x[2]]
  OBVIOUS
<1>3. PICK f : Unfolds(Nat, 1, F, f)
  <2>1. PICK S, a : S = Nat /\ a = 1
    OBVIOUS
  <2>2. a \in S /\ F \in [Nat \X S -> S]
    BY <1>2, <2>1
  <2> QED
    BY <2>1, <2>2, UnfoldsExists
<1>4. ASSUME NEW n \in Nat
      PROVE  f[n] = IF n = 0 THEN 1 ELSE b * f[n - 1]
  <2>1. CASE n = 0
    BY <1>3, <2>1 DEF Unfolds
  <2>2. CASE n # 0
    <3>1. n - 1 \in Nat /\ f[n - 1] \in Nat /\ f[n] = F[<<n, f[n - 1]>>]
      BY <1>3, <2>2 DEF Unfolds
    <3>2. PICK y : y = f[n - 1]
      OBVIOUS
    <3>3. F[<<n, y>>] = b * y
      BY <1>2, <3>1, <3>2
    <3> QED
      BY <2>2, <3>1, <3>2, <3>3
  <2> QED
    BY <2>1, <2>2
<1>5. f = [n \in Nat |-> IF n = 0 THEN 1 ELSE b * f[n - 1]]
  BY <1>3, <1>4 DEF Unfolds
<1>6. power = [n \in Nat |-> IF n = 0 THEN 1 ELSE b * power[n - 1]]
  BY <1>5
<1> HIDE DEF power
<1> DEFINE S == {n \in Nat : power[n] \in Nat}
<1>7. S = Nat
  <2>1. 0 \in S
    BY <1>6
  <2>2. ASSUME NEW n \in Nat \ {0}, n - 1 \in S
        PROVE  n \in S
    <3>1. power[n] = b * power[n - 1]
      BY <1>6
    <3>2. PICK y \in Nat : y = power[n - 1]
      BY <2>2
    <3> QED
      BY <3>1, <3>2
  <2> HIDE DEF S
  <2>3. S \in SUBSET Nat
    BY DEF S
  <2> QED
    BY <2>1, <2>2, <2>3, SetInduction
<1>8. \A n \in Nat : power[n + 1] = b * power[n]
  BY <1>6
<1>9. power[0] = 1
  BY <1>6
<1>10. \A n \in Nat : power[n] \in Nat
  BY <1>7
<1> QED
  BY <1>1, <1>8, <1>9, <1>10

LEMMA PowerIs ==
  ASSUME NEW b \in Nat, b >= 2, NEW n \in Nat
  PROVE  P!Power(b, n) \in Nat /\ P!Power(b, n) > n
<1> DEFINE S == {m \in Nat : P!Power(b, m) > m}
<1>1. 0 \in S
  BY PowerSteps
<1>2. ASSUME NEW m \in Nat \ {0}, m - 1 \in S
      PROVE  m \in S
  <2>1. PICK j \in Nat : j = m - 1
    OBVIOUS
  <2>2. PICK p \in Nat : p = P!Power(b, j) /\ P!Power(b, j + 1) = b * p
    BY PowerSteps
  <2>3. p > j
    BY <1>2, <2>1, <2>2
  <2>4. b * p >= 2 * p
    BY <2>2
  <2> QED
    BY <2>1, <2>2, <2>3, <2>4
<1>3. S = Nat
  <2> HIDE DEF S
  <2>1. S \in SUBSET Nat
    BY DEF S
  <2> QED
    BY <1>1, <1>2, <2>1, SetInduction
<1> QED
  BY <1>3, PowerSteps

(* A power is larger than its exponent, and does not fall.                 *)
LEMMA PowerGrows ==
  ASSUME NEW b \in Nat, b >= 2, NEW i \in Nat, NEW j \in Nat, i <= j
  PROVE  P!Power(b, i) <= P!Power(b, j)
<1> DEFINE S == {m \in Nat : P!Power(b, i) <= P!Power(b, i + m)}
<1>1. 0 \in S
  BY PowerSteps
<1>2. ASSUME NEW m \in Nat \ {0}, m - 1 \in S
      PROVE  m \in S
  <2>1. PICK k \in Nat : k = i + (m - 1) /\ k + 1 = i + m
    OBVIOUS
  <2>2. PICK p \in Nat : p = P!Power(b, k) /\ P!Power(b, k + 1) = b * p
    BY PowerSteps
  <2>3. PICK q \in Nat : q = P!Power(b, i)
    BY PowerSteps
  <2>4. q <= p
    BY <1>2, <2>1, <2>2, <2>3
  <2>5. b * p >= 2 * p
    BY <2>2
  <2> QED
    BY <2>1, <2>2, <2>3, <2>4, <2>5
<1>3. S = Nat
  <2> HIDE DEF S
  <2>1. S \in SUBSET Nat
    BY DEF S
  <2> QED
    BY <1>1, <1>2, <2>1, SetInduction
<1>4. PICK m \in Nat : m = j - i /\ i + m = j
  OBVIOUS
<1>5. m \in S
  BY <1>3
<1> QED
  BY <1>4, <1>5

(* One digit more is cut off the number.                                   *)
LEMMA QuotientStep ==
  ASSUME NEW n \in Nat, NEW b \in Nat, b >= 2, NEW i \in Nat
  PROVE  /\ n \div P!Power(b, i) \in Nat
         /\ (n \div P!Power(b, i)) \div b = n \div P!Power(b, i + 1)
         /\ n \div P!Power(b, 0) = n
<1>1. PICK p \in Nat \ {0} : p = P!Power(b, i) /\ P!Power(b, i + 1) = b * p
  <2>1. P!Power(b, i) \in Nat /\ P!Power(b, i) > i
    BY PowerIs
  <2>2. P!Power(b, i + 1) = b * P!Power(b, i)
    BY PowerSteps
  <2> QED
    BY <2>1, <2>2
<1>2. (n \div p) \div b = n \div (b * p)
  OBVIOUS
<1>3. n \div p \in Nat
  OBVIOUS
<1>4. n \div P!Power(b, 0) = n
  BY PowerSteps
<1> QED
  BY <1>1, <1>2, <1>3, <1>4

(* No digit is left where the power is larger than the number.             *)
LEMMA QuotientZero ==
  ASSUME NEW n \in Nat, NEW b \in Nat, b >= 2, NEW i \in Nat
  PROVE  n \div P!Power(b, i) = 0 <=> P!Power(b, i) > n
<1>1. PICK p \in Nat \ {0} : p = P!Power(b, i)
  BY PowerIs
<1>2. n \div p = 0 <=> p > n
  OBVIOUS
<1> QED
  BY <1>1, <1>2

IsDigitCount(k, n, b) ==
  /\ k \in Nat \ {0} /\ P!Power(b, k) > n
  /\ k > 1 => P!Power(b, k - 1) <= n

(* No two numbers of digits will do, so DigitCount is the one there is.    *)
LEMMA DigitCountUnique ==
  ASSUME NEW n \in Nat, NEW b \in Nat, b >= 2, NEW k, NEW j,
         IsDigitCount(k, n, b), IsDigitCount(j, n, b)
  PROVE  k = j
<1>1. ASSUME NEW x \in Nat \ {0}, NEW y \in Nat \ {0}, x < y,
             P!Power(b, x) > n, y > 1 => P!Power(b, y - 1) <= n
      PROVE  FALSE
  <2>1. PICK z \in Nat : z = y - 1 /\ x <= z /\ y > 1
    BY <1>1
  <2>2. P!Power(b, x) <= P!Power(b, z)
    BY <2>1, PowerGrows
  <2>3. P!Power(b, x) \in Nat /\ P!Power(b, z) \in Nat /\ P!Power(b, z) <= n
    BY <1>1, <2>1, PowerIs
  <2> QED
    BY <1>1, <2>2, <2>3
<1>2. ~(k < j) /\ ~(j < k)
  BY <1>1 DEF IsDigitCount
<1> QED
  BY <1>2 DEF IsDigitCount

LEMMA DigitCountIs ==
  ASSUME NEW n \in Nat, NEW b \in Nat, b >= 2
  PROVE  IsDigitCount(P!DigitCount(n, b), n, b)
<1> DEFINE Z == {k \in Nat \ {0} : P!Power(b, k) > n}
<1>1. n + 1 \in Z
  BY PowerIs
<1>2. PICK k \in Z : \A y \in Z : k <= y
  <2>1. Z \in SUBSET Nat /\ Z # {}
    BY <1>1
  <2> QED
    BY <2>1, SmallestOf
<1>3. k \in 1..(n + 1) /\ P!Power(b, k) > n
  BY <1>1, <1>2
<1>4. k > 1 => P!Power(b, k - 1) <= n
  <2>1. SUFFICES ASSUME k > 1
                 PROVE  P!Power(b, k - 1) <= n
    OBVIOUS
  <2>2. k - 1 \in Nat \ {0} /\ k - 1 \notin Z
    BY <1>2, <2>1
  <2>3. P!Power(b, k - 1) \in Nat
    BY <2>2, PowerIs
  <2> QED
    BY <2>2, <2>3
<1>5. \E x \in 1..(n + 1) : P!Power(b, x) > n /\ (x > 1 => P!Power(b, x - 1) <= n)
  BY <1>3, <1>4
<1>6. PICK c : c = P!DigitCount(n, b)
  OBVIOUS
<1>7. c \in 1..(n + 1) /\ P!Power(b, c) > n /\ (c > 1 => P!Power(b, c - 1) <= n)
  BY <1>5, <1>6 DEF P!DigitCount
<1> QED
  BY <1>6, <1>7 DEF IsDigitCount

-----------------------------------------------------------------------------
(* Texts: what they are made of, and their mirror images, since buf holds  *)
(* a number from its end.                                                  *)

(* Concatenation, place by place, and its laws.                            *)
LEMMA SameText ==
  ASSUME NEW s \in Seq(Char), NEW t \in Seq(Char),
         Len(s) = Len(t), \A i \in 1..Len(s) : s[i] = t[i]
  PROVE  s = t
BY SeqEqual

LEMMA Joined ==
  ASSUME NEW s \in Seq(Char), NEW t \in Seq(Char)
  PROVE  /\ s \o t \in Seq(Char) /\ Len(s \o t) = Len(s) + Len(t)
         /\ Len(s) \in Nat /\ Len(t) \in Nat
         /\ \A i \in 1..(Len(s) + Len(t)) :
              (s \o t)[i] = IF i <= Len(s) THEN s[i] ELSE t[i - Len(s)]
BY ConcatProperties, LenProperties

LEMMA JoinedEmpty ==
  ASSUME NEW s \in Seq(Char)
  PROVE  s \o <<>> = s /\ <<>> \o s = s
BY ConcatEmptySeq

LEMMA JoinedAgain ==
  ASSUME NEW s \in Seq(Char), NEW t \in Seq(Char), NEW u \in Seq(Char)
  PROVE  (s \o t) \o u = s \o (t \o u)
BY ConcatAssociative

(* Padding, place by place, in one piece or in two.                        *)
LEMMA RepeatAt ==
  ASSUME NEW c \in Char, NEW n \in Int
  PROVE  \A i \in 1..Len(P!Repeat(c, n)) : P!Repeat(c, n)[i] = c
<1>1. Len(P!Repeat(c, n)) = IF n > 0 THEN n ELSE 0
  BY RepeatIs
<1>2. \A i \in 1..n : P!Repeat(c, n)[i] = c
  BY DEF P!Repeat
<1> QED
  BY <1>1, <1>2

LEMMA RepeatNone ==
  ASSUME NEW c, NEW n \in Int, n <= 0
  PROVE  P!Repeat(c, n) = <<>>
BY DEF P!Repeat

LEMMA RepeatOnce ==
  ASSUME NEW c \in Char
  PROVE  P!Repeat(c, 1) = <<c>>
<1>1. PICK n \in Int : n = 1
  OBVIOUS
<1>2. PICK r : r = P!Repeat(c, n)
  OBVIOUS
<1>3. r \in Seq(Char) /\ Len(r) = 1
  <2>1. r \in Seq(Char) /\ Len(r) = IF n > 0 THEN n ELSE 0
    BY <1>2, RepeatIs
  <2> QED
    BY <1>1, <2>1
<1>4. r[1] = c
  <2>1. \A i \in 1..Len(r) : r[i] = c
    BY <1>2, RepeatAt
  <2> QED
    BY <1>3, <2>1
<1>5. <<c>> \in Seq(Char) /\ Len(<<c>>) = 1 /\ <<c>>[1] = c
  OBVIOUS
<1>6. \A i \in 1..1 : r[i] = <<c>>[i]
  BY <1>3, <1>4, <1>5
<1>7. r = <<c>>
  BY <1>3, <1>5, <1>6, SameText
<1> QED
  BY <1>1, <1>2, <1>7

LEMMA RepeatSplit ==
  ASSUME NEW c \in Char, NEW m \in Nat, NEW n \in Nat
  PROVE  P!Repeat(c, m) \o P!Repeat(c, n) = P!Repeat(c, m + n)
<1> DEFINE k == m + n
<1>1. k \in Nat
  OBVIOUS
<1> HIDE DEF k
<1>2. PICK x, y, z : x = P!Repeat(c, m) /\ y = P!Repeat(c, n) /\ z = P!Repeat(c, k)
  OBVIOUS
<1>3. /\ x \in Seq(Char) /\ Len(x) = m /\ y \in Seq(Char) /\ Len(y) = n
      /\ z \in Seq(Char) /\ Len(z) = m + n
  <2>1. x \in Seq(Char) /\ Len(x) = m
    BY <1>2, RepeatIs
  <2>2. y \in Seq(Char) /\ Len(y) = n
    BY <1>2, RepeatIs
  <2>3. z \in Seq(Char) /\ Len(z) = k
    BY <1>1, <1>2, RepeatIs
  <2> QED
    BY <2>1, <2>2, <2>3 DEF k
<1>4. /\ \A i \in 1..m : x[i] = c
      /\ \A i \in 1..n : y[i] = c
      /\ \A i \in 1..(m + n) : z[i] = c
  <2>1. \A i \in 1..Len(z) : z[i] = c
    BY <1>1, <1>2, RepeatAt
  <2>2. (\A i \in 1..Len(x) : x[i] = c) /\ (\A i \in 1..Len(y) : y[i] = c)
    BY <1>2, RepeatAt
  <2> QED
    BY <1>3, <2>1, <2>2
<1>5. PICK u : u = x \o y
  OBVIOUS
<1>6. /\ u \in Seq(Char) /\ Len(u) = m + n
      /\ \A i \in 1..(m + n) : u[i] = IF i <= m THEN x[i] ELSE y[i - m]
  BY <1>3, <1>5, Joined
<1>7. \A i \in 1..(m + n) : u[i] = z[i]
  <2>1. ASSUME NEW i \in 1..(m + n)
        PROVE  u[i] = c
    <3>1. CASE i <= m
      BY <1>4, <1>6, <3>1
    <3>2. CASE ~(i <= m)
      <4>1. i - m \in 1..n
        BY <3>2
      <4> QED
        BY <1>4, <1>6, <3>2, <4>1
    <3> QED
      BY <3>1, <3>2
  <2> QED
    BY <1>4, <2>1
<1>8. u = z
  BY <1>3, <1>6, <1>7, SameText
<1> QED
  BY <1>2, <1>5, <1>8 DEF k

(* The mirror image, place by place, and of texts put together.            *)
LEMMA ReversedAt ==
  ASSUME NEW s \in Seq(Char)
  PROVE  /\ P!Reversed(s) \in Seq(Char) /\ Len(P!Reversed(s)) = Len(s)
         /\ \A i \in 1..Len(s) : P!Reversed(s)[i] = s[Len(s) + 1 - i]
<1>1. P!Reversed(s) \in Seq(Char)
  BY ReversedIs
<1>2. Len(s) \in Nat /\ DOMAIN P!Reversed(s) = 1..Len(s)
  BY DEF P!Reversed
<1>3. Len(P!Reversed(s)) = Len(s)
  BY <1>1, <1>2, LenProperties
<1> QED
  BY <1>1, <1>3 DEF P!Reversed

LEMMA ReversedConcat ==
  ASSUME NEW s \in Seq(Char), NEW t \in Seq(Char)
  PROVE  P!Reversed(s \o t) = P!Reversed(t) \o P!Reversed(s)
<1>1. PICK st, r, x, y, z : /\ st = s \o t /\ r = P!Reversed(st)
                        /\ x = P!Reversed(t) /\ y = P!Reversed(s) /\ z = x \o y
  OBVIOUS
<1>2. PICK m \in Nat, n \in Nat : m = Len(s) /\ n = Len(t)
  OBVIOUS
<1>3. /\ st \in Seq(Char) /\ Len(st) = m + n
      /\ \A i \in 1..(m + n) : st[i] = IF i <= m THEN s[i] ELSE t[i - m]
  BY <1>1, <1>2, Joined
<1>4. /\ r \in Seq(Char) /\ Len(r) = m + n
      /\ \A i \in 1..(m + n) : r[i] = st[m + n + 1 - i]
  <2>1. /\ r \in Seq(Char) /\ Len(r) = Len(st)
        /\ \A i \in 1..Len(st) : r[i] = st[Len(st) + 1 - i]
    BY <1>1, <1>3, ReversedAt
  <2> QED
    BY <1>3, <2>1
<1>5. /\ x \in Seq(Char) /\ Len(x) = n /\ \A i \in 1..n : x[i] = t[n + 1 - i]
      /\ y \in Seq(Char) /\ Len(y) = m /\ \A i \in 1..m : y[i] = s[m + 1 - i]
  BY <1>1, <1>2, ReversedAt
<1>6. /\ z \in Seq(Char) /\ Len(z) = m + n
      /\ \A i \in 1..(n + m) : z[i] = IF i <= n THEN x[i] ELSE y[i - n]
  <2>1. /\ z \in Seq(Char) /\ Len(z) = Len(x) + Len(y)
        /\ \A i \in 1..(Len(x) + Len(y)) : z[i] = IF i <= Len(x) THEN x[i] ELSE y[i - Len(x)]
    <3>1. x \in Seq(Char) /\ y \in Seq(Char) /\ z = x \o y
      BY <1>1, <1>5
    <3> QED
      BY <3>1, Joined
  <2> QED
    BY <1>5, <2>1
<1>7. ASSUME NEW i \in 1..(m + n)
      PROVE  r[i] = z[i]
  <2>1. PICK j \in 1..(m + n) : j = m + n + 1 - i
    OBVIOUS
  <2>2. r[i] = st[j]
    BY <1>4, <2>1
  <2>3. CASE i <= n
    <3>1. ~(j <= m) /\ j - m = n + 1 - i /\ i \in 1..n /\ i \in 1..(n + m)
      BY <2>1, <2>3
    <3> QED
      BY <1>3, <1>5, <1>6, <2>2, <2>3, <3>1
  <2>4. CASE ~(i <= n)
    <3>1. PICK h \in 1..m : h = i - n
      BY <2>4
    <3>2. j <= m /\ j = m + 1 - h /\ i \in 1..(n + m)
      BY <2>1, <3>1
    <3>3. z[i] = y[h] /\ y[h] = s[j]
      BY <1>5, <1>6, <2>4, <3>1, <3>2
    <3> QED
      BY <1>3, <2>2, <3>2, <3>3
  <2> QED
    BY <2>3, <2>4
<1>8. r = z
  BY <1>4, <1>6, <1>7, SameText
<1> QED
  BY <1>1, <1>8

LEMMA ReversedRepeat ==
  ASSUME NEW c \in Char, NEW n \in Int
  PROVE  P!Reversed(P!Repeat(c, n)) = P!Repeat(c, n)
<1>1. PICK x, r : x = P!Repeat(c, n) /\ r = P!Reversed(x)
  OBVIOUS
<1>2. x \in Seq(Char) /\ Len(x) \in Nat /\ \A i \in 1..Len(x) : x[i] = c
  BY <1>1, RepeatIs, RepeatAt
<1>3. /\ r \in Seq(Char) /\ Len(r) = Len(x)
      /\ \A i \in 1..Len(x) : r[i] = x[Len(x) + 1 - i]
  BY <1>1, <1>2, ReversedAt
<1>4. \A i \in 1..Len(x) : Len(x) + 1 - i \in 1..Len(x)
  BY <1>2
<1>5. \A i \in 1..Len(r) : r[i] = x[i]
  BY <1>2, <1>3, <1>4
<1>6. r = x
  BY <1>2, <1>3, <1>5, SameText
<1> QED
  BY <1>1, <1>6

LEMMA ReversedOne ==
  ASSUME NEW c \in Char
  PROVE  P!Reversed(<<c>>) = <<c>>
BY RepeatOnce, ReversedRepeat

LEMMA ReversedNone == P!Reversed(<<>>) = <<>>
BY DEF P!Reversed

LEMMA ReversedTwice ==
  ASSUME NEW s \in Seq(Char)
  PROVE  P!Reversed(P!Reversed(s)) = s
<1>1. PICK r, x : r = P!Reversed(s) /\ x = P!Reversed(r)
  OBVIOUS
<1>2. /\ r \in Seq(Char) /\ Len(r) = Len(s) /\ Len(s) \in Nat
      /\ \A i \in 1..Len(s) : r[i] = s[Len(s) + 1 - i]
  BY <1>1, ReversedAt
<1>3. /\ x \in Seq(Char) /\ Len(x) = Len(s)
      /\ \A i \in 1..Len(s) : x[i] = r[Len(s) + 1 - i]
  BY <1>1, <1>2, ReversedAt
<1>4. \A i \in 1..Len(s) : Len(s) + 1 - i \in 1..Len(s) /\ Len(s) + 1 - (Len(s) + 1 - i) = i
  BY <1>2
<1>5. \A i \in 1..Len(x) : x[i] = s[i]
  BY <1>2, <1>3, <1>4
<1>6. x = s
  BY <1>3, <1>5, SameText
<1> QED
  BY <1>1, <1>6

-----------------------------------------------------------------------------
(* The steps of _ntoa_format, where the buffer is long enough.             *)

(* What fits the buffer is not cut.                                        *)
LEMMA Fitting ==
  ASSUME NEW s \in Seq(Char), NEW t \in Seq(Char), Len(s) + Len(t) <= NtoaBufferSize
  PROVE  P!AppendFitting(s, t) = s \o t
<1>1. PICK u, n : u = s \o t /\ n = P!Bound(Len(s) + Len(t))
  OBVIOUS
<1>2. u \in Seq(Char) /\ Len(u) = Len(s) + Len(t) /\ Len(u) \in Nat
  BY <1>1, Joined
<1>3. n = Len(u)
  BY <1>1, <1>2, PrintfConstants DEF P!Bound, P!Constants
<1>4. SubSeq(u, 1, n) = u
  BY <1>2, <1>3, SubSeqFull
<1> QED
  BY <1>1, <1>4 DEF P!AppendFitting

Zeros(n) == P!Repeat(0, n)

(* Zeros: their number, their mirror image, and how they add up.           *)
LEMMA ZerosAre ==
  ASSUME NEW n \in Int
  PROVE  /\ Zeros(n) \in Seq(Char) /\ Len(Zeros(n)) = IF n > 0 THEN n ELSE 0
         /\ n <= 0 => Zeros(n) = <<>>
         /\ P!Reversed(Zeros(n)) = Zeros(n)
<1>1. 0 \in Char
  BY DEF Char
<1> QED
  BY <1>1, RepeatIs, RepeatNone, ReversedRepeat DEF Zeros

LEMMA ZerosSplit ==
  ASSUME NEW m \in Nat, NEW n \in Nat
  PROVE  Zeros(m) \o Zeros(n) = Zeros(m + n)
<1>1. 0 \in Char
  BY DEF Char
<1> QED
  BY <1>1, RepeatSplit DEF Zeros

LEMMA ZerosOne == Zeros(1) = <<0>>
<1>1. 0 \in Char
  BY DEF Char
<1> QED
  BY <1>1, RepeatOnce DEF Zeros

(* Padding k characters to two lengths pads them to the longer one.        *)
Missing(m, n, k) == IF m > k \/ n > k THEN (IF m > n THEN m ELSE n) - k ELSE 0

LEMMA PaddedTwice ==
  ASSUME NEW s \in Seq(Char), NEW m \in Int, NEW n \in Int
  PROVE  P!PadTo(P!PadTo(s, m, 0), n, 0) = s \o Zeros(Missing(m, n, Len(s)))
<1>1. PICK k \in Nat : k = Len(s)
  OBVIOUS
<1>2. PICK i : i \in Nat /\ i = IF m > k THEN m - k ELSE 0
  <2> DEFINE x == IF m > k THEN m - k ELSE 0
  <2>1. x \in Nat
    OBVIOUS
  <2> QED
    BY <2>1
<1>3. PICK j : j \in Nat /\ j = IF n > k + i THEN n - (k + i) ELSE 0
  <2> DEFINE x == IF n > k + i THEN n - (k + i) ELSE 0
  <2>1. x \in Nat
    BY <1>2
  <2> QED
    BY <2>1
<1>4. Zeros(m - k) = Zeros(i)
  BY <1>1, <1>2, ZerosAre
<1>5. PICK t : t = s \o Zeros(i)
  OBVIOUS
<1>6. P!PadTo(s, m, 0) = t
  BY <1>1, <1>4, <1>5 DEF P!PadTo, Zeros
<1>7. t \in Seq(Char) /\ Len(t) = k + i /\ Zeros(i) \in Seq(Char) /\ Zeros(j) \in Seq(Char)
  <2>1. i \in Nat /\ j \in Nat
    BY <1>2, <1>3
  <2>2. Zeros(i) \in Seq(Char) /\ Len(Zeros(i)) = i
    BY <2>1, ZerosAre
  <2>3. Zeros(j) \in Seq(Char)
    BY <2>1, ZerosAre
  <2>4. s \o Zeros(i) \in Seq(Char) /\ Len(s \o Zeros(i)) = Len(s) + Len(Zeros(i))
    BY <2>2, Joined
  <2> QED
    BY <1>1, <1>5, <2>2, <2>3, <2>4
<1>8. Zeros(n - (k + i)) = Zeros(j)
  <2>1. PICK x : x \in Int /\ x = n - (k + i)
    BY <1>2
  <2>2. Zeros(x) = Zeros(j)
    <3>1. CASE x <= 0
      <4>1. Zeros(x) = <<>> /\ j = 0
        BY <1>2, <1>3, <2>1, <3>1, ZerosAre
      <4>2. j \in Int /\ j <= 0
        BY <4>1
      <4> QED
        BY <4>1, <4>2, ZerosAre
    <3>2. CASE ~(x <= 0)
      BY <1>2, <1>3, <2>1, <3>2
    <3> QED
      BY <3>1, <3>2
  <2> QED
    BY <2>1, <2>2
<1>9. P!PadTo(t, n, 0) = t \o Zeros(j)
  BY <1>7, <1>8 DEF P!PadTo, Zeros
<1>10. t \o Zeros(j) = s \o (Zeros(i) \o Zeros(j))
  BY <1>5, <1>7, JoinedAgain
<1>11. Zeros(i) \o Zeros(j) = Zeros(i + j)
  BY <1>2, <1>3, ZerosSplit
<1>12. i + j = Missing(m, n, Len(s))
  <2>1. PICK z : z = Missing(m, n, k)
    OBVIOUS
  <2>2. z = IF m > k \/ n > k THEN (IF m > n THEN m ELSE n) - k ELSE 0
    BY <2>1 DEF Missing
  <2>3. CASE m > k
    BY <1>2, <1>3, <1>1, <2>2, <2>1, <2>3
  <2>4. CASE ~(m > k)
    BY <1>2, <1>3, <1>1, <2>2, <2>1, <2>4
  <2> QED
    BY <2>3, <2>4
<1> QED
  BY <1>6, <1>9, <1>10, <1>11, <1>12

(* `#` takes zeros away.                                                   *)
LEMMA CutZeros ==
  ASSUME NEW s \in Seq(Char), NEW m \in Nat, NEW n \in Nat, m <= n
  PROVE  SubSeq(s \o Zeros(n), 1, Len(s) + m) = s \o Zeros(m)
<1>1. PICK i \in Nat : i = n - m /\ m + i = n
  OBVIOUS
<1>2. /\ Zeros(n) \in Seq(Char) /\ Len(Zeros(n)) = n
      /\ Zeros(m) \in Seq(Char) /\ Len(Zeros(m)) = m
      /\ Zeros(i) \in Seq(Char) /\ Len(Zeros(i)) = i
  BY ZerosAre
<1>3. PICK u, v, w : u = s \o Zeros(m) /\ v = Zeros(i) /\ w = u \o v
  OBVIOUS
<1>4. u \in Seq(Char) /\ Len(u) = Len(s) + m /\ Len(u) \in Nat
  BY <1>2, <1>3, Joined
<1>5. w = s \o Zeros(n)
  <2>1. w = s \o (Zeros(m) \o Zeros(i))
    BY <1>2, <1>3, JoinedAgain
  <2>2. Zeros(m) \o Zeros(i) = Zeros(n)
    BY <1>1, ZerosSplit
  <2> QED
    BY <2>1, <2>2
<1>6. w \in Seq(Char) /\ Len(w) = Len(u) + i /\ \A j \in 1..Len(u) : w[j] = u[j]
  <2>1. /\ w \in Seq(Char) /\ Len(w) = Len(u) + i
        /\ \A j \in 1..(Len(u) + i) : w[j] = IF j <= Len(u) THEN u[j] ELSE v[j - Len(u)]
    <3>1. v \in Seq(Char) /\ Len(v) = i
      BY <1>2, <1>3
    <3>2. /\ w \in Seq(Char) /\ Len(w) = Len(u) + Len(v)
          /\ \A j \in 1..(Len(u) + Len(v)) : w[j] = IF j <= Len(u) THEN u[j] ELSE v[j - Len(u)]
      BY <1>3, <1>4, <3>1, Joined
    <3> QED
      BY <3>1, <3>2
  <2> QED
    BY <1>4, <2>1
<1>7. PICK c : c = SubSeq(w, 1, Len(u))
  OBVIOUS
<1>8. c \in Seq(Char) /\ Len(c) = Len(u)
  BY <1>4, <1>6, <1>7, CutIs
<1>9. \A j \in 1..Len(c) : c[j] = u[j]
  BY <1>4, <1>6, <1>7, <1>8
<1>10. c = u
  BY <1>4, <1>8, <1>9, SameText
<1> QED
  BY <1>3, <1>4, <1>5, <1>7, <1>10

-----------------------------------------------------------------------------
(* The invariant of printf.                                                *)

Converting == {"digits", "number", "out"}

PrintfInv ==
  ppc # "typed" =>
    /\ P!TypeOK
    /\ call \in Calls
    /\ fmt \in Seq(P!Directive)
    /\ ppc \in Converting => fmt # <<>> /\ Head(fmt).conv \in P!Integer
    /\ ppc = "digits" => Len(buf) < NtoaBufferSize
    /\ P!WritesWithinCount

LEMMA CallIs ==
  ASSUME call \in Calls
  PROVE  /\ call.maxlen \in Nat /\ call.sink \in {"buffer", "console", "null"}
         /\ call.format \in Seq(P!Directive)
BY PrintfConstants DEF P!Constants

LEMMA DirectiveIs ==
  ASSUME NEW e \in P!Directive
  PROVE  /\ e.width \in Int /\ e.prec \in Int
         /\ e.conv = "text" => e.arg \in Shown
         /\ e.conv = "c" => e.arg \in Char
         /\ e.conv = "s" => e.arg \in Seq(Shown)
         /\ e.conv \in P!Integer => e.arg \in Int /\ e.length \in DOMAIN Wrap
<1>1. CASE e \in P!Directives({"text"}, Shown)
  BY <1>1 DEF P!Directives, P!Integer, P!NoPrec, P!NegPrec
<1>2. CASE e \in P!Directives({"c"}, Char)
  BY <1>2 DEF P!Directives, P!Integer, P!NoPrec, P!NegPrec
<1>3. CASE e \in P!Directives({"s"}, Seq(Shown))
  BY <1>3 DEF P!Directives, P!Integer, P!NoPrec, P!NegPrec
<1>4. CASE e \in P!Directives(P!Integer, Int)
  BY <1>4 DEF P!Directives, P!Integer, P!NoPrec, P!NegPrec
<1> QED
  BY <1>1, <1>2, <1>3, <1>4 DEF P!Directive, Char, Shown

(* A precision that is none, or negative, counts as 0.                     *)
LEMMA PrecisionIs ==
  ASSUME NEW e \in P!Directive
  PROVE  /\ e.prec \in Int /\ e.prec >= -2
         /\ P!Precision(e) \in Nat
         /\ P!Precision(e) = IF e.prec > 0 THEN e.prec ELSE 0
<1>1. e.prec \in Nat \cup {P!NoPrec, P!NegPrec}
  BY DEF P!Directive, P!Directives
<1>2. e.prec \in Int /\ e.prec >= -2
  BY <1>1 DEF P!NoPrec, P!NegPrec
<1> QED
  BY <1>2 DEF P!Precision

(* What is left of the format.                                             *)
LEMMA TailIs ==
  ASSUME fmt \in Seq(P!Directive), fmt # <<>>
  PROVE  /\ P!d \in P!Directive /\ P!d = Head(fmt)
         /\ Tail(fmt) \in Seq(P!Directive)
BY HeadTailProperties DEF P!d

(* Characters go to the places below maxlen of the buffer, and nowhere     *)
(* else.                                                                   *)
LEMMA OutAtIs ==
  ASSUME P!TypeOK, call \in Calls, P!WritesWithinCount, call' = call,
         NEW text \in Seq(Char), NEW at \in Int, P!OutAt(text, at)
  PROVE  /\ memory' \in [0..(Memory - 1) -> -5..35]
         /\ console' \in Seq(Shown)
         /\ \A i \in DOMAIN memory' :
              i >= call'.maxlen \/ call'.sink # "buffer" => memory'[i] = P!Untouched
         /\ call.sink = "buffer" =>
              \A i \in DOMAIN memory' :
                i < call.maxlen /\ i - at \in 0..(Len(text) - 1) => memory'[i] = text[i - at + 1]
<1>1. /\ memory \in [0..(Memory - 1) -> -5..35] /\ console \in Seq(Shown)
      /\ \A i \in DOMAIN memory :
           i >= call.maxlen \/ call.sink # "buffer" => memory[i] = P!Untouched
  BY DEF P!TypeOK, P!WritesWithinCount, Shown
<1>2. CASE call.sink = "buffer"
  <2>1. /\ console' = console
        /\ memory' = [i \in DOMAIN memory |->
             IF i < call.maxlen /\ i - at \in 0..(Len(text) - 1)
               THEN text[i - at + 1] ELSE memory[i]]
    BY <1>2 DEF P!OutAt, P!Store
  <2>2. DOMAIN memory = 0..(Memory - 1) /\ DOMAIN memory' = 0..(Memory - 1)
    BY <1>1, <2>1
  <2>3. ASSUME NEW i \in 0..(Memory - 1)
        PROVE  memory'[i] \in -5..35
    <3>1. CASE i < call.maxlen /\ i - at \in 0..(Len(text) - 1)
      <4>1. i - at + 1 \in 1..Len(text)
        BY <3>1
      <4>2. PICK j \in 1..Len(text) : j = i - at + 1
        BY <4>1
      <4>3. text[j] \in Char
        BY ElementOfSeq
      <4>4. memory'[i] = text[j]
        BY <2>1, <2>2, <3>1, <4>2
      <4> QED
        BY <4>3, <4>4 DEF Char
    <3>2. CASE ~(i < call.maxlen /\ i - at \in 0..(Len(text) - 1))
      BY <1>1, <2>1, <2>2, <3>2
    <3> QED
      BY <3>1, <3>2
  <2>4. \A i \in DOMAIN memory' : i >= call.maxlen => memory'[i] = P!Untouched
    BY <1>1, <2>1, <2>2, CallIs, PrintfConstants DEF P!Constants
  <2>5. \A i \in DOMAIN memory' :
          i < call.maxlen /\ i - at \in 0..(Len(text) - 1) => memory'[i] = text[i - at + 1]
    BY <2>1, <2>2
  <2>6. memory' \in [0..(Memory - 1) -> -5..35]
    BY <2>1, <2>2, <2>3
  <2> QED
    BY <1>1, <1>2, <2>1, <2>4, <2>5, <2>6
<1>3. CASE call.sink = "console"
  <2>1. console' = console \o P!Visible(text) /\ memory' = memory
    BY <1>3 DEF P!OutAt
  <2>2. console' \in Seq(Shown)
    BY <1>1, <2>1, VisibleIs, ConcatProperties
  <2> QED
    BY <1>1, <1>3, <2>1, <2>2
<1>4. CASE call.sink = "null"
  BY <1>1, <1>4 DEF P!OutAt
<1> QED
  BY <1>2, <1>3, <1>4, CallIs

(* One directive has been printed.                                         *)
LEMMA Printed ==
  ASSUME PrintfInv, ppc # "typed", fmt # <<>>,
         NEW text \in Seq(Char), P!Out(text),
         fmt' = Tail(fmt), call' = call, P!number' = P!number, ppc' = "format"
  PROVE  PrintfInv'
<1>1. /\ P!TypeOK /\ call \in Calls /\ fmt \in Seq(P!Directive) /\ P!WritesWithinCount
  BY DEF PrintfInv
<1>2. P!OutAt(text, idx) /\ idx' = idx + Len(text) /\ idx \in Nat
  BY <1>1 DEF P!Out, P!TypeOK
<1>3. /\ memory' \in [0..(Memory - 1) -> -5..35]
      /\ console' \in Seq(Shown)
      /\ \A i \in DOMAIN memory' :
           i >= call'.maxlen \/ call'.sink # "buffer" => memory'[i] = P!Untouched
  BY <1>1, <1>2, OutAtIs
<1>4. UNCHANGED <<flags, value, negative, buf>>
  BY DEF P!number
<1>5. P!TypeOK'
  BY <1>1, <1>2, <1>3, <1>4 DEF P!TypeOK, Shown
<1>6. P!WritesWithinCount'
  BY <1>3 DEF P!WritesWithinCount
<1>7. fmt' \in Seq(P!Directive)
  BY <1>1, TailIs
<1> QED
  BY <1>1, <1>5, <1>6, <1>7 DEF PrintfInv, Converting

LEMMA OutTextInv ==
  ASSUME PrintfInv, P!OutText
  PROVE  PrintfInv'
<1>1. /\ ppc = "format" /\ ppc' = "format" /\ fmt # <<>> /\ P!d.conv = "text"
      /\ P!Out(<<P!d.arg>>) /\ fmt' = Tail(fmt) /\ call' = call /\ P!number' = P!number
  BY DEF P!OutText, P!IsNext
<1>2. P!d \in P!Directive
  BY <1>1, TailIs DEF PrintfInv
<1>3. <<P!d.arg>> \in Seq(Char)
  <2>1. PICK e : e = P!d
    OBVIOUS
  <2>2. e.arg \in Shown
    BY <1>1, <1>2, <2>1, DirectiveIs
  <2>3. e.arg \in Char
    BY <2>2 DEF Char, Shown
  <2> QED
    BY <2>1, <2>3
<1> QED
  BY <1>1, <1>3, Printed

LEMMA OutCharOrStringInv ==
  ASSUME PrintfInv, P!OutCharOrString
  PROVE  PrintfInv'
<1>1. /\ ppc = "format" /\ ppc' = "format" /\ fmt # <<>> /\ P!d.conv \in {"c", "s"}
      /\ fmt' = Tail(fmt) /\ call' = call /\ P!number' = P!number
  BY DEF P!OutCharOrString, P!IsNext
<1>2. PICK e : e = P!d
  OBVIOUS
<1>3. PICK text : text = IF e.conv = "c" THEN <<e.arg>>
                         ELSE IF e.prec # P!NoPrec /\ P!Precision(e) < Len(e.arg)
                                THEN SubSeq(e.arg, 1, P!Precision(e))
                         ELSE e.arg
  OBVIOUS
<1>4. P!Out(P!Field(text, e))
  BY <1>2, <1>3 DEF P!OutCharOrString
<1>5. e \in P!Directive
  BY <1>1, <1>2, TailIs DEF PrintfInv
<1>6. text \in Seq(Char)
  <2>1. CASE e.conv = "c"
    <3>1. e.arg \in Char
      BY <1>5, <2>1, DirectiveIs
    <3> QED
      BY <1>3, <2>1, <3>1
  <2>2. CASE e.conv = "s"
    <3>1. e.arg \in Seq(Shown) /\ P!Precision(e) \in Int
      BY <1>5, <2>2, DirectiveIs, PrecisionIs
    <3>2. e.arg \in Seq(Char)
      <4>1. Shown \subseteq Char
        BY DEF Shown, Char
      <4> QED
        BY <3>1, <4>1, SeqMonotonic
    <3>3. P!Precision(e) < Len(e.arg) => SubSeq(e.arg, 1, P!Precision(e)) \in Seq(Char)
      BY <3>1, <3>2, CutIs
    <3> QED
      BY <1>3, <2>2, <3>2, <3>3
  <2> QED
    BY <1>1, <1>2, <2>1, <2>2
<1>7. PICK field : field = P!Field(text, e)
  OBVIOUS
<1>8. field \in Seq(Char)
  BY <1>5, <1>6, <1>7, DirectiveIs, FieldIs
<1> QED
  BY <1>1, <1>4, <1>7, <1>8, Printed

-----------------------------------------------------------------------------
(* Integers.                                                               *)

LEMMA ArgumentIs ==
  ASSUME NEW e \in P!Directive, e.conv \in P!Integer
  PROVE  P!Argument(e) \in Int
<1>1. /\ e.arg \in Int /\ Wrap[e.length] \in Nat /\ Wrap[e.length] > 1
  BY DirectiveIs, PrintfConstants DEF P!Constants
<1>2. P!Unsigned(e) \in Int
  BY <1>1 DEF P!Unsigned
<1> QED
  BY <1>1, <1>2 DEF P!Argument, P!Signed

LEMMA BaseIs ==
  ASSUME NEW e
  PROVE  P!Base(e) \in {2, 8, 10, 16}
BY DEF P!Base

(* What the three steps of a number leave alone.                           *)
LEMMA NumberStep ==
  ASSUME PrintfInv, ppc \in {"format", "digits", "number"}, fmt # <<>>,
         Head(fmt).conv \in P!Integer,
         UNCHANGED <<call, fmt, idx, memory, console>>,
         ppc' \in Converting, value' \in Nat, negative' \in BOOLEAN,
         buf' \in Seq(Char), Len(buf') <= NtoaBufferSize,
         ppc' = "digits" => Len(buf') < NtoaBufferSize
  PROVE  PrintfInv'
<1>1. /\ P!TypeOK /\ call \in Calls /\ fmt \in Seq(P!Directive) /\ P!WritesWithinCount
  BY DEF PrintfInv
<1>2. P!TypeOK'
  BY <1>1 DEF P!TypeOK, Char, Converting
<1>3. P!WritesWithinCount'
  BY <1>1 DEF P!WritesWithinCount, Converting
<1> QED
  BY <1>1, <1>2, <1>3 DEF PrintfInv

LEMMA StartNumberInv ==
  ASSUME PrintfInv, P!StartNumber
  PROVE  PrintfInv'
<1>1. /\ ppc = "format" /\ fmt # <<>> /\ P!d.conv \in P!Integer
      /\ UNCHANGED <<call, fmt, idx, memory, console>>
      /\ ppc' \in {"number", "digits"} /\ buf' = <<>>
  BY DEF P!StartNumber, P!IsNext
<1>2. PICK e, n : e = P!d /\ n = P!Argument(e)
  OBVIOUS
<1>3. e \in P!Directive /\ e = Head(fmt)
  BY <1>1, <1>2, TailIs DEF PrintfInv
<1>4. n \in Int
  BY <1>1, <1>2, <1>3, ArgumentIs
<1>5. value' = (IF n < 0 THEN -n ELSE n) /\ negative' = (n < 0)
  BY <1>2 DEF P!StartNumber
<1>6. value' \in Nat
  BY <1>4, <1>5
<1>7. negative' \in BOOLEAN
  BY <1>5
<1>8. buf' \in Seq(Char) /\ Len(buf') <= NtoaBufferSize /\ Len(buf') < NtoaBufferSize
  BY <1>1, PrintfConstants DEF P!Constants
<1> QED
  BY <1>1, <1>2, <1>3, <1>6, <1>7, <1>8, NumberStep DEF Converting

(* The loop stops when buf is full.                                        *)
LEMMA NextDigitInv ==
  ASSUME PrintfInv, P!NextDigit
  PROVE  PrintfInv'
<1>1. PICK base, digit : base = P!Base(P!d) /\ digit = value % base
  OBVIOUS
<1>2. base \in {2, 8, 10, 16}
  BY <1>1, BaseIs
<1>3. /\ ppc = "digits" /\ UNCHANGED <<call, fmt, idx, memory, console, negative>>
      /\ buf' = Append(buf, digit) /\ value' = value \div base
      /\ ppc' \in {"number", "digits"}
      /\ ppc' = "digits" => Len(buf') < NtoaBufferSize
  BY <1>1 DEF P!NextDigit
<1>4. /\ value \in Nat /\ negative \in BOOLEAN
      /\ buf \in Seq(Char) /\ fmt # <<>> /\ Head(fmt).conv \in P!Integer
  BY <1>3 DEF PrintfInv, P!TypeOK, Char, Converting
<1>5. Len(buf) < NtoaBufferSize
  BY <1>3 DEF PrintfInv
<1>6. value' \in Nat /\ digit \in Char
  <2>1. PICK v : v = value
    OBVIOUS
  <2>2. v \div base \in Nat /\ v % base \in 0..(base - 1)
    BY <1>2, <1>4, <2>1
  <2>3. v % base \in Char
    BY <1>2, <2>2 DEF Char
  <2> QED
    BY <1>1, <1>3, <2>1, <2>2, <2>3
<1>7. buf' \in Seq(Char) /\ Len(buf') <= NtoaBufferSize
  BY <1>3, <1>4, <1>5, <1>6, PrintfConstants DEF P!Constants
<1> QED
  BY <1>3, <1>4, <1>6, <1>7, NumberStep DEF Converting

LEMMA WithZerosIs ==
  ASSUME NEW s \in Seq(Char), Len(s) <= NtoaBufferSize,
         P!d.prec \in Int, P!d.width \in Int
  PROVE  P!WithZeros(s) \in Seq(Char) /\ Len(P!WithZeros(s)) <= NtoaBufferSize
<1>1. PICK m : m = P!Bound(P!Precision(P!d))
  OBVIOUS
<1>2. PICK n : n = IF "zeropad" \in flags THEN P!Bound(P!ZeroWidth) ELSE 0
  OBVIOUS
<1>3. m \in Int /\ m <= NtoaBufferSize
  <2>1. P!Precision(P!d) \in Int
    BY DEF P!Precision
  <2> QED
    BY <1>1, <2>1, BoundIs
<1>4. n \in Int /\ n <= NtoaBufferSize
  <2>1. P!ZeroWidth \in Int
    BY DEF P!ZeroWidth, P!Width
  <2> QED
    BY <1>2, <2>1, BoundIs, PrintfConstants DEF P!Constants
<1>5. PICK z : z = P!PadTo(s, m, 0)
  OBVIOUS
<1>6. z \in Seq(Char) /\ Len(z) <= NtoaBufferSize
  BY <1>3, <1>5, PadToIs
<1>7. P!PadTo(z, n, 0) \in Seq(Char) /\ Len(P!PadTo(z, n, 0)) <= NtoaBufferSize
  BY <1>4, <1>6, PadToIs
<1>8. P!WithZeros(s) = IF "left" \in flags THEN s ELSE P!PadTo(z, n, 0)
  BY <1>1, <1>2, <1>5 DEF P!WithZeros
<1> QED
  BY <1>7, <1>8

LEMMA WithPrefixIs ==
  ASSUME NEW s \in Seq(Char)
  PROVE  P!WithPrefix(s) \in Seq(Char)
<1>1. PICK base : base = P!Base(P!d)
  OBVIOUS
<1>2. PICK letter : letter = CASE base = 16 -> <<33>> [] base = 2 -> <<11>> [] OTHER -> <<>>
  OBVIOUS
<1>3. PICK cut : cut = IF P!d.prec = P!NoPrec /\ Len(s) = P!Width(P!d)
                         THEN SubSeq(s, 1, Len(s) - (IF base = 16 THEN 2 ELSE 1))
                         ELSE s
  OBVIOUS
<1>4. cut \in Seq(Char)
  <2>1. Len(s) - 1 \in Int /\ Len(s) - 2 \in Int /\ Len(s) - 1 <= Len(s) /\ Len(s) - 2 <= Len(s)
    OBVIOUS
  <2>2. SubSeq(s, 1, Len(s) - 1) \in Seq(Char) /\ SubSeq(s, 1, Len(s) - 2) \in Seq(Char)
    BY <2>1, CutIs
  <2> QED
    BY <1>3, <2>2
<1>5. letter \o <<0>> \in Seq(Char)
  <2>1. 33 \in Char /\ 11 \in Char /\ 0 \in Char
    BY DEF Char
  <2>2. letter \in Seq(Char) /\ <<0>> \in Seq(Char)
    BY <1>2, <2>1
  <2> QED
    BY <2>2, ConcatProperties
<1>6. P!AppendFitting(cut, letter \o <<0>>) \in Seq(Char)
  BY <1>4, <1>5, AppendFittingIs
<1>7. P!WithPrefix(s) = IF "hash" \in flags THEN P!AppendFitting(cut, letter \o <<0>>) ELSE s
  BY <1>1, <1>2, <1>3 DEF P!WithPrefix
<1> QED
  BY <1>6, <1>7

LEMMA SignTextIs ==
  ASSUME negative \in BOOLEAN
  PROVE  P!SignText \in Seq(Char)
<1>1. P!Minus \in Char /\ P!Plus \in Char /\ P!Space \in Char
  BY DEF P!Minus, P!Plus, P!Space, Char
<1>2. /\ <<P!Minus>> \in Seq(Char) /\ <<P!Plus>> \in Seq(Char)
      /\ <<P!Space>> \in Seq(Char) /\ <<>> \in Seq(Char)
  BY <1>1
<1> QED
  BY <1>2 DEF P!SignText

(* The zeros, the prefix and the sign together stay in buf.                *)
LEMMA FormatNumberInv ==
  ASSUME PrintfInv, P!FormatNumber
  PROVE  PrintfInv'
<1>1. /\ ppc = "number" /\ ppc' = "out"
      /\ UNCHANGED <<call, fmt, idx, memory, console, value, negative>>
  BY DEF P!FormatNumber
<1>2. /\ value \in Nat /\ negative \in BOOLEAN
      /\ buf \in Seq(Char) /\ Len(buf) <= NtoaBufferSize
      /\ fmt \in Seq(P!Directive) /\ fmt # <<>> /\ Head(fmt).conv \in P!Integer
  BY <1>1 DEF PrintfInv, P!TypeOK, Char, Converting
<1>3. P!d.prec \in Int /\ P!d.width \in Int
  BY <1>2, TailIs, DirectiveIs
<1>4. PICK s, t, u : /\ s = P!WithZeros(buf) /\ t = P!WithPrefix(s) /\ u = P!SignText
  OBVIOUS
<1>5. s \in Seq(Char)
  BY <1>2, <1>3, <1>4, WithZerosIs
<1>6. t \in Seq(Char)
  BY <1>4, <1>5, WithPrefixIs
<1>7. u \in Seq(Char)
  BY <1>2, <1>4, SignTextIs
<1>8. buf' = P!AppendFitting(t, u)
  BY <1>4 DEF P!FormatNumber
<1>9. buf' \in Seq(Char) /\ Len(buf') <= NtoaBufferSize
  BY <1>6, <1>7, <1>8, AppendFittingIs
<1> QED
  BY <1>1, <1>2, <1>9, NumberStep DEF Converting

LEMMA OutNumberInv ==
  ASSUME PrintfInv, P!OutNumber
  PROVE  PrintfInv'
<1>1. /\ ppc = "out" /\ ppc' = "format" /\ fmt' = Tail(fmt)
      /\ call' = call /\ P!number' = P!number
  BY DEF P!OutNumber
<1>2. buf \in Seq(Char) /\ fmt \in Seq(P!Directive) /\ fmt # <<>>
  BY <1>1 DEF PrintfInv, P!TypeOK, Char, Converting
<1>3. PICK e, s : e = P!d /\ s = P!Reversed(buf)
  OBVIOUS
<1>4. PICK text : text = IF "zeropad" \in flags /\ "left" \notin flags THEN s ELSE P!Field(s, e)
  OBVIOUS
<1>5. P!Out(text)
  BY <1>3, <1>4 DEF P!OutNumber
<1>6. e \in P!Directive
  BY <1>2, <1>3, TailIs
<1>7. s \in Seq(Char)
  BY <1>2, <1>3, ReversedIs
<1>8. text \in Seq(Char)
  BY <1>4, <1>6, <1>7, DirectiveIs, FieldIs
<1> QED
  BY <1>1, <1>2, <1>5, <1>8, Printed

-----------------------------------------------------------------------------
(* The terminator lands within the count.                                  *)
LEMMA TerminateInv ==
  ASSUME PrintfInv, P!Terminate
  PROVE  PrintfInv'
<1>1. /\ ppc = "format" /\ fmt = <<>> /\ ppc' = "done"
      /\ UNCHANGED <<call, fmt, idx, flags, value, negative, buf>>
  BY DEF P!Terminate, P!number
<1>2. /\ P!TypeOK /\ call \in Calls /\ fmt \in Seq(P!Directive) /\ P!WritesWithinCount
  BY <1>1 DEF PrintfInv
<1>3. PICK at, text : /\ at = (IF idx < call.maxlen THEN idx ELSE call.maxlen - 1)
                      /\ text = <<P!NUL>>
  OBVIOUS
<1>4. P!OutAt(text, at)
  BY <1>3 DEF P!Terminate
<1>5. idx \in Nat /\ call.maxlen \in Nat
  BY <1>2, CallIs DEF P!TypeOK
<1>6. at \in Int
  BY <1>3, <1>5
<1>7. text \in Seq(Char) /\ Len(text) = 1 /\ text[1] = P!NUL
  <2>1. P!NUL \in Char
    BY DEF P!NUL, Char
  <2> QED
    BY <1>3, <2>1
<1>8. /\ memory' \in [0..(Memory - 1) -> -5..35]
      /\ console' \in Seq(Shown)
      /\ \A i \in DOMAIN memory' :
           i >= call'.maxlen \/ call'.sink # "buffer" => memory'[i] = P!Untouched
      /\ call.sink = "buffer" =>
           \A i \in DOMAIN memory' :
             i < call.maxlen /\ i - at \in 0..(Len(text) - 1) => memory'[i] = text[i - at + 1]
  BY <1>1, <1>2, <1>4, <1>6, <1>7, OutAtIs
<1>9. call.sink = "buffer" /\ call.maxlen > 0 => (at \in DOMAIN memory' => memory'[at] = P!NUL)
  <2>1. SUFFICES ASSUME call.sink = "buffer", call.maxlen > 0, at \in DOMAIN memory'
                 PROVE  memory'[at] = P!NUL
    OBVIOUS
  <2>2. at < call.maxlen
    BY <1>3, <1>5, <2>1
  <2>3. at - at = 0 /\ at - at + 1 = 1 /\ 0 \in 0..(Len(text) - 1)
    BY <1>6, <1>7
  <2> QED
    BY <1>7, <1>8, <2>1, <2>2, <2>3
<1>10. P!WritesWithinCount'
  BY <1>1, <1>3, <1>8, <1>9 DEF P!WritesWithinCount
<1>11. P!TypeOK'
  BY <1>1, <1>2, <1>8 DEF P!TypeOK, Shown
<1> QED
  BY <1>1, <1>2, <1>10, <1>11 DEF PrintfInv, Converting

LEMMA PrintfInitInv == P!Init => PrintfInv
<1> SUFFICES ASSUME P!Init PROVE PrintfInv
  OBVIOUS
<1>1. call \in Calls /\ call.format \in Seq(P!Directive) /\ fmt = call.format
  BY CallIs DEF P!Init
<1>2. /\ idx = 0 /\ memory = [i \in 0..(Memory - 1) |-> P!Untouched] /\ console = <<>>
      /\ value = 0 /\ negative = FALSE /\ buf = <<>> /\ ppc = "format"
  BY DEF P!Init
<1>3. /\ memory \in [0..(Memory - 1) -> -5..35]
      /\ \A i \in DOMAIN memory : memory[i] = P!Untouched
  BY <1>2 DEF P!Untouched
<1>4. /\ console \in Seq(-3..35)
      /\ buf \in Seq(-4..35) /\ Len(buf) <= NtoaBufferSize
  BY <1>2, PrintfConstants DEF P!Constants
<1>5. P!TypeOK
  BY <1>2, <1>3, <1>4 DEF P!TypeOK
<1>6. P!WritesWithinCount
  BY <1>2, <1>3 DEF P!WritesWithinCount
<1> QED
  BY <1>1, <1>2, <1>5, <1>6 DEF PrintfInv, Converting

LEMMA PrintfStep ==
  ASSUME PrintfInv, P!Next
  PROVE  PrintfInv'
BY OutTextInv, OutCharOrStringInv, StartNumberInv, NextDigitInv, FormatNumberInv,
   OutNumberInv, TerminateInv DEF P!Next

-----------------------------------------------------------------------------
(* The text that ISO C asks for.                                           *)

(* Digits is a text of DigitCount digits.                                  *)
LEMMA DigitsAre ==
  ASSUME NEW n \in Nat, NEW b \in Nat, b >= 2, b <= 36,
         NEW k, k = P!DigitCount(n, b)
  PROVE  /\ k \in Nat \ {0}
         /\ P!Digits(n, b) \in Seq(Char) /\ Len(P!Digits(n, b)) = k
         /\ \A i \in 1..k : P!Digits(n, b)[i] = (n \div P!Power(b, k - i)) % b
<1>1. k \in Nat \ {0}
  BY DigitCountIs DEF IsDigitCount
<1>2. PICK s : s = P!Digits(n, b)
  OBVIOUS
<1>3. s = [i \in 1..k |-> (n \div P!Power(b, k - i)) % b]
  BY <1>2 DEF P!Digits
<1>4. ASSUME NEW i \in 1..k
      PROVE  (n \div P!Power(b, k - i)) % b \in Char
  <2>1. PICK j \in Nat : j = k - i
    BY <1>1
  <2>2. PICK q \in Nat : q = n \div P!Power(b, j)
    BY QuotientStep
  <2>3. q % b \in 0..(b - 1)
    OBVIOUS
  <2>4. q % b \in Char
    BY <2>3 DEF Char
  <2> QED
    BY <2>1, <2>2, <2>4
<1>5. s \in Seq(Char)
  BY <1>1, <1>3, <1>4
<1>6. Len(s) = k
  BY <1>1, <1>3
<1> QED
  BY <1>1, <1>2, <1>3, <1>5, <1>6

(* The number of digits is where the quotients become 0.                   *)
LEMMA CountedDigits ==
  ASSUME NEW n \in Nat, NEW b \in Nat, b >= 2, NEW k \in Nat \ {0},
         P!Power(b, k) > n, k > 1 => P!Power(b, k - 1) <= n
  PROVE  P!DigitCount(n, b) = k
BY DigitCountIs, DigitCountUnique DEF IsDigitCount

(* No number but 0 begins with the digit 0.                                *)
LEMMA FirstDigit ==
  ASSUME NEW n \in Nat, NEW b \in Nat, b >= 2, b <= 36
  PROVE  P!Digits(n, b)[1] = 0 <=> n = 0
<1>1. PICK k : k = P!DigitCount(n, b)
  OBVIOUS
<1>2. k \in Nat \ {0} /\ P!Digits(n, b)[1] = (n \div P!Power(b, k - 1)) % b
  <2>1. /\ k \in Nat \ {0}
        /\ \A i \in 1..k : P!Digits(n, b)[i] = (n \div P!Power(b, k - i)) % b
    BY <1>1, DigitsAre
  <2>2. 1 \in 1..k
    BY <2>1
  <2> QED
    BY <2>1, <2>2
<1>3. PICK j \in Nat : j = k - 1 /\ j + 1 = k
  BY <1>2
<1>4. PICK p : p = P!Power(b, j)
  OBVIOUS
<1>5. p \in Nat \ {0} /\ b * p > n /\ (j > 0 => p <= n)
  <2>1. P!Power(b, k) > n /\ (k > 1 => P!Power(b, k - 1) <= n)
    BY <1>1, DigitCountIs DEF IsDigitCount
  <2>2. P!Power(b, j + 1) = b * P!Power(b, j)
    BY <1>3, PowerSteps
  <2>3. P!Power(b, j) \in Nat /\ P!Power(b, j) > j
    BY PowerIs
  <2> QED
    BY <1>3, <1>4, <2>1, <2>2, <2>3
<1>6. PICK q : q = n \div p
  OBVIOUS
<1>7. q \in Nat /\ (q = 0 <=> p > n)
  BY <1>5, <1>6
<1>8. q \div b = n \div (b * p) /\ n \div (b * p) = 0
  <2>1. (n \div p) \div b = n \div (b * p)
    BY <1>5
  <2>2. PICK c \in Nat : c = b * p
    BY <1>5
  <2>3. n \div c = 0
    BY <1>5, <2>2
  <2> QED
    BY <1>6, <2>1, <2>2, <2>3
<1>9. q % b = q
  BY <1>7, <1>8
<1>10. q = 0 <=> n = 0
  <2>1. CASE j = 0
    <3>1. p = 1
      BY <1>4, <2>1, PowerSteps
    <3> QED
      BY <1>7, <3>1
  <2>2. CASE j > 0
    BY <1>5, <1>7, <2>2
  <2> QED
    BY <1>3, <2>1, <2>2
<1> QED
  BY <1>2, <1>3, <1>4, <1>6, <1>9, <1>10

(* What is converted is a natural number, and 0 for 0 only.                *)
LEMMA MagnitudeIs ==
  ASSUME NEW e \in P!Directive, e.conv \in P!Integer
  PROVE  /\ P!Magnitude(e) \in Nat
         /\ P!Magnitude(e) = 0 <=> P!Argument(e) = 0
         /\ e.conv # "d" => P!Argument(e) >= 0
<1>1. PICK n \in Int : n = P!Argument(e)
  BY ArgumentIs
<1>2. P!Magnitude(e) = IF n < 0 THEN -n ELSE n
  BY <1>1 DEF P!Magnitude
<1>3. e.conv # "d" => n >= 0
  <2>1. PICK a, w : a = e.arg /\ w = Wrap[e.length]
    OBVIOUS
  <2>2. a \in Int /\ w \in Nat /\ w > 1
    BY <2>1, DirectiveIs, PrintfConstants DEF P!Constants
  <2>3. a % w >= 0
    BY <2>2
  <2> QED
    BY <1>1, <2>1, <2>3 DEF P!Argument, P!Unsigned
<1> QED
  BY <1>1, <1>2, <1>3

(* There are no significant digits for 0 with the precision 0 only.        *)
LEMMA SignificantIs ==
  ASSUME NEW e \in P!Directive, e.conv \in P!Integer
  PROVE  /\ P!Significant(e) \in Seq(Char) /\ Len(P!Significant(e)) \in Nat
         /\ P!Significant(e) = <<>> <=> e.prec = 0 /\ P!Argument(e) = 0
         /\ P!Significant(e) # <<>> => (P!Significant(e)[1] = 0 <=> P!Argument(e) = 0)
         /\ P!Argument(e) = 0 /\ e.prec # 0 => P!Significant(e) = <<0>>
<1>1. PICK m, b : m = P!Magnitude(e) /\ b = P!Base(e)
  OBVIOUS
<1>2. m \in Nat /\ (m = 0 <=> P!Argument(e) = 0)
  BY <1>1, MagnitudeIs
<1>3. b \in Nat /\ b >= 2 /\ b <= 36
  <2>1. b \in {2, 8, 10, 16}
    BY <1>1, BaseIs
  <2> QED
    BY <2>1
<1>4. PICK s, k : s = P!Digits(m, b) /\ k = P!DigitCount(m, b)
  OBVIOUS
<1>5. s \in Seq(Char) /\ Len(s) = k /\ k \in Nat \ {0} /\ (s[1] = 0 <=> m = 0)
  BY <1>2, <1>3, <1>4, DigitsAre, FirstDigit
<1>6. s # <<>>
  BY <1>5
<1>7. m = 0 => s = <<0>>
  <2>1. SUFFICES ASSUME m = 0
                 PROVE  s = <<0>>
    OBVIOUS
  <2>2. PICK one : one \in Nat \ {0} /\ one = 1
    OBVIOUS
  <2>3. P!Power(b, one) > m
    BY <1>3, <2>1, <2>2, PowerIs
  <2>4. k = one
    BY <1>2, <1>3, <1>4, <2>2, <2>3, CountedDigits
  <2>5. <<0>> \in Seq(Char) /\ Len(<<0>>) = 1 /\ <<0>>[1] = 0
    BY DEF Char
  <2>6. \A i \in 1..1 : s[i] = <<0>>[i]
    BY <1>5, <2>1, <2>5
  <2> QED
    BY <1>5, <2>2, <2>4, <2>5, <2>6, SameText
<1>8. P!Significant(e) = IF e.prec = 0 /\ P!Argument(e) = 0 THEN <<>> ELSE s
  BY <1>1, <1>4 DEF P!Significant
<1>9. <<>> \in Seq(Char) /\ Len(<<>>) = 0
  OBVIOUS
<1> QED
  BY <1>2, <1>5, <1>6, <1>7, <1>8, <1>9

(* The zeros of a number are those of the field, of the precision and of   *)
(* an octal.                                                               *)
PrecisionZeros(e) ==
  IF e.prec > Len(P!Significant(e)) THEN e.prec - Len(P!Significant(e)) ELSE 0
OctalZero(e) ==
  IF /\ e.conv = "o" /\ "hash" \in e.flags
     /\ e.prec <= Len(P!Significant(e))
     /\ P!Significant(e) = <<>> \/ P!Argument(e) # 0
    THEN 1 ELSE 0
DigitsWidth(e) == OctalZero(e) + PrecisionZeros(e) + Len(P!Significant(e))
FieldZeros(e) ==
  IF /\ "zeropad" \in e.flags /\ ~P!Left(e) /\ e.prec < 0
     /\ P!Width(e) > Len(P!CPrefix(e)) + DigitsWidth(e)
    THEN P!Width(e) - Len(P!CPrefix(e)) - DigitsWidth(e) ELSE 0
CZeros(e) == FieldZeros(e) + (OctalZero(e) + PrecisionZeros(e))

LEMMA ZerosCounted ==
  ASSUME NEW e \in P!Directive, e.conv \in P!Integer
  PROVE  PrecisionZeros(e) \in Nat /\ OctalZero(e) \in {0, 1} /\ DigitsWidth(e) \in Nat
<1>1. PICK k \in Nat : k = Len(P!Significant(e))
  BY SignificantIs
<1>2. e.prec \in Int
  BY DirectiveIs
<1>3. PrecisionZeros(e) \in Nat
  BY <1>1, <1>2 DEF PrecisionZeros
<1>4. OctalZero(e) \in {0, 1}
  BY DEF OctalZero
<1> QED
  BY <1>1, <1>3, <1>4 DEF DigitsWidth

(* CDigits, CPrefix and CNumber as a prefix, zeros and digits.             *)
LEMMA CDigitsForm ==
  ASSUME NEW e \in P!Directive, e.conv \in P!Integer
  PROVE  /\ P!CDigits(e) = Zeros(OctalZero(e) + PrecisionZeros(e)) \o P!Significant(e)
         /\ P!CDigits(e) \in Seq(Char) /\ Len(P!CDigits(e)) = DigitsWidth(e)
<1>1. PICK sig, k, p : /\ sig = P!Significant(e) /\ k = Len(sig) /\ p = PrecisionZeros(e)
  OBVIOUS
<1>2. /\ sig \in Seq(Char) /\ k \in Nat
      /\ sig = <<>> <=> e.prec = 0 /\ P!Argument(e) = 0
      /\ sig # <<>> => (sig[1] = 0 <=> P!Argument(e) = 0)
  BY <1>1, SignificantIs
<1>3. e.prec \in Int /\ p \in Nat /\ p = IF e.prec > k THEN e.prec - k ELSE 0
  BY <1>1, DirectiveIs, ZerosCounted DEF PrecisionZeros
<1>4. Zeros(e.prec - k) = Zeros(p)
  <2>1. PICK x \in Int : x = e.prec - k
    BY <1>2, <1>3
  <2>2. CASE x > 0
    BY <1>2, <1>3, <2>1, <2>2
  <2>3. CASE ~(x > 0)
    <3>1. p \in Int /\ p <= 0 /\ x <= 0
      BY <1>2, <1>3, <2>1, <2>3
    <3>2. Zeros(p) = <<>> /\ Zeros(x) = <<>>
      BY <3>1, ZerosAre
    <3> QED
      BY <2>1, <3>2
  <2> QED
    BY <2>1, <2>2, <2>3
<1>5. PICK zp, s : zp = Zeros(p) /\ s = zp \o sig
  OBVIOUS
<1>6. zp \in Seq(Char) /\ Len(zp) = p /\ (p = 0 => zp = <<>>)
      /\ \A i \in 1..p : zp[i] = 0
  <2>1. p \in Int /\ (p = 0 => p <= 0)
    BY <1>3
  <2>2. zp \in Seq(Char) /\ Len(zp) = IF p > 0 THEN p ELSE 0
    BY <1>5, <2>1, ZerosAre
  <2>3. p = 0 => zp = <<>>
    BY <1>5, <2>1, ZerosAre
  <2>4. \A i \in 1..p : zp[i] = 0
    BY <1>5 DEF Zeros, P!Repeat
  <2> QED
    BY <1>3, <2>2, <2>3, <2>4
<1>7. /\ s \in Seq(Char) /\ Len(s) = p + k
      /\ \A i \in 1..(p + k) : s[i] = IF i <= p THEN zp[i] ELSE sig[i - p]
  BY <1>1, <1>2, <1>5, <1>6, Joined
<1>8. P!CDigits(e) = IF e.conv = "o" /\ "hash" \in e.flags /\ (s = <<>> \/ Head(s) # 0)
                       THEN <<0>> \o s ELSE s
  BY <1>1, <1>4, <1>5 DEF P!CDigits, Zeros
<1>9. (s = <<>> \/ Head(s) # 0) <=> e.prec <= k /\ (sig = <<>> \/ P!Argument(e) # 0)
  <2>1. CASE p > 0
    <3>1. 1 \in 1..(p + k) /\ 1 <= p /\ Len(s) > 0
      BY <1>2, <1>3, <1>7, <2>1
    <3>2. s[1] = 0 /\ s # <<>> /\ Head(s) = s[1]
      BY <1>6, <1>7, <3>1
    <3> QED
      BY <1>2, <1>3, <2>1, <3>2
  <2>2. CASE p = 0
    <3>1. s = sig
      BY <1>2, <1>5, <1>6, <2>2, JoinedEmpty
    <3>2. sig # <<>> => Head(sig) = sig[1]
      BY <1>2
    <3>3. e.prec <= k
      BY <1>2, <1>3, <2>2
    <3> QED
      BY <1>2, <3>1, <3>2, <3>3
  <2> QED
    BY <1>3, <2>1, <2>2
<1>10. CASE OctalZero(e) = 1
  <2>1. P!CDigits(e) = <<0>> \o s
    BY <1>1, <1>8, <1>9, <1>10 DEF OctalZero
  <2>2. PICK one \in Nat : one = 1
    OBVIOUS
  <2>3. Zeros(one) = <<0>> /\ <<0>> \in Seq(Char) /\ Len(<<0>>) = 1
    BY <2>2, ZerosOne DEF Char
  <2>4. <<0>> \o s = (<<0>> \o zp) \o sig
    BY <1>2, <1>5, <1>6, <2>3, JoinedAgain
  <2>5. <<0>> \o zp = Zeros(one + p)
    <3>1. Zeros(one) \o Zeros(p) = Zeros(one + p)
      BY <1>3, ZerosSplit
    <3> QED
      BY <1>5, <2>3, <3>1
  <2>6. <<0>> \o s \in Seq(Char) /\ Len(<<0>> \o s) = 1 + (p + k)
    <3>1. Len(<<0>> \o s) = Len(<<0>>) + Len(s) /\ <<0>> \o s \in Seq(Char)
      BY <1>7, <2>3, Joined
    <3> QED
      BY <1>7, <2>3, <3>1
  <2>7. P!CDigits(e) = Zeros(one + p) \o sig
    BY <2>1, <2>4, <2>5
  <2>8. one + p = OctalZero(e) + PrecisionZeros(e) /\ DigitsWidth(e) = 1 + (p + k)
    BY <1>1, <1>2, <1>3, <1>10, <2>2 DEF DigitsWidth
  <2> QED
    BY <1>1, <2>1, <2>6, <2>7, <2>8
<1>11. CASE OctalZero(e) # 1
  <2>1. P!CDigits(e) = s
    BY <1>1, <1>8, <1>9, <1>11 DEF OctalZero
  <2>2. OctalZero(e) = 0 /\ 0 + p = p
    BY <1>3, <1>11, ZerosCounted
  <2> QED
    BY <1>1, <1>2, <1>3, <1>5, <1>7, <2>1, <2>2 DEF DigitsWidth
<1> QED
  BY <1>10, <1>11

LEMMA CPrefixIs ==
  ASSUME NEW e \in P!Directive, e.conv \in P!Integer
  PROVE  P!CPrefix(e) \in Seq(Char) /\ Len(P!CPrefix(e)) \in 0..2
<1>1. P!Minus \in Char /\ P!Plus \in Char /\ P!Space \in Char /\ 0 \in Char /\ 33 \in Char /\ 11 \in Char
  BY DEF P!Minus, P!Plus, P!Space, Char
<1>2. PICK a, b, c, x, y, z : /\ a = <<P!Minus>> /\ b = <<P!Plus>> /\ c = <<P!Space>>
                              /\ x = <<0, 33>> /\ y = <<0, 11>> /\ z = <<>>
  OBVIOUS
<1>3. /\ a \in Seq(Char) /\ Len(a) = 1 /\ b \in Seq(Char) /\ Len(b) = 1
      /\ c \in Seq(Char) /\ Len(c) = 1 /\ x \in Seq(Char) /\ Len(x) = 2
      /\ y \in Seq(Char) /\ Len(y) = 2 /\ z \in Seq(Char) /\ Len(z) = 0
  BY <1>1, <1>2
<1>4. PICK pre : pre = P!CPrefix(e)
  OBVIOUS
<1>5. pre \in {a, b, c, x, y, z}
  BY <1>2, <1>4 DEF P!CPrefix
<1>6. pre \in Seq(Char) /\ (Len(pre) = 0 \/ Len(pre) = 1 \/ Len(pre) = 2)
  BY <1>3, <1>5
<1> QED
  BY <1>4, <1>6

LEMMA CNumberForm ==
  ASSUME NEW e \in P!Directive, e.conv \in P!Integer
  PROVE  /\ CZeros(e) \in Nat /\ FieldZeros(e) \in Nat
         /\ P!CNumber(e) = P!CPrefix(e) \o (Zeros(CZeros(e)) \o P!Significant(e))
         /\ P!CNumber(e) \in Seq(Char)
         /\ Len(P!CNumber(e)) = Len(P!CPrefix(e)) + (CZeros(e) + Len(P!Significant(e)))
<1>1. PICK sig, k, pre, l, dw : /\ sig = P!Significant(e) /\ k = Len(sig)
                                /\ pre = P!CPrefix(e) /\ l = Len(pre)
                                /\ dw = DigitsWidth(e)
  OBVIOUS
<1>2. sig \in Seq(Char) /\ k \in Nat /\ pre \in Seq(Char) /\ l \in Nat
  <2>1. sig \in Seq(Char) /\ k \in Nat
    BY <1>1, SignificantIs
  <2>2. pre \in Seq(Char) /\ l \in 0..2
    BY <1>1, CPrefixIs
  <2> QED
    BY <2>1, <2>2
<1>3. PICK m : m = OctalZero(e) + PrecisionZeros(e)
  OBVIOUS
<1>4. m \in Nat /\ dw \in Nat /\ dw = m + k
  BY <1>1, <1>2, <1>3, ZerosCounted DEF DigitsWidth
<1>5. PICK w : w \in Int /\ w = P!Width(e)
  BY DirectiveIs DEF P!Width
<1>6. PICK f : f = FieldZeros(e)
  OBVIOUS
<1>7. f = IF "zeropad" \in e.flags /\ ~P!Left(e) /\ e.prec < 0 /\ w > l + dw
            THEN w - l - dw ELSE 0
  BY <1>1, <1>5, <1>6 DEF FieldZeros
<1>8. f \in Nat
  BY <1>2, <1>4, <1>5, <1>7
<1>9. P!CDigits(e) = Zeros(m) \o sig /\ Len(P!CDigits(e)) = dw
  BY <1>1, <1>3, CDigitsForm
<1>10. PICK x : x = IF "zeropad" \in e.flags /\ ~P!Left(e) /\ e.prec < 0
                      THEN w - l - dw ELSE 0
  OBVIOUS
<1>11. x \in Int /\ Zeros(x) = Zeros(f)
  <2>1. x \in Int
    BY <1>2, <1>4, <1>5, <1>10
  <2>2. CASE x > 0
    BY <1>2, <1>4, <1>5, <1>7, <1>10, <2>2
  <2>3. CASE ~(x > 0)
    <3>1. x <= 0 /\ f <= 0 /\ f \in Int
      BY <1>2, <1>4, <1>5, <1>7, <1>10, <2>1, <2>3
    <3>2. Zeros(f) = <<>> /\ Zeros(x) = <<>>
      BY <2>1, <3>1, ZerosAre
    <3> QED
      BY <2>1, <3>2
  <2> QED
    BY <2>1, <2>2, <2>3
<1>12. PICK zm, zf, zc : zm = Zeros(m) /\ zf = Zeros(f) /\ zc = Zeros(f + m)
  OBVIOUS
<1>13. P!CNumber(e) = (pre \o zf) \o (zm \o sig)
  <2>1. P!CNumber(e) = (pre \o Zeros(x)) \o (Zeros(m) \o sig)
    BY <1>1, <1>5, <1>9, <1>10 DEF P!CNumber, Zeros
  <2> QED
    BY <1>11, <1>12, <2>1
<1>14. zm \in Seq(Char) /\ zf \in Seq(Char) /\ zf \o zm = zc
  <2>1. m \in Int /\ f \in Int
    BY <1>4, <1>8
  <2>2. zm \in Seq(Char) /\ zf \in Seq(Char)
    BY <1>12, <2>1, ZerosAre
  <2> QED
    BY <1>4, <1>8, <1>12, <2>2, ZerosSplit
<1>15. (pre \o zf) \o (zm \o sig) = pre \o (zc \o sig)
  <2>1. zm \o sig \in Seq(Char)
    BY <1>2, <1>14, Joined
  <2>2. PICK y : y = zm \o sig
    OBVIOUS
  <2>3. (pre \o zf) \o y = pre \o (zf \o y)
    BY <1>2, <1>14, <2>1, <2>2, JoinedAgain
  <2>4. zf \o y = zc \o sig
    BY <1>2, <1>14, <2>2, JoinedAgain
  <2> QED
    BY <2>2, <2>3, <2>4
<1>16. CZeros(e) = f + m /\ f + m \in Nat
  BY <1>3, <1>4, <1>6, <1>8 DEF CZeros
<1>17. zc \in Seq(Char) /\ Len(zc) = f + m
  <2>1. PICK n \in Nat : n = f + m
    BY <1>16
  <2>2. zc \in Seq(Char) /\ Len(zc) = n
    BY <1>12, <2>1, ZerosAre
  <2> QED
    BY <2>1, <2>2
<1>18. PICK y : y = zc \o sig
  OBVIOUS
<1>19. y \in Seq(Char) /\ Len(y) = (f + m) + k
  <2>1. zc \o sig \in Seq(Char) /\ Len(zc \o sig) = Len(zc) + Len(sig)
    BY <1>1, <1>2, <1>17, Joined
  <2> QED
    BY <1>1, <1>2, <1>17, <1>18, <2>1
<1>20. pre \o y \in Seq(Char) /\ Len(pre \o y) = l + ((f + m) + k)
  <2>1. pre \o y \in Seq(Char) /\ Len(pre \o y) = Len(pre) + Len(y)
    BY <1>1, <1>2, <1>19, Joined
  <2> QED
    BY <1>1, <1>2, <1>19, <2>1
<1> QED
  BY <1>1, <1>6, <1>8, <1>12, <1>13, <1>15, <1>16, <1>18, <1>20

LEMMA CTextIs ==
  ASSUME NEW e \in P!Directive
  PROVE  P!CText(e) \in Seq(Char)
<1>1. e.width \in Int
  BY DirectiveIs
<1>2. CASE e.conv = "text"
  <2>1. e.arg \in Shown
    BY <1>2, DirectiveIs
  <2>2. e.arg \in Char
    BY <2>1 DEF Char, Shown
  <2>3. <<e.arg>> \in Seq(Char)
    BY <2>2
  <2> QED
    BY <1>2, <2>3 DEF P!CText, P!Integer
<1>3. CASE e.conv = "c"
  <2>1. <<e.arg>> \in Seq(Char)
    BY <1>3, DirectiveIs
  <2>2. P!CText(e) = P!Field(<<e.arg>>, e)
    BY <1>3 DEF P!CText, P!Integer
  <2> QED
    BY <1>1, <2>1, <2>2, FieldIs
<1>4. CASE e.conv = "s"
  <2>1. PICK s : s = P!CShown(e)
    OBVIOUS
  <2>2. s \in Seq(Char)
    <3>1. PICK n : n = IF e.prec < 0 \/ e.prec > Len(e.arg) THEN Len(e.arg) ELSE e.prec
      OBVIOUS
    <3>2. e.arg \in Seq(Shown) /\ e.prec \in Int
      BY <1>4, DirectiveIs
    <3>3. Len(e.arg) \in Nat
      BY <3>2
    <3>4. n \in Nat /\ n <= Len(e.arg)
      BY <3>1, <3>2, <3>3
    <3>5. \A i \in 1..n : e.arg[i] \in Char
      <4>1. \A i \in 1..n : e.arg[i] \in Shown
        BY <3>2, <3>4, ElementOfSeq
      <4> QED
        BY <4>1 DEF Char, Shown
    <3>6. s = [i \in 1..n |-> e.arg[i]]
      BY <2>1, <3>1 DEF P!CShown
    <3> QED
      BY <3>4, <3>5, <3>6
  <2>3. P!CText(e) = P!Field(s, e)
    BY <1>4, <2>1 DEF P!CText, P!Integer
  <2> QED
    BY <1>1, <2>2, <2>3, FieldIs
<1>5. CASE e.conv \in P!Integer
  <2>1. PICK s : s = P!CNumber(e)
    OBVIOUS
  <2>2. s \in Seq(Char)
    BY <1>5, <2>1, CNumberForm
  <2>3. P!CText(e) = P!Field(s, e)
    BY <1>5, <2>1 DEF P!CText, P!Integer
  <2> QED
    BY <1>1, <2>2, <2>3, FieldIs
<1>6. e.conv \in {"text", "c", "s"} \/ e.conv \in P!Integer
  BY DEF P!Directive, P!Directives
<1> QED
  BY <1>2, <1>3, <1>4, <1>5, <1>6

-----------------------------------------------------------------------------
(* The texts of the directives of a format, joined one by one.             *)
JoinsTexts(format, T) ==
  /\ T[0] = <<>>
  /\ \A n \in 1..Len(format) : T[n] = T[n - 1] \o P!CText(format[n])

LEMMA CTextOfSteps ==
  ASSUME NEW format \in Seq(P!Directive)
  PROVE  \E T : /\ JoinsTexts(format, T)
                /\ \A n \in 0..Len(format) : T[n] \in Seq(Char)
                /\ P!CTextOf(format) = T[Len(format)]
<1> DEFINE text == CHOOSE f : f = [n \in 0..Len(format) |->
                     IF n = 0 THEN <<>> ELSE f[n - 1] \o P!CText(format[n])]
<1>1. P!CTextOf(format) = text[Len(format)]
  BY DEF P!CTextOf
<1>2. PICK C : C = [n \in Nat |-> IF n \in 1..Len(format) THEN P!CText(format[n]) ELSE <<>>]
  OBVIOUS
<1>3. \A n \in Nat : C[n] \in Seq(Char)
  <2>1. \A n \in 1..Len(format) : P!CText(format[n]) \in Seq(Char)
    BY CTextIs
  <2>2. <<>> \in Seq(Char)
    OBVIOUS
  <2> QED
    BY <1>2, <2>1, <2>2
<1>4. PICK F, S, a : /\ a = <<>> /\ S = Seq(Char) /\ F = [x \in Nat \X S |-> x[2] \o C[x[1]]]
  OBVIOUS
<1>5. a \in S /\ F \in [Nat \X S -> S]
  <2>1. \A n \in Nat : \A y \in S : y \o C[n] \in S
    BY <1>3, <1>4, ConcatProperties
  <2> QED
    BY <1>4, <2>1
<1>6. PICK f : Unfolds(S, a, F, f)
  BY <1>5, UnfoldsExists
<1>7. f \in [Nat -> Seq(Char)] /\ f[0] = <<>>
  BY <1>4, <1>6 DEF Unfolds
<1>8. ASSUME NEW n \in 1..Len(format)
      PROVE  f[n] = f[n - 1] \o P!CText(format[n])
  <2>1. n \in Nat \ {0} /\ n - 1 \in Nat
    OBVIOUS
  <2>2. f[n] = F[<<n, f[n - 1]>>]
    BY <1>6, <2>1 DEF Unfolds
  <2>3. PICK y \in S : y = f[n - 1]
    BY <1>4, <1>7, <2>1
  <2>4. F[<<n, y>>] = y \o C[n]
    BY <1>4, <2>1
  <2>5. C[n] = P!CText(format[n])
    BY <1>2, <2>1
  <2> QED
    BY <2>2, <2>3, <2>4, <2>5
<1>9. PICK g : g = [n \in 0..Len(format) |-> f[n]]
  OBVIOUS
<1>10. g = [n \in 0..Len(format) |-> IF n = 0 THEN <<>> ELSE g[n - 1] \o P!CText(format[n])]
  <2>1. ASSUME NEW n \in 0..Len(format)
        PROVE  g[n] = IF n = 0 THEN <<>> ELSE g[n - 1] \o P!CText(format[n])
    <3>1. CASE n = 0
      BY <1>7, <1>9, <3>1
    <3>2. CASE n # 0
      <4>1. n \in 1..Len(format) /\ n - 1 \in 0..Len(format)
        BY <3>2
      <4> QED
        BY <1>8, <1>9, <3>2, <4>1
    <3> QED
      BY <3>1, <3>2
  <2> QED
    BY <1>9, <2>1
<1>11. text = [n \in 0..Len(format) |-> IF n = 0 THEN <<>> ELSE text[n - 1] \o P!CText(format[n])]
  BY <1>10
<1> HIDE DEF text
<1>12. JoinsTexts(format, text)
  <2>1. text[0] = <<>>
    BY <1>11
  <2>2. ASSUME NEW n \in 1..Len(format)
        PROVE  text[n] = text[n - 1] \o P!CText(format[n])
    <3>1. n \in 0..Len(format) /\ n # 0
      OBVIOUS
    <3> QED
      BY <1>11, <3>1
  <2> QED
    BY <2>1, <2>2 DEF JoinsTexts
<1> DEFINE Z == {n \in Nat : n <= Len(format) => text[n] \in Seq(Char)}
<1>13. 0 \in Z
  <2>1. text[0] = <<>> /\ <<>> \in Seq(Char)
    BY <1>12 DEF JoinsTexts
  <2> QED
    BY <2>1
<1>14. ASSUME NEW n \in Nat \ {0}, n - 1 \in Z
       PROVE  n \in Z
  <2>1. SUFFICES ASSUME n <= Len(format)
                 PROVE  text[n] \in Seq(Char)
    OBVIOUS
  <2>2. n \in 1..Len(format) /\ text[n - 1] \in Seq(Char)
    BY <1>14, <2>1
  <2>3. P!CText(format[n]) \in Seq(Char)
    BY <2>2, CTextIs
  <2>4. text[n] = text[n - 1] \o P!CText(format[n])
    BY <1>12, <2>2 DEF JoinsTexts
  <2> QED
    BY <2>2, <2>3, <2>4, ConcatProperties
<1>15. Z = Nat
  <2> HIDE DEF Z
  <2>1. Z \in SUBSET Nat
    BY DEF Z
  <2> QED
    BY <1>13, <1>14, <2>1, SetInduction
<1>16. \A n \in 0..Len(format) : text[n] \in Seq(Char)
  BY <1>15
<1> QED
  BY <1>1, <1>12, <1>16

-----------------------------------------------------------------------------
(* A conversion computes what ISO C says.                                  *)

(* The digits in buf, least significant first.                             *)

(* A zero with a precision is not converted.                               *)
Converted(e) == IF e.prec # P!NoPrec /\ P!Argument(e) = 0 THEN <<>> ELSE P!Significant(e)

(* The flags that are left once those to ignore are taken out.             *)
EvaluatedFlags(e) == (e.flags \cup (IF P!Left(e) THEN {"left"} ELSE {})) \ P!Ignored

(* What the loop has done, in bytes of buf and the rest of the number.     *)
DigitsSoFar(n, b) ==
  /\ \A i \in 1..Len(buf) : buf[i] = (n \div P!Power(b, i - 1)) % b
  /\ value = n \div P!Power(b, Len(buf))
  /\ Len(buf) > 1 => P!Power(b, Len(buf) - 1) <= n

(* Between the steps of a conversion: the flags are evaluated, buf holds   *)
(* the digits so far, then all of them, and then the text to put out.      *)
ConvertingInv ==
  /\ ppc \in {"digits", "number"} =>
       /\ flags = EvaluatedFlags(P!d)
       /\ negative = (P!Argument(P!d) < 0)
  /\ ppc = "digits" => /\ Converted(P!d) = P!Significant(P!d) /\ P!Significant(P!d) # <<>>
                       /\ DigitsSoFar(P!Magnitude(P!d), P!Base(P!d))
                       /\ buf = <<>> \/ value # 0
  /\ ppc = "number" => \/ buf = P!Reversed(Converted(P!d))
                       \/ P!Deviates(P!d)
  /\ ppc = "out" =>
       \/ P!CText(P!d) = IF "zeropad" \in flags /\ "left" \notin flags
                           THEN P!Reversed(buf) ELSE P!Field(P!Reversed(buf), P!d)
       \/ P!Deviates(P!d)

(* As many digits as there are, each at its place, are all of them.        *)
LEMMA AllDigits ==
  ASSUME NEW n \in Nat, NEW b \in Nat, b >= 2, b <= 36,
         NEW k, k = P!DigitCount(n, b), NEW s \in Seq(Char)
  PROVE  Len(s) = k /\ (\A i \in 1..k : s[i] = (n \div P!Power(b, i - 1)) % b)
           => s = P!Reversed(P!Digits(n, b))
<1>1. PICK t : t = P!Digits(n, b)
  OBVIOUS
<1>2. /\ k \in Nat /\ t \in Seq(Char) /\ Len(t) = k
      /\ \A i \in 1..k : t[i] = (n \div P!Power(b, k - i)) % b
  BY <1>1, DigitsAre
<1>3. PICK r : r = P!Reversed(t)
  OBVIOUS
<1>4. r \in Seq(Char) /\ Len(r) = k /\ \A i \in 1..k : r[i] = t[k + 1 - i]
  BY <1>2, <1>3, ReversedAt
<1>5. SUFFICES ASSUME Len(s) = k, \A i \in 1..k : s[i] = (n \div P!Power(b, i - 1)) % b
               PROVE  s = r
  BY <1>1, <1>3
<1>6. ASSUME NEW i \in 1..k
      PROVE  s[i] = r[i]
  <2>1. PICK j \in 1..k : j = k + 1 - i
    BY <1>2
  <2>2. k - j = i - 1
    BY <1>2, <2>1
  <2>3. t[j] = (n \div P!Power(b, k - j)) % b
    BY <1>2
  <2> QED
    BY <1>4, <1>5, <2>1, <2>2, <2>3
<1> QED
  BY <1>4, <1>5, <1>6, SameText

(* A number with more digits than the buffer has is one that deviates.     *)
LEMMA TooManyDigits ==
  ASSUME NEW e \in P!Directive, e.conv \in P!Integer, P!Significant(e) # <<>>,
         P!Power(P!Base(e), NtoaBufferSize) <= P!Magnitude(e)
  PROVE  P!Deviates(e)
<1>1. PICK n, b, k, m : /\ n = P!Magnitude(e) /\ b = P!Base(e)
                        /\ k = P!DigitCount(n, b) /\ m = NtoaBufferSize
  OBVIOUS
<1>2. n \in Nat /\ b \in Nat /\ b >= 2 /\ b <= 36
  <2>1. b \in {2, 8, 10, 16}
    BY <1>1, BaseIs
  <2> QED
    BY <1>1, <2>1, MagnitudeIs
<1>3. m \in Nat
  BY <1>1, PrintfConstants DEF P!Constants
<1>4. k \in Nat /\ P!Power(b, k) > n
  BY <1>1, <1>2, DigitCountIs DEF IsDigitCount
<1>5. k > m
  <2>1. SUFFICES ASSUME k <= m
                 PROVE  FALSE
    BY <1>3, <1>4
  <2>2. P!Power(b, k) <= P!Power(b, m)
    BY <1>2, <1>3, <1>4, <2>1, PowerGrows
  <2>3. P!Power(b, k) \in Nat /\ P!Power(b, m) \in Nat /\ P!Power(b, m) <= n
    BY <1>1, <1>2, <1>3, <1>4, PowerIs
  <2> QED
    BY <1>2, <1>4, <2>2, <2>3
<1>6. Len(P!Significant(e)) = k
  <2>1. P!Significant(e) = P!Digits(n, b)
    BY <1>1 DEF P!Significant
  <2> QED
    BY <1>1, <1>2, <2>1, DigitsAre
<1>7. Len(P!CNumber(e)) >= k
  <2>1. PICK x, y, z : x = Len(P!CNumber(e)) /\ y = Len(P!CPrefix(e)) /\ z = CZeros(e)
    OBVIOUS
  <2>2. x = y + (z + k) /\ y \in 0..2 /\ z \in Nat
    BY <1>6, <2>1, CNumberForm, CPrefixIs
  <2> QED
    BY <1>4, <2>1, <2>2
<1>8. Len(P!CNumber(e)) > NtoaBufferSize
  <2>1. PICK x : x = Len(P!CNumber(e))
    OBVIOUS
  <2>2. x \in Nat
    BY <2>1, CNumberForm
  <2> QED
    BY <1>1, <1>3, <1>4, <1>5, <1>7, <2>1, <2>2
<1> QED
  BY <1>8 DEF P!Deviates

-----------------------------------------------------------------------------
(* _ntoa_format on the digits of a number.                                 *)

LEMMA BoundFits ==
  ASSUME NEW n \in Int, n <= NtoaBufferSize
  PROVE  P!Bound(n) = n
BY PrintfConstants DEF P!Bound, P!Constants

(* Each flag in terms of the directive.                                    *)
LEMMA FlagsAre ==
  ASSUME NEW e, e = P!d, e.conv \in P!Integer, flags = EvaluatedFlags(e)
  PROVE  /\ "left" \in flags <=> P!Left(e)
         /\ "zeropad" \in flags <=> "zeropad" \in e.flags /\ e.prec = P!NoPrec
         /\ "hash" \in flags <=> /\ "hash" \in e.flags /\ e.conv \in {"x", "o", "b"}
                                 /\ P!Argument(e) # 0
         /\ "plus" \in flags <=> "plus" \in e.flags /\ e.conv = "d"
         /\ "space" \in flags <=> "space" \in e.flags /\ e.conv = "d"
BY DEF EvaluatedFlags, P!Ignored, P!Left, P!Integer

(* The sign written is the prefix asked for, or there is a 0x, 0b or 0.    *)
LEMMA SignIs ==
  ASSUME NEW e, e \in P!Directive, e = P!d, e.conv \in P!Integer, flags = EvaluatedFlags(e),
         negative = (P!Argument(e) < 0)
  PROVE  /\ "hash" \notin flags => P!SignText = P!CPrefix(e)
         /\ "hash" \in flags => /\ P!SignText = <<>> /\ P!ZeroWidth = P!Width(e)
                                /\ e.conv = "x" => P!CPrefix(e) = <<0, 33>>
                                /\ e.conv = "b" => P!CPrefix(e) = <<0, 11>>
                                /\ e.conv = "o" => P!CPrefix(e) = <<>>
         /\ "hash" \notin flags => P!ZeroWidth = P!Width(e) - Len(P!CPrefix(e))
<1>1. PICK n \in Int : n = P!Argument(e)
  BY ArgumentIs
<1>2. e.conv # "d" => n >= 0
  BY <1>1, MagnitudeIs
<1>3. negative <=> n < 0
  BY <1>1
<1>4. /\ "hash" \in flags <=> "hash" \in e.flags /\ e.conv \in {"x", "o", "b"} /\ n # 0
      /\ "plus" \in flags <=> "plus" \in e.flags /\ e.conv = "d"
      /\ "space" \in flags <=> "space" \in e.flags /\ e.conv = "d"
  BY <1>1, FlagsAre
<1>5. ASSUME "hash" \notin flags
      PROVE  /\ P!SignText = P!CPrefix(e)
             /\ P!ZeroWidth = P!Width(e) - Len(P!CPrefix(e))
  <2>1. CASE n < 0
    <3>1. P!CPrefix(e) = <<P!Minus>>
      <4>1. e.conv = "d"
        BY <1>2, <2>1
      <4> QED
        BY <1>1, <2>1, <4>1 DEF P!CPrefix
    <3>2. P!SignText = <<P!Minus>>
      BY <1>3, <2>1 DEF P!SignText
    <3>3. P!ZeroWidth = P!Width(e) - 1
      BY <1>3, <2>1 DEF P!ZeroWidth
    <3> QED
      BY <3>1, <3>2, <3>3
  <2>2. CASE n >= 0 /\ "plus" \in flags
    <3>1. P!CPrefix(e) = <<P!Plus>>
      BY <1>1, <1>4, <2>2 DEF P!CPrefix
    <3>2. P!SignText = <<P!Plus>>
      BY <1>3, <2>2 DEF P!SignText
    <3>3. P!ZeroWidth = P!Width(e) - 1
      BY <1>3, <2>2 DEF P!ZeroWidth
    <3> QED
      BY <3>1, <3>2, <3>3
  <2>3. CASE n >= 0 /\ "plus" \notin flags /\ "space" \in flags
    <3>1. P!CPrefix(e) = <<P!Space>>
      BY <1>1, <1>4, <2>3 DEF P!CPrefix
    <3>2. P!SignText = <<P!Space>>
      BY <1>3, <2>3 DEF P!SignText
    <3>3. P!ZeroWidth = P!Width(e) - 1
      BY <1>3, <2>3 DEF P!ZeroWidth
    <3> QED
      BY <3>1, <3>2, <3>3
  <2>4. CASE n >= 0 /\ "plus" \notin flags /\ "space" \notin flags
    <3>1. P!CPrefix(e) = <<>>
      BY <1>1, <1>4, <1>5, <2>4 DEF P!CPrefix
    <3>2. P!SignText = <<>>
      BY <1>3, <2>4 DEF P!SignText
    <3>3. P!ZeroWidth = P!Width(e)
      BY <1>3, <2>4 DEF P!ZeroWidth
    <3>4. P!Width(e) \in Int /\ Len(<<>>) = 0
      BY DirectiveIs DEF P!Width
    <3> QED
      BY <3>1, <3>2, <3>3, <3>4
  <2> QED
    BY <2>1, <2>2, <2>3, <2>4
<1>6. ASSUME "hash" \in flags
      PROVE  /\ P!SignText = <<>> /\ P!ZeroWidth = P!Width(e)
             /\ e.conv = "x" => P!CPrefix(e) = <<0, 33>>
             /\ e.conv = "b" => P!CPrefix(e) = <<0, 11>>
             /\ e.conv = "o" => P!CPrefix(e) = <<>>
  <2>1. /\ "hash" \in e.flags /\ e.conv \in {"x", "o", "b"} /\ n # 0 /\ n >= 0
        /\ "plus" \notin flags /\ "space" \notin flags /\ ~negative
    BY <1>2, <1>3, <1>4, <1>6
  <2>2. P!SignText = <<>>
    BY <2>1 DEF P!SignText
  <2>3. P!ZeroWidth = P!Width(e)
    BY <2>1 DEF P!ZeroWidth
  <2>4. e.conv = "x" => P!CPrefix(e) = <<0, 33>>
    BY <1>1, <2>1 DEF P!CPrefix
  <2>5. e.conv = "b" => P!CPrefix(e) = <<0, 11>>
    BY <1>1, <2>1 DEF P!CPrefix
  <2>6. e.conv = "o" => P!CPrefix(e) = <<>>
    BY <1>1, <2>1 DEF P!CPrefix
  <2> QED
    BY <2>2, <2>3, <2>4, <2>5, <2>6
<1> QED
  BY <1>5, <1>6

(* The directive stays the same while it is converted.                     *)
LEMMA DirectiveKept ==
  ASSUME fmt' = fmt
  PROVE  P!d' = P!d /\ EvaluatedFlags(P!d)' = EvaluatedFlags(P!d)
BY DEF P!d, EvaluatedFlags, P!Ignored

LEMMA NextDirectiveIs ==
  ASSUME PrintfInv, ppc # "typed", fmt # <<>>
  PROVE  P!d \in P!Directive
BY TailIs DEF PrintfInv

(* StartNumber establishes ConvertingInv; the loop keeps it, and ends with *)
(* all digits in buf or with a number longer than buf.                     *)
LEMMA StartNumberConverts ==
  ASSUME PrintfInv, P!StartNumber
  PROVE  ConvertingInv'
<1>1. /\ ppc = "format" /\ fmt # <<>> /\ fmt' = fmt /\ P!d.conv \in P!Integer
      /\ flags' = EvaluatedFlags(P!d)
      /\ value' = (IF P!Argument(P!d) < 0 THEN -P!Argument(P!d) ELSE P!Argument(P!d))
      /\ negative' = (P!Argument(P!d) < 0)
      /\ buf' = <<>>
      /\ ppc' = IF P!d.prec # P!NoPrec /\ P!Argument(P!d) = 0 THEN "number" ELSE "digits"
  BY DEF P!StartNumber, P!IsNext, EvaluatedFlags
<1>2. PICK e : e = P!d
  OBVIOUS
<1>3. e \in P!Directive /\ P!d' = e /\ EvaluatedFlags(P!d)' = EvaluatedFlags(e)
  BY <1>1, <1>2, NextDirectiveIs, DirectiveKept
<1>4. PICK n, b : n = P!Magnitude(e) /\ b = P!Base(e)
  OBVIOUS
<1>5. n \in Nat /\ b \in Nat /\ b >= 2 /\ (n = 0 <=> P!Argument(e) = 0)
  <2>1. b \in {2, 8, 10, 16}
    BY <1>4, BaseIs
  <2> QED
    BY <1>1, <1>2, <1>3, <1>4, <2>1, MagnitudeIs
<1>6. value' = n
  BY <1>1, <1>2, <1>4 DEF P!Magnitude
<1>7. CASE e.prec # P!NoPrec /\ P!Argument(e) = 0
  <2>1. ppc' = "number" /\ Converted(e) = <<>>
    BY <1>1, <1>2, <1>7 DEF Converted
  <2>2. buf' = P!Reversed(Converted(e))
    BY <1>1, <2>1, ReversedNone
  <2> QED
    BY <1>1, <1>2, <1>3, <2>1, <2>2 DEF ConvertingInv
<1>8. CASE ~(e.prec # P!NoPrec /\ P!Argument(e) = 0)
  <2>1. ppc' = "digits" /\ Converted(e) = P!Significant(e)
    BY <1>1, <1>2, <1>8 DEF Converted
  <2>2. P!Significant(e) # <<>>
    BY <1>1, <1>2, <1>3, <1>8, SignificantIs DEF P!NoPrec
  <2>3. DigitsSoFar(n, b)'
    <3>1. n \div P!Power(b, 0) = n
      BY <1>5, QuotientStep
    <3>2. Len(buf') = 0 /\ 1..0 = {}
      BY <1>1
    <3> QED
      BY <1>6, <3>1, <3>2 DEF DigitsSoFar
  <2>4. DigitsSoFar(P!Magnitude(P!d), P!Base(P!d))'
    BY <1>3, <1>4, <2>3 DEF DigitsSoFar
  <2> QED
    BY <1>1, <1>2, <1>3, <2>1, <2>2, <2>4 DEF ConvertingInv
<1> QED
  BY <1>7, <1>8

LEMMA NextDigitConverts ==
  ASSUME PrintfInv, ConvertingInv, P!NextDigit
  PROVE  ConvertingInv'
<1>1. PICK e : e = P!d
  OBVIOUS
<1>2. PICK n, b : n = P!Magnitude(e) /\ b = P!Base(e)
  OBVIOUS
<1>3. /\ ppc = "digits" /\ fmt' = fmt /\ flags' = flags /\ negative' = negative
      /\ buf' = Append(buf, value % b) /\ value' = value \div b
      /\ ppc' = IF value' # 0 /\ Len(buf') < NtoaBufferSize THEN "digits" ELSE "number"
  BY <1>1, <1>2 DEF P!NextDigit
<1>4. /\ value \in Nat /\ buf \in Seq(Char) /\ Len(buf) < NtoaBufferSize
      /\ fmt # <<>> /\ e.conv \in P!Integer
  BY <1>1, <1>3 DEF PrintfInv, P!TypeOK, Char, Converting, P!d
<1>5. e \in P!Directive /\ P!d' = e /\ EvaluatedFlags(P!d)' = EvaluatedFlags(e)
  BY <1>1, <1>3, <1>4, NextDirectiveIs, DirectiveKept
<1>6. n \in Nat /\ b \in Nat /\ b >= 2 /\ b <= 36
  <2>1. b \in {2, 8, 10, 16}
    BY <1>2, BaseIs
  <2> QED
    BY <1>2, <1>4, <1>5, <2>1, MagnitudeIs
<1>7. /\ flags = EvaluatedFlags(e) /\ negative = (P!Argument(e) < 0)
      /\ Converted(e) = P!Significant(e) /\ P!Significant(e) # <<>>
      /\ DigitsSoFar(n, b) /\ (buf = <<>> \/ value # 0)
  BY <1>1, <1>2, <1>3 DEF ConvertingInv
<1>8. PICK m, v, digit, new : /\ m = Len(buf) /\ v = value /\ digit = v % b
                              /\ new = Append(buf, digit)
  OBVIOUS
<1>9. m \in Nat /\ v \in Nat /\ digit \in Char
  <2>1. v % b \in 0..(b - 1)
    BY <1>4, <1>6, <1>8
  <2> QED
    BY <1>4, <1>6, <1>8, <2>1 DEF Char
<1>10. /\ new \in Seq(Char) /\ Len(new) = m + 1
       /\ \A i \in 1..m : new[i] = buf[i]
       /\ new[m + 1] = digit
  BY <1>4, <1>8, <1>9, AppendProperties
<1>11. /\ v = n \div P!Power(b, m)
       /\ \A i \in 1..m : buf[i] = (n \div P!Power(b, i - 1)) % b
  BY <1>7, <1>8 DEF DigitsSoFar
<1>12. ASSUME NEW i \in 1..(m + 1)
       PROVE  new[i] = (n \div P!Power(b, i - 1)) % b
  <2>1. CASE i \in 1..m
    BY <1>10, <1>11, <2>1
  <2>2. CASE i = m + 1
    <3>1. i - 1 = m
      BY <1>9, <2>2
    <3> QED
      BY <1>8, <1>10, <1>11, <2>2, <3>1
  <2> QED
    BY <1>9, <2>1, <2>2
<1>13. v \div b = n \div P!Power(b, m + 1)
  BY <1>6, <1>9, <1>11, QuotientStep
<1>14. m > 0 => P!Power(b, m) <= n
  <2>1. SUFFICES ASSUME m > 0
                 PROVE  P!Power(b, m) <= n
    OBVIOUS
  <2>2. v # 0
    BY <1>7, <1>8, <2>1
  <2>3. ~(P!Power(b, m) > n)
    BY <1>6, <1>9, <1>11, <2>2, QuotientZero
  <2>4. P!Power(b, m) \in Nat
    BY <1>6, <1>9, PowerIs
  <2> QED
    BY <1>6, <2>3, <2>4
<1>15. buf' = new /\ value' = v \div b
  BY <1>3, <1>8
<1>16. CASE ppc' = "digits"
  <2>1. value' # 0
    BY <1>3, <1>16
  <2>2. DigitsSoFar(n, b)'
    <3>1. (m + 1) - 1 = m /\ (m + 1 > 1 => m > 0)
      BY <1>9
    <3> QED
      BY <1>10, <1>12, <1>13, <1>14, <1>15, <3>1 DEF DigitsSoFar
  <2>3. DigitsSoFar(P!Magnitude(P!d), P!Base(P!d))'
    BY <1>2, <1>5, <2>2 DEF DigitsSoFar
  <2> QED
    BY <1>3, <1>5, <1>7, <1>16, <2>1, <2>3 DEF ConvertingInv
<1>17. CASE ppc' = "number"
  <2>1. PICK k : k = m + 1
    OBVIOUS
  <2>2. k \in Nat \ {0} /\ k - 1 = m
    BY <1>9, <2>1
  <2>3. CASE v \div b = 0
    <3>1. P!Power(b, k) > n
      BY <1>6, <1>13, <2>1, <2>2, <2>3, QuotientZero
    <3>2. k > 1 => P!Power(b, k - 1) <= n
      BY <1>9, <1>14, <2>1, <2>2
    <3>3. P!DigitCount(n, b) = k
      BY <1>6, <2>2, <3>1, <3>2, CountedDigits
    <3>4. new = P!Reversed(P!Digits(n, b))
      BY <1>6, <1>10, <1>12, <2>1, <3>3, AllDigits
    <3>5. P!Significant(e) = P!Digits(n, b)
      BY <1>2, <1>7 DEF P!Significant
    <3>6. buf' = P!Reversed(Converted(e))
      BY <1>7, <1>15, <3>4, <3>5
    <3> QED
      BY <1>3, <1>5, <1>7, <1>17, <3>6 DEF ConvertingInv
  <2>4. CASE v \div b # 0
    <3>1. k = NtoaBufferSize
      <4>1. ~(k < NtoaBufferSize)
        BY <1>3, <1>10, <1>15, <1>17, <2>1, <2>4
      <4> QED
        BY <1>4, <1>8, <1>9, <2>1, <4>1, PrintfConstants DEF P!Constants
    <3>2. ~(P!Power(b, k) > n)
      BY <1>6, <1>13, <2>1, <2>2, <2>4, QuotientZero
    <3>3. P!Power(b, k) \in Nat
      BY <1>6, <2>2, PowerIs
    <3>4. P!Power(b, k) <= n
      BY <1>6, <3>2, <3>3
    <3>5. P!Deviates(e)
      BY <1>2, <1>4, <1>5, <1>7, <3>1, <3>4, TooManyDigits
    <3> QED
      BY <1>3, <1>5, <1>7, <1>17, <3>5 DEF ConvertingInv
  <2> QED
    BY <2>3, <2>4
<1> QED
  BY <1>3, <1>16, <1>17

-----------------------------------------------------------------------------
(* The number of zeros that _ntoa_format puts behind k digits.             *)
ZerosWritten(e, k) ==
  LET m == P!Bound(P!Precision(e))
      n == IF "zeropad" \in flags THEN P!Bound(P!ZeroWidth) ELSE 0
  IN IF "left" \in flags THEN 0
     ELSE IF m > k \/ n > k THEN (IF m > n THEN m ELSE n) - k ELSE 0

(* WithZeros puts that many zeros behind what is in buf.                   *)
LEMMA WithZerosForm ==
  ASSUME NEW s \in Seq(Char), NEW e \in P!Directive, e = P!d
  PROVE  /\ ZerosWritten(e, Len(s)) \in Nat
         /\ P!WithZeros(s) = s \o Zeros(ZerosWritten(e, Len(s)))
<1>1. PICK m, n, z : /\ m = P!Bound(P!Precision(e))
                     /\ n = IF "zeropad" \in flags THEN P!Bound(P!ZeroWidth) ELSE 0
                     /\ z = ZerosWritten(e, Len(s))
  OBVIOUS
<1>2. m \in Int /\ n \in Int /\ Len(s) \in Nat
  <2>1. m \in Int
    BY <1>1, PrecisionIs, BoundIs
  <2>2. P!ZeroWidth \in Int
    <3>1. e.width \in Int
      BY DirectiveIs
    <3>2. P!Width(P!d) \in Int
      BY <3>1 DEF P!Width
    <3> QED
      BY <3>2 DEF P!ZeroWidth
  <2>3. n \in Int
    BY <1>1, <2>2, BoundIs
  <2> QED
    BY <2>1, <2>3
<1>3. CASE "left" \in flags
  <2>1. z = 0 /\ P!WithZeros(s) = s
    BY <1>1, <1>3 DEF ZerosWritten, P!WithZeros
  <2>2. s \o Zeros(z) = s
    <3>1. z \in Int /\ z <= 0
      BY <2>1
    <3>2. Zeros(z) = <<>>
      BY <3>1, ZerosAre
    <3> QED
      BY <3>2, JoinedEmpty
  <2> QED
    BY <1>1, <2>1, <2>2
<1>4. CASE "left" \notin flags
  <2>1. z = IF m > Len(s) \/ n > Len(s) THEN (IF m > n THEN m ELSE n) - Len(s) ELSE 0
    BY <1>1, <1>4 DEF ZerosWritten
  <2>2. z \in Nat
    BY <1>2, <2>1
  <2>3. P!WithZeros(s) = P!PadTo(P!PadTo(s, m, 0), n, 0)
    BY <1>1, <1>4 DEF P!WithZeros
  <2>4. P!PadTo(P!PadTo(s, m, 0), n, 0) = s \o Zeros(z)
    <3>1. m \in Int /\ n \in Int
      BY <1>2
    <3>2. z = Missing(m, n, Len(s))
      BY <2>1 DEF Missing
    <3> QED
      BY <3>1, <3>2, PaddedTwice
  <2> QED
    BY <1>1, <2>2, <2>3, <2>4
<1> QED
  BY <1>3, <1>4

(* What is known of a directive whose output is not known to deviate, in   *)
(* numbers: k significant digits, k0 of them converted, z zeros written,   *)
(* l characters of a prefix, width w.                                      *)
LEMMA FitsBuffer ==
  ASSUME NEW e \in P!Directive, e.conv \in P!Integer, ~P!Deviates(e)
  PROVE  Len(P!CPrefix(e)) + (CZeros(e) + Len(P!Significant(e))) <= NtoaBufferSize
<1>1. PICK x : x = Len(P!CNumber(e))
  OBVIOUS
<1>2. x \in Nat /\ x = Len(P!CPrefix(e)) + (CZeros(e) + Len(P!Significant(e)))
  BY <1>1, CNumberForm
<1>3. ~(x > NtoaBufferSize)
  BY <1>1 DEF P!Deviates
<1> QED
  BY <1>2, <1>3, PrintfConstants DEF P!Constants

(* All significant digits are converted, but for the 0 of a precision.     *)
LEMMA ConvertedIs ==
  ASSUME NEW e \in P!Directive, e.conv \in P!Integer, ~P!Deviates(e)
  PROVE  /\ Converted(e) \in Seq(Char)
         /\ Len(Converted(e)) \in Nat /\ Len(P!Significant(e)) \in Nat
         /\ \/ Converted(e) = P!Significant(e)
            \/ /\ Converted(e) = <<>> /\ P!Significant(e) = <<0>> /\ e.prec > 0
               /\ P!Argument(e) = 0
         /\ P!Significant(e) = <<>> => e.prec = 0 /\ P!Argument(e) = 0
<1>1. e.prec \in Int /\ e.prec >= -2 /\ (e.prec = -2 => P!Argument(e) # 0)
  BY PrecisionIs DEF P!Deviates, P!NegPrec
<1>2. PICK s : s = P!Significant(e)
  OBVIOUS
<1>3. /\ s \in Seq(Char) /\ Len(s) \in Nat
      /\ s = <<>> <=> e.prec = 0 /\ P!Argument(e) = 0
      /\ P!Argument(e) = 0 /\ e.prec # 0 => s = <<0>>
  BY <1>2, SignificantIs
<1>4. <<>> \in Seq(Char) /\ Len(<<>>) = 0
  OBVIOUS
<1>5. CASE e.prec # P!NoPrec /\ P!Argument(e) = 0
  <2>1. Converted(e) = <<>>
    BY <1>5 DEF Converted
  <2>2. CASE e.prec = 0
    BY <1>2, <1>3, <1>4, <1>5, <2>1, <2>2
  <2>3. CASE e.prec # 0
    <3>1. e.prec > 0
      BY <1>1, <1>5, <2>3 DEF P!NoPrec
    <3> QED
      BY <1>2, <1>3, <1>4, <1>5, <2>1, <2>3, <3>1
  <2> QED
    BY <2>2, <2>3
<1>6. CASE ~(e.prec # P!NoPrec /\ P!Argument(e) = 0)
  <2>1. Converted(e) = s
    BY <1>2, <1>6 DEF Converted
  <2> QED
    BY <1>2, <1>3, <2>1
<1> QED
  BY <1>5, <1>6

(* Without a prefix, zeros and digits are as many as ISO C asks for: the   *)
(* 0 that is not converted is one of the zeros.                            *)
LEMMA ZerosWithoutPrefix ==
  ASSUME NEW e \in P!Directive, e = P!d, e.conv \in P!Integer, ~P!Deviates(e),
         flags = EvaluatedFlags(e), negative = (P!Argument(e) < 0), "hash" \notin flags,
         NEW k0, k0 = Len(Converted(e))
  PROVE  ZerosWritten(e, k0) + k0 = CZeros(e) + Len(P!Significant(e))
<1>1. PICK k, l, w, z : /\ k = Len(P!Significant(e)) /\ l = Len(P!CPrefix(e))
                        /\ w = P!Width(e) /\ z = ZerosWritten(e, k0)
  OBVIOUS
<1>2. PICK p, size : p = e.prec /\ size = NtoaBufferSize
  OBVIOUS
<1>3. /\ k \in Nat /\ l \in 0..2 /\ w \in Int /\ p \in Int /\ p >= -2 /\ k0 \in Nat
      /\ size \in Nat \ {0}
  <2>1. p \in Int /\ p >= -2
    BY <1>2, PrecisionIs
  <2>3. w \in Int
    BY <1>1, DirectiveIs DEF P!Width
  <2>4. k \in Nat /\ k0 \in Nat
    BY <1>1, ConvertedIs
  <2>5. l \in 0..2
    BY <1>1, CPrefixIs
  <2>6. size \in Nat \ {0}
    BY <1>2, PrintfConstants DEF P!Constants
  <2> QED
    BY <2>1, <2>3, <2>4, <2>5, <2>6
<1>4. \/ k0 = k /\ (k = 0 => p = 0)
      \/ k0 = 0 /\ k = 1 /\ p > 0 /\ P!Argument(e) = 0
  <2>1. CASE Converted(e) = P!Significant(e)
    <3>1. k0 = k
      BY <1>1, <2>1
    <3>2. k = 0 => P!Significant(e) = <<>>
      <4>1. P!Significant(e) \in Seq(Char)
        BY SignificantIs
      <4> QED
        BY <1>1, <4>1, EmptySeq
    <3> QED
      BY <1>2, <3>1, <3>2, ConvertedIs
  <2>2. CASE Converted(e) # P!Significant(e)
    <3>1. Converted(e) = <<>> /\ P!Significant(e) = <<0>> /\ p > 0 /\ P!Argument(e) = 0
      BY <1>2, <2>2, ConvertedIs
    <3>2. Len(<<>>) = 0 /\ Len(<<0>>) = 1
      OBVIOUS
    <3> QED
      BY <1>1, <3>1, <3>2
  <2> QED
    BY <2>1, <2>2
<1>5. /\ "left" \in flags <=> P!Left(e)
      /\ "zeropad" \in flags <=> "zeropad" \in e.flags /\ p = -1
      /\ "hash" \in e.flags /\ e.conv = "o" => P!Argument(e) = 0
  BY <1>2, FlagsAre DEF P!NoPrec
<1>6. /\ P!Left(e) => ~(p > k) /\ (p = 1 => P!Argument(e) # 0)
      /\ e.conv = "o" /\ "hash" \in e.flags => k # 0
      /\ p = -2 /\ "zeropad" \in e.flags /\ ~P!Left(e) => ~(w > l + DigitsWidth(e))
  BY <1>1, <1>2, CDigitsForm DEF P!Deviates, P!NegPrec
<1>7. OctalZero(e) = 0
  <2>1. SUFFICES ASSUME OctalZero(e) # 0
                 PROVE  FALSE
    OBVIOUS
  <2>2. /\ e.conv = "o" /\ "hash" \in e.flags
        /\ P!Significant(e) = <<>> \/ P!Argument(e) # 0
    BY <2>1 DEF OctalZero
  <2>3. P!Significant(e) = <<>>
    BY <1>5, <2>2
  <2>4. k = 0
    BY <1>1, <2>3
  <2> QED
    BY <1>6, <2>2, <2>4
<1>8. PICK pz, f, c : pz = PrecisionZeros(e) /\ f = FieldZeros(e) /\ c = CZeros(e)
  OBVIOUS
<1>9. /\ pz = IF p > k THEN p - k ELSE 0
      /\ f = IF "zeropad" \in e.flags /\ ~P!Left(e) /\ p < 0 /\ w > l + (pz + k)
               THEN w - l - (pz + k) ELSE 0
      /\ c = f + pz
      /\ pz \in Nat
      /\ DigitsWidth(e) = pz + k
  <2>1. pz = IF p > k THEN p - k ELSE 0
    BY <1>1, <1>2, <1>8 DEF PrecisionZeros
  <2>2. pz \in Nat
    BY <1>3, <2>1
  <2>3. DigitsWidth(e) = pz + k
    BY <1>1, <1>3, <1>7, <1>8, <2>2 DEF DigitsWidth
  <2>4. f = IF "zeropad" \in e.flags /\ ~P!Left(e) /\ p < 0 /\ w > l + (pz + k)
              THEN w - l - (pz + k) ELSE 0
    BY <1>1, <1>2, <1>8, <2>3 DEF FieldZeros
  <2>5. f \in Nat
    BY <1>8, CNumberForm
  <2>6. c = f + pz
    BY <1>7, <1>8, <2>2, <2>5 DEF CZeros
  <2> QED
    BY <2>1, <2>2, <2>3, <2>4, <2>6
<1>10. l + (c + k) <= size
  BY <1>1, <1>2, <1>8, FitsBuffer
<1>11. CASE P!Left(e)
  <2>1. z = 0
    BY <1>1, <1>5, <1>11 DEF ZerosWritten
  <2>2. pz = 0 /\ f = 0 /\ c = 0
    BY <1>3, <1>6, <1>9, <1>11
  <2>3. k0 = k
    BY <1>3, <1>4, <1>6, <1>11
  <2> QED
    BY <1>1, <1>3, <1>8, <2>1, <2>2, <2>3
<1>12. CASE ~P!Left(e) /\ p >= 0
  <2>1. f = 0 /\ p >= 0
    BY <1>3, <1>9, <1>12
  <2>2. p <= size
    BY <1>3, <1>9, <1>10, <2>1
  <2>3. P!Bound(P!Precision(e)) = p
    <3>1. P!Precision(e) = p
      BY <1>2, <1>3, <2>1, PrecisionIs
    <3> QED
      BY <1>2, <1>3, <2>2, <3>1, BoundFits
  <2>4. z = IF p > k0 \/ 0 > k0 THEN (IF p > 0 THEN p ELSE 0) - k0 ELSE 0
    BY <1>1, <1>2, <1>5, <1>12, <2>3 DEF ZerosWritten
  <2>5. z + k0 = c + k
    BY <1>3, <1>4, <1>9, <2>1, <2>4
  <2> QED
    BY <1>1, <1>8, <2>5
<1>13. CASE ~P!Left(e) /\ p = -1
  <2>1. P!Bound(P!Precision(e)) = 0
    <3>1. P!Precision(e) = 0
      BY <1>2, <1>13 DEF P!Precision
    <3>2. 0 \in Int /\ 0 <= NtoaBufferSize
      BY PrintfConstants DEF P!Constants
    <3> QED
      BY <3>1, <3>2, BoundFits
  <2>2. k0 = k /\ pz = 0
    BY <1>3, <1>4, <1>9, <1>13
  <2>3. CASE "zeropad" \notin flags
    <3>1. z = 0
      <4>1. z = IF 0 > k0 \/ 0 > k0 THEN (IF 0 > 0 THEN 0 ELSE 0) - k0 ELSE 0
        BY <1>1, <1>2, <1>5, <1>13, <2>1, <2>3 DEF ZerosWritten
      <4> QED
        BY <1>3, <4>1
    <3>2. f = 0 /\ c = 0
      BY <1>5, <1>9, <1>13, <2>2, <2>3
    <3> QED
      BY <1>1, <1>3, <1>8, <2>2, <3>1, <3>2
  <2>4. CASE "zeropad" \in flags
    <3>1. PICK v : v = P!Bound(P!ZeroWidth)
      OBVIOUS
    <3>2. P!ZeroWidth = w - l
      BY <1>1, SignIs
    <3>3. z = IF 0 > k0 \/ v > k0 THEN (IF 0 > v THEN 0 ELSE v) - k0 ELSE 0
      BY <1>1, <1>2, <1>5, <1>13, <2>1, <2>4, <3>1 DEF ZerosWritten
    <3>4. f = IF w > l + k THEN w - l - k ELSE 0
      BY <1>3, <1>5, <1>9, <1>13, <2>2, <2>4
    <3>5. PICK x \in Int : x = w - l
      BY <1>3
    <3>6. CASE w > l + k
      <4>1. x <= size
        BY <1>3, <1>9, <1>10, <2>2, <3>4, <3>5, <3>6
      <4>2. v = x
        BY <1>2, <3>1, <3>2, <3>5, <4>1, BoundFits
      <4>3. z = x - k
        BY <1>3, <2>2, <3>3, <3>5, <3>6, <4>2
      <4>4. z + k0 = c + k
        BY <1>3, <1>9, <2>2, <3>4, <3>5, <3>6, <4>3
      <4> QED
        BY <1>1, <1>8, <4>4
    <3>7. CASE ~(w > l + k)
      <4>1. v \in Int /\ v <= x
        BY <3>1, <3>2, <3>5, BoundIs
      <4>2. z = 0
        BY <1>3, <2>2, <3>3, <3>5, <3>7, <4>1
      <4>3. z + k0 = c + k
        BY <1>3, <1>9, <2>2, <3>4, <3>7, <4>2
      <4> QED
        BY <1>1, <1>8, <4>3
    <3> QED
      BY <3>6, <3>7
  <2> QED
    BY <2>3, <2>4
<1>14. CASE ~P!Left(e) /\ p = -2
  <2>1. P!Bound(P!Precision(e)) = 0
    <3>1. P!Precision(e) = 0
      BY <1>2, <1>14 DEF P!Precision
    <3>2. 0 \in Int /\ 0 <= NtoaBufferSize
      BY PrintfConstants DEF P!Constants
    <3> QED
      BY <3>1, <3>2, BoundFits
  <2>2. k0 = k /\ pz = 0
    BY <1>3, <1>4, <1>9, <1>14
  <2>3. z = IF 0 > k0 \/ 0 > k0 THEN (IF 0 > 0 THEN 0 ELSE 0) - k0 ELSE 0
    BY <1>1, <1>2, <1>5, <1>14, <2>1 DEF ZerosWritten
  <2>4. z = 0
    BY <1>3, <2>3
  <2>5. f = 0 /\ c = 0
    BY <1>6, <1>9, <1>14, <2>2
  <2> QED
    BY <1>1, <1>3, <1>8, <2>2, <2>4, <2>5
<1>15. p >= 0 \/ p = -1 \/ p = -2
  BY <1>3
<1> QED
  BY <1>11, <1>12, <1>13, <1>14, <1>15

(* With one, as many zeros as are taken away again for the prefix; the 0   *)
(* of an octal stands for the zero that ISO C puts there.                  *)
LEMMA ZerosWithPrefix ==
  ASSUME NEW e \in P!Directive, e = P!d, e.conv \in P!Integer, ~P!Deviates(e),
         flags = EvaluatedFlags(e), negative = (P!Argument(e) < 0), "hash" \in flags,
         NEW k, k = Len(P!Significant(e)), NEW z, z = ZerosWritten(e, k),
         NEW drop, drop = IF e.conv = "x" THEN 2 ELSE 1,
         NEW o, o = IF e.conv = "o" THEN 1 ELSE 0
  PROVE  /\ Converted(e) = P!Significant(e)
         /\ e.prec = P!NoPrec /\ k + z = P!Width(e) => z >= drop /\ (z - drop) + o = CZeros(e)
         /\ ~(e.prec = P!NoPrec /\ k + z = P!Width(e)) => z + o = CZeros(e)
<1>1. PICK l, w, p, size : /\ l = Len(P!CPrefix(e)) /\ w = P!Width(e)
                           /\ p = e.prec /\ size = NtoaBufferSize
  OBVIOUS
<1>2. /\ "left" \in flags <=> P!Left(e)
      /\ "zeropad" \in flags <=> "zeropad" \in e.flags /\ p = -1
      /\ "hash" \in e.flags /\ e.conv \in {"x", "o", "b"} /\ P!Argument(e) # 0
  BY <1>1, FlagsAre DEF P!NoPrec
<1>3. Converted(e) = P!Significant(e)
  BY <1>2 DEF Converted
<1>4. /\ k \in Nat \ {0} /\ w \in Int /\ p \in Int /\ p >= -2 /\ size \in Nat \ {0}
  <2>1. p \in Int /\ p >= -2
    BY <1>1, PrecisionIs
  <2>3. w \in Int
    BY <1>1, DirectiveIs DEF P!Width
  <2>4. k \in Nat \ {0}
    <3>1. P!Significant(e) \in Seq(Char) /\ P!Significant(e) # <<>>
      BY <1>2, SignificantIs
    <3> QED
      BY <3>1, EmptySeq
  <2>5. size \in Nat \ {0}
    BY <1>1, PrintfConstants DEF P!Constants
  <2> QED
    BY <2>1, <2>3, <2>4, <2>5
<1>5. /\ l = IF e.conv = "o" THEN 0 ELSE 2
      /\ P!ZeroWidth = w
  <2>1. /\ e.conv = "x" => P!CPrefix(e) = <<0, 33>>
        /\ e.conv = "b" => P!CPrefix(e) = <<0, 11>>
        /\ e.conv = "o" => P!CPrefix(e) = <<>>
        /\ P!ZeroWidth = w
    BY <1>1, SignIs
  <2>2. Len(<<0, 33>>) = 2 /\ Len(<<0, 11>>) = 2 /\ Len(<<>>) = 0
    OBVIOUS
  <2> QED
    BY <1>1, <1>2, <2>1, <2>2
<1>6. /\ P!Left(e) => ~(p > k)
      /\ p = -1 => k # w
      /\ p = -1 /\ "zeropad" \in flags /\ ~P!Left(e) /\ e.conv = "x" => k + 1 # w
      /\ p = -1 /\ "zeropad" \in flags /\ ~P!Left(e) /\ e.conv = "b" => ~(k + 1 < w)
      /\ e.conv = "o" => ~(p > k)
      /\ p = -2 /\ "zeropad" \in e.flags /\ ~P!Left(e) => ~(w > l + DigitsWidth(e))
  BY <1>1, <1>2, CDigitsForm DEF P!Deviates, P!NoPrec, P!NegPrec
<1>7. PICK pz, f, c : pz = PrecisionZeros(e) /\ f = FieldZeros(e) /\ c = CZeros(e)
  OBVIOUS
<1>8. pz = (IF p > k THEN p - k ELSE 0) /\ pz \in Nat
  <2>1. pz = IF p > k THEN p - k ELSE 0
    BY <1>1, <1>7 DEF PrecisionZeros
  <2> QED
    BY <1>4, <2>1
<1>9. OctalZero(e) = o
  <2>1. CASE e.conv = "o"
    <3>1. p <= k
      BY <1>4, <1>6, <2>1
    <3> QED
      BY <1>1, <1>2, <2>1, <3>1 DEF OctalZero
  <2>2. CASE e.conv # "o"
    BY <2>2 DEF OctalZero
  <2> QED
    BY <2>1, <2>2
<1>10. /\ f = IF "zeropad" \in flags /\ ~P!Left(e) /\ w > l + (o + pz + k)
                THEN w - l - (o + pz + k) ELSE 0
       /\ c = f + (o + pz)
  <2>1. DigitsWidth(e) = o + pz + k
    BY <1>7, <1>9 DEF DigitsWidth
  <2>2. f = IF "zeropad" \in flags /\ ~P!Left(e) /\ w > l + (o + pz + k)
              THEN w - l - (o + pz + k) ELSE 0
    <3>1. f = IF "zeropad" \in e.flags /\ ~P!Left(e) /\ p < 0 /\ w > l + (o + pz + k)
                THEN w - l - (o + pz + k) ELSE 0
      BY <1>1, <1>7, <2>1 DEF FieldZeros
    <3>2. p < 0 <=> p = -1 \/ p = -2
      BY <1>4
    <3> QED
      BY <1>2, <1>6, <2>1, <3>1, <3>2
  <2>3. c = f + (o + pz)
    BY <1>7, <1>9 DEF CZeros
  <2> QED
    BY <2>2, <2>3
<1>11. l + (c + k) <= size
  BY <1>1, <1>7, FitsBuffer
<1>12. o \in {0, 1} /\ (o = 1 <=> e.conv = "o") /\ drop \in {1, 2} /\ (drop = 2 <=> e.conv = "x")
  OBVIOUS
<1>13. \/ e.conv = "x" /\ l = 2 /\ o = 0 /\ drop = 2
       \/ e.conv = "o" /\ l = 0 /\ o = 1 /\ drop = 1
       \/ e.conv = "b" /\ l = 2 /\ o = 0 /\ drop = 1
  BY <1>2, <1>5
<1>14. CASE P!Left(e)
  <2>1. z = 0
    BY <1>2, <1>14 DEF ZerosWritten
  <2>2. pz = 0 /\ f = 0 /\ c = o
    BY <1>4, <1>6, <1>8, <1>10, <1>12, <1>14
  <2>3. ~(p = -1 /\ k + z = w)
    BY <1>4, <1>6, <2>1
  <2>4. z + o = c
    BY <1>12, <2>1, <2>2
  <2> QED
    BY <1>1, <1>3, <1>7, <2>3, <2>4 DEF P!NoPrec
<1>15. CASE ~P!Left(e) /\ p >= 0
  <2>1. f = 0 /\ p >= 0 /\ "zeropad" \notin flags
    BY <1>2, <1>4, <1>10, <1>15
  <2>2. p <= size
    <3>1. p <= pz + k
      BY <1>4, <1>8
    <3>2. c = o + pz
      BY <1>8, <1>10, <1>12, <2>1
    <3>3. l + ((o + pz) + k) <= size
      BY <1>11, <3>2
    <3>4. l \in Nat /\ o \in Nat
      BY <1>13
    <3>5. pz + k <= size
      <4>1. pz \in Nat /\ k \in Nat /\ size \in Nat
        BY <1>4, <1>8
      <4> QED
        BY <3>3, <3>4, <4>1
    <3>6. pz \in Nat /\ k \in Nat /\ size \in Nat /\ p \in Int
      BY <1>4, <1>8
    <3> QED
      BY <3>1, <3>5, <3>6
  <2>3. P!Bound(P!Precision(e)) = p
    <3>1. P!Precision(e) = p
      BY <1>1, <1>4, <2>1, PrecisionIs
    <3> QED
      BY <1>1, <1>4, <2>2, <3>1, BoundFits
  <2>4. z = IF p > k \/ 0 > k THEN (IF p > 0 THEN p ELSE 0) - k ELSE 0
    BY <1>1, <1>2, <1>15, <2>1, <2>3 DEF ZerosWritten
  <2>5. z = pz
    BY <1>4, <1>8, <2>1, <2>4
  <2>6. z + o = c
    BY <1>8, <1>10, <1>12, <2>1, <2>5
  <2> QED
    BY <1>1, <1>3, <1>7, <1>15, <2>6 DEF P!NoPrec
<1>16. CASE ~P!Left(e) /\ p = -1
  <2>1. P!Bound(P!Precision(e)) = 0
    <3>1. P!Precision(e) = 0
      BY <1>1, <1>16 DEF P!Precision
    <3>2. 0 \in Int /\ 0 <= NtoaBufferSize
      BY PrintfConstants DEF P!Constants
    <3> QED
      BY <3>1, <3>2, BoundFits
  <2>2. pz = 0
    BY <1>4, <1>8, <1>16
  <2>3. CASE "zeropad" \notin flags
    <3>1. z = 0
      <4>1. z = IF 0 > k \/ 0 > k THEN (IF 0 > 0 THEN 0 ELSE 0) - k ELSE 0
        BY <1>1, <1>2, <1>16, <2>1, <2>3 DEF ZerosWritten
      <4> QED
        BY <1>4, <4>1
    <3>2. f = 0 /\ c = o
      BY <1>10, <1>12, <2>2, <2>3
    <3>3. ~(k + z = w) /\ z + o = c
      BY <1>4, <1>6, <1>12, <1>16, <3>1, <3>2
    <3> QED
      BY <1>1, <1>3, <1>7, <3>3
  <2>4. CASE "zeropad" \in flags
    <3>1. PICK v : v = P!Bound(P!ZeroWidth)
      OBVIOUS
    <3>2. z = IF 0 > k \/ v > k THEN (IF 0 > v THEN 0 ELSE v) - k ELSE 0
      BY <1>1, <1>2, <1>16, <2>1, <2>4, <3>1 DEF ZerosWritten
    <3>3. f = IF w > l + (o + k) THEN w - l - (o + k) ELSE 0
      <4>1. o + pz + k = o + k
        BY <1>4, <1>12, <2>2
      <4> QED
        BY <1>10, <1>16, <2>4, <4>1
    <3>4. c = f + o /\ f \in Nat
      <4>1. f \in Nat
        BY <1>7, CNumberForm
      <4> QED
        BY <1>10, <1>12, <2>2, <4>1
    <3>5. /\ k # w
          /\ e.conv = "x" => k + 1 # w
          /\ e.conv = "b" => ~(k + 1 < w)
      BY <1>6, <1>16, <2>4
    <3>6. CASE w > k
      <4>1. w <= size
        <5>1. l + ((f + o) + k) <= size
          BY <1>11, <3>4
        <5>2. w <= l + ((f + o) + k)
          <6>1. CASE e.conv = "x" /\ l = 2 /\ o = 0
            BY <1>4, <3>3, <3>4, <3>6, <6>1
          <6>2. CASE e.conv = "o" /\ l = 0 /\ o = 1
            BY <1>4, <3>3, <3>4, <3>6, <6>2
          <6>3. CASE e.conv = "b" /\ l = 2 /\ o = 0
            BY <1>4, <3>3, <3>4, <3>6, <6>3
          <6> QED
            BY <1>13, <6>1, <6>2, <6>3
        <5>3. l \in Nat /\ o \in Nat
          BY <1>13
        <5> QED
          BY <1>4, <3>4, <5>1, <5>2, <5>3
      <4>2. v = w
        BY <1>1, <1>4, <1>5, <3>1, <4>1, BoundFits
      <4>3. z = w - k
        BY <1>4, <3>2, <3>6, <4>2
      <4>4. k + z = w /\ z >= drop /\ (z - drop) + o = c
        <5>1. k + z = w
          BY <1>4, <4>3
        <5>2. CASE e.conv = "x" /\ l = 2 /\ o = 0 /\ drop = 2
          BY <1>4, <3>3, <3>4, <3>5, <3>6, <4>3, <5>1, <5>2
        <5>3. CASE e.conv = "o" /\ l = 0 /\ o = 1 /\ drop = 1
          BY <1>4, <3>3, <3>4, <3>5, <3>6, <4>3, <5>1, <5>3
        <5>4. CASE e.conv = "b" /\ l = 2 /\ o = 0 /\ drop = 1
          BY <1>4, <3>3, <3>4, <3>5, <3>6, <4>3, <5>1, <5>4
        <5> QED
          BY <1>13, <5>2, <5>3, <5>4
      <4> QED
        BY <1>1, <1>3, <1>7, <1>16, <4>4 DEF P!NoPrec
    <3>7. CASE ~(w > k)
      <4>1. v \in Int /\ v <= w
        BY <1>4, <1>5, <3>1, BoundIs
      <4>2. z = 0
        BY <1>4, <3>2, <3>7, <4>1
      <4>3. ~(k + z = w) /\ z + o = c
        <5>1. f = 0
          BY <1>4, <1>13, <3>3, <3>7
        <5>2. k + z # w
          BY <1>4, <3>5, <4>2
        <5>3. z + o = c
          BY <1>12, <3>4, <4>2, <5>1
        <5> QED
          BY <5>2, <5>3
      <4> QED
        BY <1>1, <1>3, <1>7, <4>3
    <3> QED
      BY <3>6, <3>7
  <2> QED
    BY <2>3, <2>4
<1>17. CASE ~P!Left(e) /\ p = -2
  <2>1. P!Bound(P!Precision(e)) = 0
    <3>1. P!Precision(e) = 0
      BY <1>1, <1>17 DEF P!Precision
    <3>2. 0 \in Int /\ 0 <= NtoaBufferSize
      BY PrintfConstants DEF P!Constants
    <3> QED
      BY <3>1, <3>2, BoundFits
  <2>2. "zeropad" \notin flags /\ f = 0 /\ pz = 0
    BY <1>2, <1>4, <1>8, <1>10, <1>17
  <2>3. z = IF 0 > k \/ 0 > k THEN (IF 0 > 0 THEN 0 ELSE 0) - k ELSE 0
    BY <1>1, <1>2, <1>17, <2>1, <2>2 DEF ZerosWritten
  <2>4. z = 0
    BY <1>4, <2>3
  <2>5. z + o = c
    BY <1>10, <1>12, <2>2, <2>4
  <2> QED
    BY <1>1, <1>3, <1>7, <1>17, <2>5 DEF P!NoPrec
<1>18. p >= 0 \/ p = -1 \/ p = -2
  BY <1>4
<1> QED
  BY <1>14, <1>15, <1>16, <1>17, <1>18

(* buf, seen from its end: a prefix or sign, zeros, digits.                *)
LEMMA NumberReversed ==
  ASSUME NEW s \in Seq(Char), NEW z \in Nat, NEW x \in Seq(Char)
  PROVE  /\ (s \o Zeros(z)) \o x \in Seq(Char)
         /\ Len((s \o Zeros(z)) \o x) = (Len(s) + z) + Len(x)
         /\ Len(s \o Zeros(z)) = Len(s) + z /\ s \o Zeros(z) \in Seq(Char)
         /\ P!Reversed((s \o Zeros(z)) \o x) = P!Reversed(x) \o (Zeros(z) \o P!Reversed(s))
<1>1. PICK y, t : y = Zeros(z) /\ t = s \o y
  OBVIOUS
<1>2. y \in Seq(Char) /\ Len(y) = z /\ P!Reversed(y) = y
  <2>1. z \in Int
    OBVIOUS
  <2> QED
    BY <1>1, <2>1, ZerosAre
<1>3. t \in Seq(Char) /\ Len(t) = Len(s) + z
  <2>1. s \o y \in Seq(Char) /\ Len(s \o y) = Len(s) + Len(y)
    BY <1>2, Joined
  <2> QED
    BY <1>1, <1>2, <2>1
<1>4. t \o x \in Seq(Char) /\ Len(t \o x) = (Len(s) + z) + Len(x)
  <2>1. t \o x \in Seq(Char) /\ Len(t \o x) = Len(t) + Len(x)
    BY <1>3, Joined
  <2> QED
    BY <1>3, <2>1
<1>5. P!Reversed(t \o x) = P!Reversed(x) \o P!Reversed(t)
  BY <1>3, ReversedConcat
<1>6. P!Reversed(t) = y \o P!Reversed(s)
  BY <1>1, <1>2, ReversedConcat
<1> QED
  BY <1>1, <1>3, <1>4, <1>5, <1>6

LEMMA PairJoined ==
  ASSUME NEW a \in Char, NEW b \in Char
  PROVE  /\ <<a>> \o <<b>> = <<a, b>>
         /\ <<a, b>> \in Seq(Char) /\ Len(<<a, b>>) = 2
<1>1. PICK s, t, u : s = <<a>> /\ t = <<b>> /\ u = <<a, b>>
  OBVIOUS
<1>2. s \in Seq(Char) /\ Len(s) = 1 /\ s[1] = a
  BY <1>1
<1>3. t \in Seq(Char) /\ Len(t) = 1 /\ t[1] = b
  BY <1>1
<1>4. u \in Seq(Char) /\ Len(u) = 2 /\ u[1] = a /\ u[2] = b
  BY <1>1
<1>5. s \o t \in Seq(Char) /\ Len(s \o t) = 2
  BY <1>2, <1>3, Joined
<1>6. \A i \in 1..2 : (s \o t)[i] = u[i]
  <2>1. \A i \in 1..(1 + 1) : (s \o t)[i] = IF i <= 1 THEN s[i] ELSE t[i - 1]
    BY <1>2, <1>3, Joined
  <2>2. (s \o t)[1] = s[1]
    <3>1. 1 \in 1..(1 + 1) /\ 1 <= 1
      OBVIOUS
    <3> QED
      BY <2>1, <3>1
  <2>3. (s \o t)[2] = t[1]
    <3>1. 2 \in 1..(1 + 1) /\ ~(2 <= 1) /\ 2 - 1 = 1
      OBVIOUS
    <3>2. (s \o t)[2] = t[2 - 1]
      BY <2>1, <3>1
    <3> QED
      BY <3>1, <3>2
  <2>4. \A i \in 1..2 : i = 1 \/ i = 2
    OBVIOUS
  <2> QED
    BY <1>2, <1>3, <1>4, <2>2, <2>3, <2>4
<1>7. s \o t = u
  BY <1>4, <1>5, <1>6, SameText
<1> QED
  BY <1>1, <1>4, <1>7

LEMMA SignReversed ==
  ASSUME negative \in BOOLEAN
  PROVE  P!Reversed(P!SignText) = P!SignText
<1>1. P!Minus \in Char /\ P!Plus \in Char /\ P!Space \in Char
  BY DEF P!Minus, P!Plus, P!Space, Char
<1>2. P!SignText \in {<<P!Minus>>, <<P!Plus>>, <<P!Space>>, <<>>}
  BY DEF P!SignText
<1> QED
  BY <1>1, <1>2, ReversedOne, ReversedNone

(* Without a prefix: zeros up to the precision or the width, and the sign. *)
LEMMA PlainNumber ==
  ASSUME NEW e \in P!Directive, e = P!d, e.conv \in P!Integer, ~P!Deviates(e),
         flags = EvaluatedFlags(e), negative = (P!Argument(e) < 0), negative \in BOOLEAN,
         "hash" \notin flags, buf = P!Reversed(Converted(e))
  PROVE  P!Reversed(P!AppendFitting(P!WithPrefix(P!WithZeros(buf)), P!SignText)) = P!CNumber(e)
<1>1. PICK s, k0, sig, k, z, c, pre :
        /\ s = Converted(e) /\ k0 = Len(s) /\ sig = P!Significant(e) /\ k = Len(sig)
        /\ z = ZerosWritten(e, k0) /\ c = CZeros(e) /\ pre = P!SignText
  OBVIOUS
<1>2. s \in Seq(Char) /\ k0 \in Nat /\ k \in Nat /\ sig \in Seq(Char) /\ c \in Nat
  BY <1>1, ConvertedIs, SignificantIs, CNumberForm
<1>3. buf \in Seq(Char) /\ Len(buf) = k0 /\ P!Reversed(buf) = s
  BY <1>1, <1>2, ReversedAt, ReversedTwice
<1>4. z \in Nat /\ P!WithZeros(buf) = buf \o Zeros(z)
  BY <1>1, <1>3, WithZerosForm
<1>5. z + k0 = c + k
  BY <1>1, ZerosWithoutPrefix
<1>6. pre = P!CPrefix(e) /\ pre \in Seq(Char) /\ P!Reversed(pre) = pre /\ Len(pre) \in Nat
  <2>1. pre = P!CPrefix(e)
    BY <1>1, SignIs
  <2>2. pre \in Seq(Char)
    BY <2>1, CPrefixIs
  <2> QED
    BY <1>1, <2>1, <2>2, SignReversed
<1>7. PICK t : t = buf \o Zeros(z)
  OBVIOUS
<1>8. /\ t \in Seq(Char) /\ Len(t) = k0 + z
      /\ P!Reversed(t \o pre) = P!Reversed(pre) \o (Zeros(z) \o P!Reversed(buf))
  BY <1>3, <1>4, <1>6, <1>7, NumberReversed
<1>9. P!AppendFitting(t, pre) = t \o pre
  <2>1. Len(pre) + (c + k) <= NtoaBufferSize
    BY <1>1, <1>6, FitsBuffer
  <2>2. Len(t) + Len(pre) <= NtoaBufferSize
    BY <1>2, <1>4, <1>5, <1>6, <1>8, <2>1, PrintfConstants DEF P!Constants
  <2> QED
    BY <1>6, <1>8, <2>2, Fitting
<1>10. P!WithPrefix(t) = t
  BY DEF P!WithPrefix
<1>11. Zeros(z) \o s = Zeros(c) \o sig
  <2>1. CASE s = sig
    <3>1. z = c
      BY <1>1, <1>2, <1>4, <1>5, <2>1
    <3> QED
      BY <2>1, <3>1
  <2>2. CASE s # sig
    <3>1. s = <<>> /\ sig = <<0>>
      BY <1>1, <2>2, ConvertedIs
    <3>2. PICK one \in Nat : one = 1
      OBVIOUS
    <3>3. k0 = 0 /\ k = 1 /\ z = c + one
      <4>1. Len(<<>>) = 0 /\ Len(<<0>>) = 1
        OBVIOUS
      <4>2. k0 = 0 /\ k = 1
        BY <1>1, <3>1, <4>1
      <4> QED
        BY <1>2, <1>4, <1>5, <3>2, <4>2
    <3>4. Zeros(c) \o Zeros(one) = Zeros(z)
      BY <1>2, <3>3, ZerosSplit
    <3>5. Zeros(one) = sig
      BY <3>1, <3>2, ZerosOne
    <3>6. Zeros(z) \o s = Zeros(z)
      <4>1. z \in Int
        BY <1>4
      <4> QED
        BY <3>1, <4>1, ZerosAre, JoinedEmpty
    <3> QED
      BY <3>4, <3>5, <3>6
  <2> QED
    BY <2>1, <2>2
<1>12. P!CNumber(e) = pre \o (Zeros(c) \o sig)
  BY <1>1, <1>6, CNumberForm
<1>13. P!Reversed(t \o pre) = P!CNumber(e)
  BY <1>3, <1>6, <1>8, <1>11, <1>12
<1> QED
  BY <1>1, <1>4, <1>7, <1>9, <1>10, <1>13

(* With one: it takes the place of zeros that fill the width.              *)
LEMMA PrefixedNumber ==
  ASSUME NEW e \in P!Directive, e = P!d, e.conv \in P!Integer, ~P!Deviates(e),
         flags = EvaluatedFlags(e), negative = (P!Argument(e) < 0),
         "hash" \in flags, buf = P!Reversed(Converted(e))
  PROVE  P!Reversed(P!AppendFitting(P!WithPrefix(P!WithZeros(buf)), P!SignText)) = P!CNumber(e)
<1>1. PICK sig, k, z, c : /\ sig = P!Significant(e) /\ k = Len(sig)
                          /\ z = ZerosWritten(e, k) /\ c = CZeros(e)
  OBVIOUS
<1>2. PICK drop, o : /\ drop = (IF e.conv = "x" THEN 2 ELSE 1)
                     /\ o = (IF e.conv = "o" THEN 1 ELSE 0)
  OBVIOUS
<1>3. /\ Converted(e) = P!Significant(e)
      /\ e.prec = P!NoPrec /\ k + z = P!Width(e) => z >= drop /\ (z - drop) + o = CZeros(e)
      /\ ~(e.prec = P!NoPrec /\ k + z = P!Width(e)) => z + o = CZeros(e)
  <2>1. k = Len(P!Significant(e)) /\ z = ZerosWritten(e, k)
    BY <1>1
  <2>2. drop = (IF e.conv = "x" THEN 2 ELSE 1) /\ o = (IF e.conv = "o" THEN 1 ELSE 0)
    BY <1>2
  <2> QED
    BY <2>1, <2>2, ZerosWithPrefix
<1>4. e.conv \in {"x", "o", "b"}
  BY FlagsAre
<1>5. PICK cut : cut = (e.prec = P!NoPrec /\ k + z = P!Width(e))
  OBVIOUS
<1>6. /\ Converted(e) = sig
      /\ cut => z >= drop /\ (z - drop) + o = c
      /\ ~cut => z + o = c
  BY <1>1, <1>3, <1>5
<1>7. k \in Nat /\ sig \in Seq(Char) /\ c \in Nat
  BY <1>1, SignificantIs, CNumberForm
<1>8. buf \in Seq(Char) /\ Len(buf) = k /\ P!Reversed(buf) = sig
  BY <1>1, <1>6, <1>7, ReversedAt, ReversedTwice
<1>9. z \in Nat /\ P!WithZeros(buf) = buf \o Zeros(z)
  BY <1>1, <1>8, WithZerosForm
<1>10. PICK y : y = IF cut THEN z - drop ELSE z
  OBVIOUS
<1>11. drop \in {1, 2} /\ o \in {0, 1}
  BY <1>2
<1>12. y \in Nat /\ y <= z /\ y + o = c
  BY <1>6, <1>7, <1>9, <1>10, <1>11
<1>13. PICK t, u : t = buf \o Zeros(z) /\ u = buf \o Zeros(y)
  OBVIOUS
<1>14. PICK letter, x : /\ letter = (CASE P!Base(e) = 16 -> <<33>>
                                       [] P!Base(e) = 2 -> <<11>> [] OTHER -> <<>>)
                        /\ x = letter \o <<0>>
  OBVIOUS
<1>15. t \in Seq(Char) /\ Len(t) = k + z
  BY <1>8, <1>9, <1>13, NumberReversed
<1>16. P!WithPrefix(t) = P!AppendFitting(u, x)
  <2>1. P!WithPrefix(t) = P!AppendFitting(
          IF e.prec = P!NoPrec /\ Len(t) = P!Width(e)
            THEN SubSeq(t, 1, Len(t) - (IF P!Base(e) = 16 THEN 2 ELSE 1)) ELSE t, x)
    BY <1>14 DEF P!WithPrefix
  <2>2. (IF P!Base(e) = 16 THEN 2 ELSE 1) = drop
    BY <1>2, <1>4 DEF P!Base
  <2>3. CASE cut
    <3>1. P!WithPrefix(t) = P!AppendFitting(SubSeq(t, 1, Len(t) - drop), x)
      BY <1>5, <1>15, <2>1, <2>2, <2>3
    <3>2. SubSeq(buf \o Zeros(z), 1, Len(buf) + y) = buf \o Zeros(y)
      BY <1>8, <1>9, <1>12, CutZeros
    <3>3. Len(t) - drop = k + y
      BY <1>7, <1>9, <1>10, <1>11, <1>15, <2>3
    <3> QED
      BY <1>8, <1>13, <3>1, <3>2, <3>3
  <2>4. CASE ~cut
    <3>1. P!WithPrefix(t) = P!AppendFitting(t, x)
      BY <1>5, <1>15, <2>1, <2>4
    <3> QED
      BY <1>10, <1>13, <2>4, <3>1
  <2> QED
    BY <1>5, <2>3, <2>4
<1>17. PICK pre, l : pre = P!CPrefix(e) /\ l = Len(pre)
  OBVIOUS
<1>18. /\ x \in Seq(Char) /\ Len(x) \in Nat /\ Len(x) = l + o
       /\ P!Reversed(x) = pre \o Zeros(o)
       /\ pre \in Seq(Char) /\ l \in Nat
  <2>1. 0 \in Char /\ 11 \in Char /\ 33 \in Char
    BY DEF Char
  <2>2. P!Reversed(<<0>>) = <<0>> /\ P!Reversed(<<11>>) = <<11>> /\ P!Reversed(<<33>>) = <<33>>
    BY <2>1, ReversedOne
  <2>3. /\ e.conv = "x" => pre = <<0, 33>>
        /\ e.conv = "b" => pre = <<0, 11>>
        /\ e.conv = "o" => pre = <<>>
    BY <1>17, SignIs
  <2>4. PICK a, b, zero : a = <<33>> /\ b = <<11>> /\ zero = <<0>>
    OBVIOUS
  <2>5. a \in Seq(Char) /\ b \in Seq(Char) /\ zero \in Seq(Char)
    BY <2>1, <2>4
  <2>6. CASE e.conv = "x"
    <3>1. x = a \o zero
      BY <1>14, <2>4, <2>6 DEF P!Base
    <3>2. P!Reversed(x) = zero \o a
      BY <2>2, <2>4, <2>5, <3>1, ReversedConcat
    <3>3. zero \o a = <<0, 33>> /\ x = <<33, 0>>
      BY <2>1, <2>4, <3>1, PairJoined
    <3>4. /\ <<0, 33>> \in Seq(Char) /\ Len(<<0, 33>>) = 2
          /\ <<33, 0>> \in Seq(Char) /\ Len(<<33, 0>>) = 2
      BY <2>1, PairJoined
    <3>5. pre = <<0, 33>> /\ pre \in Seq(Char) /\ l = 2 /\ x \in Seq(Char) /\ Len(x) = 2
      BY <1>17, <2>3, <2>6, <3>3, <3>4
    <3>6. o = 0 /\ pre \o Zeros(o) = pre
      <4>1. o \in Int /\ o <= 0 /\ o = 0
        BY <1>2, <2>6
      <4>2. Zeros(o) = <<>>
        BY <4>1, ZerosAre
      <4> QED
        BY <3>5, <4>1, <4>2, JoinedEmpty
    <3> QED
      BY <3>2, <3>3, <3>5, <3>6
  <2>7. CASE e.conv = "b"
    <3>1. x = b \o zero
      BY <1>14, <2>4, <2>7 DEF P!Base
    <3>2. P!Reversed(x) = zero \o b
      BY <2>2, <2>4, <2>5, <3>1, ReversedConcat
    <3>3. zero \o b = <<0, 11>> /\ x = <<11, 0>>
      BY <2>1, <2>4, <3>1, PairJoined
    <3>4. /\ <<0, 11>> \in Seq(Char) /\ Len(<<0, 11>>) = 2
          /\ <<11, 0>> \in Seq(Char) /\ Len(<<11, 0>>) = 2
      BY <2>1, PairJoined
    <3>5. pre = <<0, 11>> /\ pre \in Seq(Char) /\ l = 2 /\ x \in Seq(Char) /\ Len(x) = 2
      BY <1>17, <2>3, <2>7, <3>3, <3>4
    <3>6. o = 0 /\ pre \o Zeros(o) = pre
      <4>1. o \in Int /\ o <= 0 /\ o = 0
        BY <1>2, <2>7
      <4>2. Zeros(o) = <<>>
        BY <4>1, ZerosAre
      <4> QED
        BY <3>5, <4>1, <4>2, JoinedEmpty
    <3> QED
      BY <3>2, <3>3, <3>5, <3>6
  <2>8. CASE e.conv = "o"
    <3>1. x = zero
      <4>1. letter = <<>>
        BY <1>14, <2>8 DEF P!Base
      <4> QED
        BY <1>14, <2>4, <2>5, <4>1, JoinedEmpty
    <3>2. pre = <<>> /\ pre \in Seq(Char) /\ l = 0 /\ Len(x) = 1 /\ o = 1
      BY <1>2, <1>17, <2>3, <2>4, <2>8, <3>1
    <3>3. pre \o Zeros(o) = zero
      BY <2>4, <2>5, <3>2, ZerosOne, JoinedEmpty
    <3> QED
      BY <2>2, <2>4, <2>5, <3>1, <3>2, <3>3
  <2> QED
    BY <1>4, <2>6, <2>7, <2>8
<1>19. /\ u \in Seq(Char) /\ Len(u) = k + y /\ u \o x \in Seq(Char)
       /\ P!Reversed(u \o x) = P!Reversed(x) \o (Zeros(y) \o sig)
       /\ Len(u \o x) = (k + y) + Len(x)
  <2>1. PICK r : r = buf
    OBVIOUS
  <2>2. r \in Seq(Char) /\ Len(r) = k /\ P!Reversed(r) = sig /\ u = r \o Zeros(y)
    BY <1>8, <1>13, <2>1
  <2>3. y \in Nat /\ x \in Seq(Char)
    BY <1>12, <1>18
  <2>4. /\ (r \o Zeros(y)) \o x \in Seq(Char)
        /\ Len((r \o Zeros(y)) \o x) = (Len(r) + y) + Len(x)
        /\ Len(r \o Zeros(y)) = Len(r) + y /\ r \o Zeros(y) \in Seq(Char)
        /\ P!Reversed((r \o Zeros(y)) \o x) = P!Reversed(x) \o (Zeros(y) \o P!Reversed(r))
    BY <2>2, <2>3, NumberReversed
  <2> QED
    BY <2>2, <2>4
<1>20. (k + y) + Len(x) <= NtoaBufferSize
  <2>1. l + (c + k) <= NtoaBufferSize
    BY <1>1, <1>17, FitsBuffer
  <2>2. PICK m, q : m = Len(x) /\ q = NtoaBufferSize
    OBVIOUS
  <2>3. q \in Nat
    BY <2>2, PrintfConstants DEF P!Constants
  <2>4. m = l + o /\ l \in Nat /\ o \in Nat /\ l + (c + k) <= q
    BY <1>11, <1>18, <2>1, <2>2
  <2>5. (k + y) + m <= q
    BY <1>7, <1>12, <2>3, <2>4
  <2> QED
    BY <2>2, <2>5
<1>21. P!AppendFitting(u, x) = u \o x
  BY <1>18, <1>19, <1>20, Fitting
<1>22. P!SignText = <<>>
  BY SignIs
<1>23. P!AppendFitting(u \o x, P!SignText) = u \o x
  <2>1. PICK ux, none : ux = u \o x /\ none = <<>>
    OBVIOUS
  <2>2. /\ ux \in Seq(Char) /\ none \in Seq(Char) /\ Len(none) = 0
        /\ Len(ux) = (k + y) + Len(x)
    BY <1>19, <2>1
  <2>3. Len(ux) + Len(none) <= NtoaBufferSize
    BY <1>7, <1>12, <1>18, <1>20, <2>2
  <2>4. P!AppendFitting(ux, none) = ux \o none
    BY <2>2, <2>3, Fitting
  <2>5. ux \o none = ux
    BY <2>1, <2>2, JoinedEmpty
  <2> QED
    BY <1>22, <2>1, <2>4, <2>5
<1>24. P!Reversed(u \o x) = pre \o (Zeros(c) \o sig)
  <2>1. PICK zo, zy, zc : zo = Zeros(o) /\ zy = Zeros(y) /\ zc = Zeros(c)
    OBVIOUS
  <2>2. zo \in Seq(Char) /\ zy \in Seq(Char) /\ zo \o zy = zc
    <3>1. o \in Int /\ y \in Int /\ o \in Nat /\ o + y = c
      BY <1>7, <1>11, <1>12
    <3> QED
      BY <1>12, <2>1, <3>1, ZerosAre, ZerosSplit
  <2>3. PICK r : r = zy \o sig
    OBVIOUS
  <2>4. r \in Seq(Char)
    BY <1>7, <2>2, <2>3, Joined
  <2>5. (pre \o zo) \o r = pre \o (zo \o r)
    BY <1>18, <2>2, <2>4, JoinedAgain
  <2>6. zo \o r = zc \o sig
    BY <1>7, <2>2, <2>3, JoinedAgain
  <2> QED
    BY <1>18, <1>19, <2>1, <2>3, <2>5, <2>6
<1>25. P!CNumber(e) = pre \o (Zeros(c) \o sig)
  BY <1>1, <1>17, CNumberForm
<1> QED
  BY <1>9, <1>13, <1>16, <1>21, <1>23, <1>24, <1>25

(* A text as long as its field is not padded.                              *)
LEMMA FieldNothing ==
  ASSUME NEW s \in Seq(Char), NEW e, e.width \in Int, P!Width(e) <= Len(s)
  PROVE  P!Field(s, e) = s
<1>1. PICK n : n = P!Width(e) - Len(s)
  OBVIOUS
<1>2. n \in Int /\ n <= 0
  BY <1>1 DEF P!Width
<1>3. P!Repeat(P!Space, n) = <<>>
  BY <1>2, RepeatNone
<1>4. P!Field(s, e) = s \o <<>> \/ P!Field(s, e) = <<>> \o s
  BY <1>1, <1>3 DEF P!Field
<1> QED
  BY <1>4, JoinedEmpty

(* Zeros fill the width where the flag asks for them.                      *)
LEMMA ZerosFill ==
  ASSUME NEW e \in P!Directive, e.conv \in P!Integer,
         "zeropad" \in e.flags, ~P!Left(e), e.prec < 0
  PROVE  P!Field(P!CNumber(e), e) = P!CNumber(e)
<1>1. PICK l, w, g, f, k : /\ l = Len(P!CPrefix(e)) /\ w = P!Width(e) /\ g = DigitsWidth(e)
                           /\ f = FieldZeros(e) /\ k = Len(P!Significant(e))
  OBVIOUS
<1>2. PICK o, p, x : o = OctalZero(e) /\ p = PrecisionZeros(e) /\ x = Len(P!CNumber(e))
  OBVIOUS
<1>3. l \in Nat /\ g \in Nat /\ f \in Nat /\ k \in Nat /\ o \in Nat /\ p \in Nat /\ w \in Int
  <2>1. l \in 0..2
    BY <1>1, CPrefixIs
  <2>2. g \in Nat /\ p \in Nat /\ o \in {0, 1}
    BY <1>1, <1>2, ZerosCounted
  <2>3. f \in Nat
    BY <1>1, CNumberForm
  <2>4. w \in Int
    BY <1>1, DirectiveIs DEF P!Width
  <2>5. k \in Nat
    BY <1>1, SignificantIs
  <2> QED
    BY <2>1, <2>2, <2>3, <2>4, <2>5
<1>4. f = IF w > l + g THEN w - l - g ELSE 0
  BY <1>1 DEF FieldZeros
<1>5. g = o + p + k
  BY <1>1, <1>2 DEF DigitsWidth
<1>6. x = l + ((f + (o + p)) + k)
  BY <1>1, <1>2, CNumberForm DEF CZeros
<1>7. w <= x
  BY <1>3, <1>4, <1>5, <1>6
<1>8. P!CNumber(e) \in Seq(Char) /\ e.width \in Int
  BY CNumberForm, DirectiveIs
<1> QED
  BY <1>1, <1>2, <1>7, <1>8, FieldNothing

(* _ntoa_format leaves the number of ISO C in buf, from its end.           *)
LEMMA FormatNumberConverts ==
  ASSUME PrintfInv, ConvertingInv, P!FormatNumber
  PROVE  ConvertingInv'
<1>1. PICK e : e = P!d
  OBVIOUS
<1>2. /\ ppc = "number" /\ ppc' = "out" /\ fmt' = fmt /\ flags' = flags /\ negative' = negative
      /\ buf' = P!AppendFitting(P!WithPrefix(P!WithZeros(buf)), P!SignText)
  BY DEF P!FormatNumber
<1>3. e.conv \in P!Integer /\ fmt # <<>> /\ negative \in BOOLEAN
  BY <1>1, <1>2 DEF PrintfInv, P!TypeOK, Converting, P!d
<1>4. e \in P!Directive
  BY <1>1, <1>2, <1>3, NextDirectiveIs
<1>5. /\ flags = EvaluatedFlags(e) /\ negative = (P!Argument(e) < 0)
      /\ buf = P!Reversed(Converted(e)) \/ P!Deviates(e)
  BY <1>1, <1>2 DEF ConvertingInv
<1>6. P!d' = e
  BY <1>1, <1>2, DirectiveKept
<1>7. SUFFICES ASSUME ~P!Deviates(e)
               PROVE  P!CText(e) = IF "zeropad" \in flags /\ "left" \notin flags
                                     THEN P!Reversed(buf') ELSE P!Field(P!Reversed(buf'), e)
  BY <1>2, <1>6 DEF ConvertingInv
<1>8. P!Reversed(buf') = P!CNumber(e)
  <2>1. CASE "hash" \notin flags
    BY <1>1, <1>2, <1>3, <1>4, <1>5, <1>7, <2>1, PlainNumber
  <2>2. CASE "hash" \in flags
    BY <1>1, <1>2, <1>3, <1>4, <1>5, <1>7, <2>2, PrefixedNumber
  <2> QED
    BY <2>1, <2>2
<1>9. P!CText(e) = P!Field(P!CNumber(e), e)
  BY <1>3 DEF P!CText, P!Integer
<1>10. "zeropad" \in flags /\ "left" \notin flags => P!Field(P!CNumber(e), e) = P!CNumber(e)
  <2>1. SUFFICES ASSUME "zeropad" \in flags, "left" \notin flags
                 PROVE  P!Field(P!CNumber(e), e) = P!CNumber(e)
    OBVIOUS
  <2>2. "zeropad" \in e.flags /\ ~P!Left(e) /\ e.prec < 0
    BY <1>1, <1>3, <1>5, <2>1, FlagsAre DEF P!NoPrec
  <2> QED
    BY <1>3, <1>4, <2>2, ZerosFill
<1> QED
  BY <1>8, <1>9, <1>10

LEMMA CallConverts ==
  ASSUME PrintfInv, ConvertingInv, P!Next
  PROVE  ConvertingInv'
<1>1. CASE P!OutText
  BY <1>1 DEF P!OutText, P!IsNext, ConvertingInv
<1>2. CASE P!OutCharOrString
  BY <1>2 DEF P!OutCharOrString, P!IsNext, ConvertingInv
<1>3. CASE P!StartNumber
  BY <1>3, StartNumberConverts
<1>4. CASE P!NextDigit
  BY <1>4, NextDigitConverts
<1>5. CASE P!FormatNumber
  BY <1>5, FormatNumberConverts
<1>6. CASE P!OutNumber
  BY <1>6 DEF P!OutNumber, ConvertingInv
<1>7. CASE P!Terminate
  BY <1>7 DEF P!Terminate, ConvertingInv
<1> QED
  BY <1>1, <1>2, <1>3, <1>4, <1>5, <1>6, <1>7 DEF P!Next

-----------------------------------------------------------------------------
(* What a call has put out so far.                                         *)

(* The call has put out the text t.  The terminator may take the place of  *)
(* a character.                                                            *)
Written(t) ==
  /\ idx = Len(t)
  /\ call.sink = "console" => console = P!Visible(t)
  /\ call.sink = "buffer" =>
       \A i \in DOMAIN memory :
         i < Len(t) /\ i < call.maxlen - (IF ppc = "done" THEN 1 ELSE 0) => memory[i] = t[i + 1]

(* fmt is what follows the directives done ...                             *)
DirectivesDone == Len(call.format) - Len(fmt)
FollowsFormat ==
  /\ DirectivesDone \in Nat
  /\ \A i \in 1..Len(fmt) : fmt[i] = call.format[DirectivesDone + i]

(* ... and what is written is their text.                                  *)
ProgressInv ==
  ppc # "typed" =>
    /\ FollowsFormat
    /\ ppc = "done" => fmt = <<>>
    /\ (\A n \in 1..Len(call.format) : ~P!Deviates(call.format[n])) =>
         \A T : /\ JoinsTexts(call.format, T)
                /\ \A n \in 0..Len(call.format) : T[n] \in Seq(Char)
                => Written(T[DirectivesDone])

(* What is put out comes behind what is there.                             *)
LEMMA WrittenMore ==
  ASSUME P!TypeOK, call \in Calls, call' = call, ppc # "done", ppc' # "done",
         NEW t \in Seq(Char), NEW text \in Seq(Char), Written(t), P!Out(text)
  PROVE  Written(t \o text)'
<1>1. PICK u, k, m, maxlen : u = t \o text /\ k = Len(t) /\ m = Len(text) /\ maxlen = call.maxlen
  OBVIOUS
<1>2. /\ u \in Seq(Char) /\ Len(u) = k + m /\ k \in Nat /\ m \in Nat
      /\ \A i \in 1..(k + m) : u[i] = IF i <= k THEN t[i] ELSE text[i - k]
  BY <1>1, Joined
<1>3. P!OutAt(text, k) /\ idx' = k + m
  BY <1>1 DEF P!Out, Written
<1>4. maxlen \in Nat /\ Memory \in Nat /\ memory \in [0..(Memory - 1) -> -5..35]
  BY <1>1, CallIs, PrintfConstants DEF P!Constants, P!TypeOK
<1>5. CASE call.sink = "buffer"
  <2>1. memory' = [i \in DOMAIN memory |->
          IF i < maxlen /\ i - k \in 0..(m - 1) THEN text[i - k + 1] ELSE memory[i]]
    BY <1>1, <1>3, <1>5 DEF P!OutAt, P!Store
  <2>2. DOMAIN memory = 0..(Memory - 1) /\ DOMAIN memory' = 0..(Memory - 1)
    BY <1>4, <2>1
  <2>3. \A i \in 0..(Memory - 1) : i < k /\ i < maxlen => memory[i] = t[i + 1]
    <3>1. \A i \in DOMAIN memory : i < Len(t) /\ i < call.maxlen - 0 => memory[i] = t[i + 1]
      BY <1>5 DEF Written
    <3> QED
      BY <1>1, <1>4, <2>2, <3>1
  <2>4. ASSUME NEW i \in 0..(Memory - 1), i < k + m, i < maxlen
        PROVE  memory'[i] = u[i + 1]
    <3>1. PICK j : j = i + 1
      OBVIOUS
    <3>2. j \in 1..(k + m) /\ i \in Nat
      BY <1>2, <1>4, <2>4, <3>1
    <3>3. u[j] = IF j <= k THEN t[j] ELSE text[j - k]
      BY <1>2, <3>2
    <3>4. CASE i < k
      <4>1. ~(i - k \in 0..(m - 1)) /\ j <= k
        BY <1>2, <3>1, <3>2, <3>4
      <4>2. memory'[i] = memory[i]
        BY <2>1, <2>2, <2>4, <4>1
      <4> QED
        BY <2>3, <2>4, <3>1, <3>3, <3>4, <4>1, <4>2
    <3>5. CASE ~(i < k)
      <4>1. i - k \in 0..(m - 1) /\ ~(j <= k) /\ j - k = i - k + 1
        BY <1>2, <2>4, <3>1, <3>2, <3>5
      <4>2. memory'[i] = text[i - k + 1]
        BY <2>1, <2>2, <2>4, <4>1
      <4> QED
        BY <3>1, <3>3, <4>1, <4>2
    <3> QED
      BY <3>4, <3>5
  <2>5. \A i \in DOMAIN memory' : i < Len(u) /\ i < call'.maxlen - 0 => memory'[i] = u[i + 1]
    <3>1. call'.maxlen - 0 = maxlen
      BY <1>1, <1>4
    <3> QED
      BY <1>2, <2>2, <2>4, <3>1
  <2>6. idx' = Len(u) /\ call'.sink = "buffer" /\ ppc' # "done"
    BY <1>2, <1>3, <1>5
  <2> QED
    BY <1>1, <2>5, <2>6 DEF Written
<1>6. CASE call.sink = "console"
  <2>1. console' = console \o P!Visible(text) /\ console = P!Visible(t)
    BY <1>3, <1>6 DEF P!OutAt, Written
  <2>2. console' = P!Visible(u)
    BY <1>1, <2>1, VisibleConcat
  <2> QED
    BY <1>1, <1>2, <1>3, <1>6, <2>2 DEF Written
<1>7. CASE call.sink = "null"
  BY <1>1, <1>2, <1>3, <1>7 DEF Written
<1> QED
  BY <1>5, <1>6, <1>7, CallIs

(* The terminator takes the place of no character below maxlen - 1.        *)
LEMMA WrittenToTheEnd ==
  ASSUME P!TypeOK, call \in Calls, P!Terminate, NEW t \in Seq(Char), Written(t)
  PROVE  Written(t)'
<1>1. PICK k, maxlen : k = Len(t) /\ maxlen = call.maxlen
  OBVIOUS
<1>2. PICK at : at = IF idx < maxlen THEN idx ELSE maxlen - 1
  OBVIOUS
<1>3. /\ ppc = "format" /\ ppc' = "done" /\ call' = call /\ idx' = idx
      /\ P!OutAt(<<P!NUL>>, at)
  BY <1>1, <1>2 DEF P!Terminate
<1>4. /\ maxlen \in Nat /\ Memory \in Nat /\ memory \in [0..(Memory - 1) -> -5..35]
      /\ idx = k /\ k \in Nat
  BY <1>1, CallIs, PrintfConstants DEF P!Constants, P!TypeOK, Written
<1>5. CASE call.sink = "buffer"
  <2>1. memory' = [i \in DOMAIN memory |->
          IF i < maxlen /\ i - at \in 0..(Len(<<P!NUL>>) - 1)
            THEN <<P!NUL>>[i - at + 1] ELSE memory[i]]
    BY <1>1, <1>3, <1>5 DEF P!OutAt, P!Store
  <2>2. DOMAIN memory = 0..(Memory - 1) /\ DOMAIN memory' = 0..(Memory - 1)
    BY <1>4, <2>1
  <2>3. \A i \in 0..(Memory - 1) : i < k /\ i < maxlen => memory[i] = t[i + 1]
    <3>1. \A i \in DOMAIN memory : i < Len(t) /\ i < call.maxlen - 0 => memory[i] = t[i + 1]
      BY <1>3, <1>5 DEF Written
    <3> QED
      BY <1>1, <1>4, <2>2, <3>1
  <2>4. ASSUME NEW i \in 0..(Memory - 1), i < k, i < maxlen - 1
        PROVE  memory'[i] = t[i + 1]
    <3>1. Len(<<P!NUL>>) = 1
      OBVIOUS
    <3>2. i < at /\ at \in Int /\ i \in Int
      BY <1>2, <1>4, <2>4
    <3>3. ~(i - at \in 0..(Len(<<P!NUL>>) - 1))
      BY <3>1, <3>2
    <3>4. memory'[i] = memory[i]
      BY <2>1, <2>2, <2>4, <3>3
    <3>5. i < maxlen
      BY <1>4, <2>4
    <3> QED
      BY <2>3, <2>4, <3>4, <3>5
  <2>5. \A i \in DOMAIN memory' : i < Len(t) /\ i < call'.maxlen - 1 => memory'[i] = t[i + 1]
    BY <1>1, <1>3, <2>2, <2>4
  <2> QED
    BY <1>1, <1>3, <1>4, <1>5, <2>5 DEF Written
<1>6. CASE call.sink = "console"
  <2>1. console' = console \o <<>> /\ console = P!Visible(t)
    BY <1>3, <1>6, VisibleNul DEF P!OutAt, Written
  <2>2. console \in Seq(Char)
    <3>1. console \in Seq(Shown) /\ Shown \subseteq Char
      BY DEF P!TypeOK, Shown, Char
    <3> QED
      BY <3>1, SeqMonotonic
  <2>3. console' = P!Visible(t)
    BY <2>1, <2>2, JoinedEmpty
  <2> QED
    BY <1>1, <1>3, <1>4, <1>6, <2>3 DEF Written
<1>7. CASE call.sink = "null"
  BY <1>1, <1>3, <1>4, <1>7 DEF Written
<1> QED
  BY <1>5, <1>6, <1>7, CallIs

(* The next directive is the one behind those done.                        *)
LEMMA NextFollows ==
  ASSUME PrintfInv, ProgressInv, ppc # "typed", fmt # <<>>,
         fmt' = Tail(fmt), call' = call
  PROVE  /\ DirectivesDone + 1 \in 1..Len(call.format)
         /\ P!d = call.format[DirectivesDone + 1]
         /\ DirectivesDone' = DirectivesDone + 1
         /\ FollowsFormat'
<1>1. PICK n, f, s, m : /\ n = DirectivesDone /\ f = call.format /\ s = Tail(fmt) /\ m = Len(fmt)
  OBVIOUS
<1>2. f \in Seq(P!Directive) /\ fmt \in Seq(P!Directive)
  BY <1>1, CallIs DEF PrintfInv
<1>3. /\ n = Len(f) - m /\ n \in Nat
      /\ \A i \in 1..m : fmt[i] = f[n + i]
  BY <1>1 DEF ProgressInv, FollowsFormat, DirectivesDone
<1>4. /\ m \in Nat \ {0} /\ Len(f) \in Nat /\ P!d = fmt[1]
      /\ Len(s) = m - 1 /\ \A i \in 1..(m - 1) : s[i] = fmt[i + 1]
  <2>1. m \in Nat \ {0} /\ Len(f) \in Nat
    BY <1>1, <1>2, EmptySeq
  <2>2. P!d = fmt[1]
    BY <1>2 DEF P!d
  <2>3. Len(s) = m - 1 /\ \A i \in 1..(m - 1) : s[i] = fmt[i + 1]
    BY <1>1, <1>2
  <2> QED
    BY <2>1, <2>2, <2>3
<1>5. n + 1 \in 1..Len(f) /\ P!d = f[n + 1]
  BY <1>3, <1>4
<1>6. DirectivesDone' = n + 1
  <2>1. DirectivesDone' = Len(f) - Len(s)
    BY <1>1 DEF DirectivesDone
  <2> QED
    BY <1>3, <1>4, <2>1
<1>7. FollowsFormat'
  <2>1. \A i \in 1..(m - 1) : s[i] = f[(n + 1) + i]
    <3>1. TAKE i \in 1..(m - 1)
    <3>2. PICK j, x : j = i + 1 /\ x = n + j
      OBVIOUS
    <3>3. j \in 1..m /\ x = (n + 1) + i
      BY <1>3, <1>4, <3>2
    <3>4. s[i] = fmt[j]
      BY <1>4, <3>2
    <3>5. fmt[j] = f[x]
      BY <1>3, <3>2, <3>3
    <3> QED
      BY <3>3, <3>4, <3>5
  <2>2. /\ n + 1 \in Nat
        /\ \A i \in 1..Len(s) : s[i] = f[(n + 1) + i]
    <3>1. 1..Len(s) = 1..(m - 1)
      BY <1>4
    <3>2. n + 1 \in Nat
      BY <1>3
    <3> QED
      BY <2>1, <3>1, <3>2
  <2> QED
    BY <1>1, <1>6, <2>2 DEF FollowsFormat
<1> QED
  BY <1>1, <1>5, <1>6, <1>7

(* One directive has been printed.                                         *)
LEMMA DirectivePrinted ==
  ASSUME PrintfInv, ProgressInv, ppc \in {"format", "out"}, ppc' = "format", fmt # <<>>,
         NEW text \in Seq(Char), P!Out(text), P!CText(P!d) = text \/ P!Deviates(P!d),
         fmt' = Tail(fmt), call' = call
  PROVE  ProgressInv'
<1>1. /\ P!TypeOK /\ call \in Calls
  BY DEF PrintfInv
<1>2. PICK n, f : n = DirectivesDone /\ f = call.format
  OBVIOUS
<1>3. /\ n + 1 \in 1..Len(f) /\ P!d = f[n + 1]
      /\ DirectivesDone' = n + 1 /\ FollowsFormat'
  BY <1>2, NextFollows
<1>4. n \in Nat /\ f \in Seq(P!Directive) /\ Len(f) \in Nat
  BY <1>1, <1>2, CallIs DEF ProgressInv, FollowsFormat
<1>5. ASSUME \A i \in 1..Len(f) : ~P!Deviates(f[i]),
             NEW T, JoinsTexts(f, T), \A i \in 0..Len(f) : T[i] \in Seq(Char)
      PROVE  Written(T[n + 1])'
  <2>1. Written(T[n])
    BY <1>2, <1>5 DEF ProgressInv
  <2>2. T[n] \in Seq(Char)
    BY <1>3, <1>4, <1>5
  <2>3. T[n + 1] = T[n] \o text
    <3>1. PICK k : k = n + 1
      OBVIOUS
    <3>2. k \in 1..Len(f) /\ k - 1 = n /\ P!d = f[k]
      BY <1>3, <1>4, <3>1
    <3>3. T[k] = T[k - 1] \o P!CText(f[k])
      BY <1>5, <3>2 DEF JoinsTexts
    <3>4. P!CText(f[k]) = text
      BY <1>5, <3>2
    <3> QED
      BY <3>1, <3>2, <3>3, <3>4
  <2>4. PICK t : t = T[n]
    OBVIOUS
  <2>5. Written(t \o text)'
    BY <1>1, <2>1, <2>2, <2>4, WrittenMore
  <2> QED
    BY <2>3, <2>4, <2>5
<1> QED
  BY <1>2, <1>3, <1>5 DEF ProgressInv

(* Each directive puts out the text that ISO C gives it.                   *)
LEMMA OutTextProgress ==
  ASSUME PrintfInv, ProgressInv, P!OutText
  PROVE  ProgressInv'
<1>1. /\ ppc = "format" /\ ppc' = "format" /\ fmt # <<>> /\ P!d.conv = "text"
      /\ P!Out(<<P!d.arg>>) /\ fmt' = Tail(fmt) /\ call' = call
  BY DEF P!OutText, P!IsNext
<1>2. PICK e, text : e = P!d /\ text = <<e.arg>>
  OBVIOUS
<1>3. e \in P!Directive
  BY <1>1, <1>2, NextDirectiveIs
<1>4. text \in Seq(Char) /\ P!CText(e) = text
  <2>1. e.arg \in Shown
    BY <1>1, <1>2, <1>3, DirectiveIs
  <2>2. e.arg \in Char
    BY <2>1 DEF Char, Shown
  <2>3. P!CText(e) = text
    BY <1>1, <1>2 DEF P!CText, P!Integer
  <2> QED
    BY <1>2, <2>2, <2>3
<1> QED
  BY <1>1, <1>2, <1>4, DirectivePrinted

(* A string is cut to its precision, never lengthened; one that a negative *)
(* precision should not cut is empty.                                      *)
LEMMA ShownIs ==
  ASSUME NEW e \in P!Directive, e.conv = "s",
         NEW t, t = IF e.prec # P!NoPrec /\ P!Precision(e) < Len(e.arg)
                      THEN SubSeq(e.arg, 1, P!Precision(e)) ELSE e.arg
  PROVE  t \in Seq(Char) /\ (t = P!CShown(e) \/ P!Deviates(e))
<1>1. PICK s, p, q : s = e.arg /\ p = e.prec /\ q = P!Precision(e)
  OBVIOUS
<1>2. s \in Seq(Char) /\ Len(s) \in Nat
  <2>1. s \in Seq(Shown)
    BY <1>1, DirectiveIs
  <2>2. Shown \subseteq Char
    BY DEF Shown, Char
  <2>3. s \in Seq(Char)
    BY <2>1, <2>2, SeqMonotonic
  <2> QED
    BY <2>3
<1>3. /\ p \in Int /\ p >= -2 /\ q \in Nat /\ q = (IF p > 0 THEN p ELSE 0)
      /\ P!NoPrec = -1
  BY <1>1, PrecisionIs DEF P!NoPrec
<1>4. t \in Seq(Char)
  BY <1>1, <1>2, <1>3, CutIs
<1>5. PICK n, u : n = (IF p < 0 \/ p > Len(s) THEN Len(s) ELSE p) /\ u = [i \in 1..n |-> s[i]]
  OBVIOUS
<1>6. P!CShown(e) = u
  BY <1>1, <1>5 DEF P!CShown
<1>7. n \in 0..Len(s) /\ n \in Nat
  BY <1>2, <1>3, <1>5
<1>8. u \in Seq(Char) /\ Len(u) = n
  <2>1. \A i \in 1..n : s[i] \in Char
    BY <1>2, <1>7, ElementOfSeq
  <2> QED
    BY <1>5, <1>7, <2>1
<1>9. CASE p >= 0 /\ p < Len(s)
  <2>1. n = p /\ q = p /\ p # -1
    BY <1>2, <1>3, <1>5, <1>9
  <2>2. SubSeq(s, 1, n) = u
    BY <1>2, <1>5, <1>7
  <2> QED
    BY <1>1, <1>3, <1>4, <1>6, <1>9, <2>1, <2>2
<1>10. CASE p = -1 \/ (p >= 0 /\ ~(p < Len(s)))
  <2>1. n = Len(s) /\ (p = -1 \/ ~(q < Len(s)))
    BY <1>2, <1>3, <1>5, <1>10
  <2>2. u = s
    BY <1>2, <1>5, <1>8, <2>1, SameText
  <2> QED
    BY <1>1, <1>3, <1>4, <1>6, <2>1, <2>2
<1>11. CASE p = -2 /\ s = <<>>
  <2>1. n = Len(s) /\ ~(q < Len(s))
    BY <1>2, <1>3, <1>5, <1>11
  <2>2. u = s
    BY <1>2, <1>5, <1>8, <2>1, SameText
  <2> QED
    BY <1>1, <1>4, <1>6, <2>1, <2>2
<1>12. CASE p = -2 /\ s # <<>>
  BY <1>1, <1>4, <1>12 DEF P!Deviates, P!NegPrec
<1> QED
  BY <1>3, <1>9, <1>10, <1>11, <1>12

LEMMA OutCharOrStringProgress ==
  ASSUME PrintfInv, ProgressInv, P!OutCharOrString
  PROVE  ProgressInv'
<1>1. /\ ppc = "format" /\ ppc' = "format" /\ fmt # <<>> /\ P!d.conv \in {"c", "s"}
      /\ fmt' = Tail(fmt) /\ call' = call
  BY DEF P!OutCharOrString, P!IsNext
<1>2. PICK e : e = P!d
  OBVIOUS
<1>3. e \in P!Directive
  BY <1>1, <1>2, NextDirectiveIs
<1>4. PICK t : t = IF e.prec # P!NoPrec /\ P!Precision(e) < Len(e.arg)
                     THEN SubSeq(e.arg, 1, P!Precision(e)) ELSE e.arg
  OBVIOUS
<1>5. PICK shown : shown = IF e.conv = "c" THEN <<e.arg>> ELSE t
  OBVIOUS
<1>6. shown \in Seq(Char)
  <2>1. CASE e.conv = "c"
    <3>1. e.arg \in Char
      BY <1>3, <2>1, DirectiveIs
    <3> QED
      BY <1>5, <2>1, <3>1
  <2>2. CASE e.conv = "s"
    BY <1>3, <1>4, <1>5, <2>2, ShownIs
  <2> QED
    BY <1>1, <1>2, <2>1, <2>2
<1>7. PICK text : text = P!Field(shown, e)
  OBVIOUS
<1>8. P!Out(text)
  BY <1>2, <1>4, <1>5, <1>7 DEF P!OutCharOrString
<1>9. text \in Seq(Char)
  BY <1>3, <1>6, <1>7, DirectiveIs, FieldIs
<1>10. P!CText(e) = text \/ P!Deviates(e)
  <2>1. CASE e.conv = "c"
    BY <1>5, <1>7, <2>1 DEF P!CText, P!Integer
  <2>2. CASE e.conv = "s"
    <3>1. shown = P!CShown(e) \/ P!Deviates(e)
      BY <1>3, <1>4, <1>5, <2>2, ShownIs
    <3>2. P!CText(e) = P!Field(P!CShown(e), e)
      BY <2>2 DEF P!CText, P!Integer
    <3> QED
      BY <1>7, <3>1, <3>2
  <2> QED
    BY <1>1, <1>2, <2>1, <2>2
<1> QED
  BY <1>1, <1>2, <1>8, <1>9, <1>10, DirectivePrinted

LEMMA OutNumberProgress ==
  ASSUME PrintfInv, ConvertingInv, ProgressInv, P!OutNumber
  PROVE  ProgressInv'
<1>1. /\ ppc = "out" /\ ppc' = "format" /\ fmt' = Tail(fmt) /\ call' = call
  BY DEF P!OutNumber
<1>2. buf \in Seq(Char) /\ fmt # <<>>
  BY <1>1 DEF PrintfInv, P!TypeOK, Char, Converting
<1>3. PICK e, s : e = P!d /\ s = P!Reversed(buf)
  OBVIOUS
<1>4. PICK text : text = IF "zeropad" \in flags /\ "left" \notin flags THEN s ELSE P!Field(s, e)
  OBVIOUS
<1>5. P!Out(text)
  BY <1>3, <1>4 DEF P!OutNumber
<1>6. e \in P!Directive
  BY <1>1, <1>2, <1>3, NextDirectiveIs
<1>7. text \in Seq(Char)
  <2>1. s \in Seq(Char)
    BY <1>2, <1>3, ReversedIs
  <2> QED
    BY <1>4, <1>6, <2>1, DirectiveIs, FieldIs
<1>8. P!CText(e) = text \/ P!Deviates(e)
  BY <1>1, <1>3, <1>4 DEF ConvertingInv
<1> QED
  BY <1>1, <1>2, <1>3, <1>5, <1>7, <1>8, DirectivePrinted

(* The call ends when no directive is left.                                *)
LEMMA TerminateProgress ==
  ASSUME PrintfInv, ProgressInv, P!Terminate
  PROVE  ProgressInv'
<1>1. /\ ppc = "format" /\ ppc' = "done" /\ fmt = <<>> /\ fmt' = fmt /\ call' = call
  BY DEF P!Terminate
<1>2. P!TypeOK /\ call \in Calls
  BY <1>1 DEF PrintfInv
<1>3. PICK n, f : n = DirectivesDone /\ f = call.format
  OBVIOUS
<1>4. n \in Nat /\ n <= Len(f) /\ Len(f) \in Nat
  <2>1. f \in Seq(P!Directive) /\ fmt \in Seq(P!Directive)
    BY <1>1, <1>2, <1>3, CallIs DEF PrintfInv
  <2>2. n = Len(f) - Len(fmt) /\ n \in Nat
    BY <1>1, <1>3 DEF ProgressInv, FollowsFormat, DirectivesDone
  <2> QED
    BY <2>1, <2>2
<1>5. FollowsFormat' /\ DirectivesDone' = n
  BY <1>1, <1>3 DEF ProgressInv, FollowsFormat, DirectivesDone
<1>6. ASSUME \A i \in 1..Len(f) : ~P!Deviates(f[i]),
             NEW T, JoinsTexts(f, T), \A i \in 0..Len(f) : T[i] \in Seq(Char)
      PROVE  Written(T[n])'
  <2>1. PICK t : t = T[n]
    OBVIOUS
  <2>2. Written(t) /\ t \in Seq(Char)
    BY <1>1, <1>3, <1>4, <1>6, <2>1 DEF ProgressInv
  <2>3. Written(t)'
    BY <1>2, <2>2, WrittenToTheEnd
  <2> QED
    BY <2>1, <2>3
<1> QED
  BY <1>1, <1>3, <1>5, <1>6 DEF ProgressInv

(* The steps of a conversion put out nothing.                              *)
LEMMA QuietProgress ==
  ASSUME ProgressInv, UNCHANGED <<call, fmt, idx, memory, console>>,
         ppc \notin {"typed", "done"}, ppc' # "done"
  PROVE  ProgressInv'
<1>1. FollowsFormat' /\ DirectivesDone' = DirectivesDone
  BY DEF ProgressInv, FollowsFormat, DirectivesDone
<1>2. ASSUME NEW t, Written(t) PROVE Written(t)'
  BY <1>2 DEF Written
<1> QED
  BY <1>1, <1>2 DEF ProgressInv

LEMMA CallProgress ==
  ASSUME PrintfInv, ConvertingInv, ProgressInv, P!Next
  PROVE  ProgressInv'
<1>1. CASE P!OutText
  BY <1>1, OutTextProgress
<1>2. CASE P!OutCharOrString
  BY <1>2, OutCharOrStringProgress
<1>3. CASE P!StartNumber
  BY <1>3, QuietProgress DEF P!StartNumber, P!IsNext
<1>4. CASE P!NextDigit
  BY <1>4, QuietProgress DEF P!NextDigit
<1>5. CASE P!FormatNumber
  BY <1>5, QuietProgress DEF P!FormatNumber
<1>6. CASE P!OutNumber
  BY <1>6, OutNumberProgress
<1>7. CASE P!Terminate
  BY <1>7, TerminateProgress
<1> QED
  BY <1>1, <1>2, <1>3, <1>4, <1>5, <1>6, <1>7 DEF P!Next

LEMMA ProgressInit ==
  ASSUME P!Init
  PROVE  ConvertingInv /\ ProgressInv
<1>1. /\ call \in Calls /\ fmt = call.format /\ idx = 0 /\ console = <<>> /\ ppc = "format"
  BY DEF P!Init
<1>2. call.format \in Seq(P!Directive) /\ Len(call.format) \in Nat
  BY <1>1, CallIs
<1>3. DirectivesDone = 0
  BY <1>1, <1>2 DEF DirectivesDone
<1>4. FollowsFormat
  BY <1>1, <1>2, <1>3 DEF FollowsFormat
<1>5. Written(<<>>)
  <2>1. Len(<<>>) = 0
    OBVIOUS
  <2>2. P!Visible(<<>>) = <<>>
    <3>1. <<>> \in Seq(Shown)
      OBVIOUS
    <3> QED
      BY <3>1, VisibleAll
  <2>3. \A i \in DOMAIN memory : ~(i < 0)
    <3>1. DOMAIN memory = 0..(Memory - 1) /\ Memory \in Nat
      BY PrintfConstants DEF P!Init, P!Constants
    <3> QED
      BY <3>1
  <2> QED
    BY <1>1, <2>1, <2>2, <2>3 DEF Written
<1>6. \A T : JoinsTexts(call.format, T) => Written(T[DirectivesDone])
  BY <1>3, <1>5 DEF JoinsTexts
<1>7. ConvertingInv
  BY <1>1 DEF ConvertingInv
<1> QED
  BY <1>1, <1>4, <1>6, <1>7 DEF ProgressInv

-----------------------------------------------------------------------------
(* The two together.  strtol does not start before a string was typed; what*)
(* it starts on is either any string, or what printf left on the console.  *)

Waiting ==
  ppc # "typed" =>
    /\ str = <<>> /\ pos = 1 /\ sign = 1 /\ sum = 0
    /\ erange = FALSE /\ end = 0 /\ exact = 0 /\ pc = "start"

NumbersInv == PrintfInv /\ Waiting /\ IInv /\ Scanned

LEMMA NumbersInitInv == NumbersInit => NumbersInv
<1>1. ASSUME TypeAnything PROVE NumbersInv
  <2>1. Init /\ ppc = "typed"
    BY <1>1 DEF TypeAnything
  <2>2. IInv
    BY <2>1, InitInv
  <2>3. Scanned
    BY <2>1 DEF Init, Scanned, EndIsBehindNumber
  <2> QED
    BY <2>1, <2>2, <2>3 DEF NumbersInv, PrintfInv, Waiting
<1>2. ASSUME Prints PROVE NumbersInv
  <2>1. /\ str = <<>> /\ pos = 1 /\ sign = 1 /\ sum = 0
        /\ erange = FALSE /\ end = 0 /\ exact = 0 /\ pc = "start"
    BY <1>2 DEF Prints
  <2>2. PrintfInv
    BY <1>2, PrintfInitInv DEF Prints
  <2>3. 0 \in LongMin..LongMax
    BY LongRange, ConstAssumption
  <2>4. TypeOK
    <3>1. erange \in BOOLEAN
      BY <2>1, Zenon
    <3>2. str \in Seq(-4..35) /\ Len(str) = 0
      BY <2>1
    <3> QED
      BY <2>1, <2>3, <3>1, <3>2 DEF TypeOK
  <2>5. SaturatesExactly
    BY <2>1, <2>3, LongRange, ConstAssumption DEF SaturatesExactly, Clamp
  <2>6. IInv
    BY <2>1, <2>4, <2>5 DEF IInv, Direction, SignFirst
  <2>7. Scanned
    BY <2>1 DEF Scanned, EndIsBehindNumber
  <2> QED
    BY <2>1, <2>2, <2>6, <2>7 DEF NumbersInv, Waiting
<1> QED
  BY <1>1, <1>2 DEF NumbersInit

(* What is copied from the console is a string that strtol can read.       *)
LEMMA TypeBackInv ==
  ASSUME NumbersInv, TypeBack
  PROVE  NumbersInv'
<1>1. /\ ppc = "done" /\ ppc' = "typed" /\ str' = console
      /\ UNCHANGED <<pos, sign, sum, erange, end, exact, pc>>
  BY DEF TypeBack
<1>2. /\ pos = 1 /\ sign = 1 /\ sum = 0
      /\ erange = FALSE /\ end = 0 /\ exact = 0 /\ pc = "start"
  BY <1>1 DEF NumbersInv, Waiting
<1>3. console \in Seq(-4..35)
  <2>1. console \in Seq(-3..35)
    BY <1>1 DEF NumbersInv, PrintfInv, P!TypeOK
  <2>2. -3..35 \subseteq -4..35
    OBVIOUS
  <2> QED
    BY <2>1, <2>2, SeqMonotonic
<1>4. 0 \in LongMin..LongMax
  BY LongRange, ConstAssumption
<1>5. str' \in Seq(-4..35) /\ Len(str') \in Nat
  BY <1>1, <1>3
<1>6. TypeOK'
  <2>1. erange' \in BOOLEAN
    BY <1>1, <1>2, Zenon
  <2> QED
    BY <1>1, <1>2, <1>4, <1>5, <2>1 DEF TypeOK
<1>7. SaturatesExactly'
  BY <1>1, <1>2, <1>4, LongRange, ConstAssumption DEF SaturatesExactly, Clamp
<1>8. IInv'
  BY <1>1, <1>2, <1>6, <1>7 DEF IInv, Direction, SignFirst
<1>9. Scanned'
  BY <1>1, <1>2 DEF Scanned, EndIsBehindNumber
<1> QED
  BY <1>1, <1>8, <1>9 DEF NumbersInv, PrintfInv, Waiting

LEMMA NumbersStep == NumbersInv /\ [NumbersNext]_<<vars, printfVars>> => NumbersInv'
<1> SUFFICES ASSUME NumbersInv, [NumbersNext]_<<vars, printfVars>> PROVE NumbersInv'
  OBVIOUS
<1>1. PrintfInv /\ Waiting /\ IInv /\ Scanned
  BY DEF NumbersInv
<1>2. CASE Call
  <2>1. P!Next /\ UNCHANGED vars
    BY <1>2 DEF Call
  <2>2. PrintfInv'
    BY <1>1, <2>1, PrintfStep
  <2>3. IInv' /\ Scanned'
    BY <1>1, <2>1, NextInv, ScannedStep
  <2>4. ppc # "typed"
    BY <2>1 DEF P!Next, P!OutText, P!OutCharOrString, P!StartNumber, P!NextDigit,
                P!FormatNumber, P!OutNumber, P!Terminate, P!IsNext
  <2>5. Waiting'
    BY <1>1, <2>1, <2>4 DEF Waiting, vars
  <2> QED
    BY <2>2, <2>3, <2>5 DEF NumbersInv
<1>3. CASE TypeBack
  BY <1>3, TypeBackInv
<1>4. CASE Convert
  <2>1. ppc = "typed" /\ ppc' = "typed" /\ Next
    BY <1>4 DEF Convert, printfVars
  <2>2. IInv' /\ Scanned'
    BY <1>1, <2>1, NextInv, ScannedStep
  <2> QED
    BY <2>1, <2>2 DEF NumbersInv, PrintfInv, Waiting
<1>5. CASE UNCHANGED <<vars, printfVars>>
  <2>1. IInv' /\ Scanned'
    BY <1>1, <1>5, NextInv, ScannedStep
  <2>2. /\ UNCHANGED <<call, fmt, idx, memory, console, flags, value, negative, buf, ppc>>
        /\ UNCHANGED <<str, pos, sign, sum, erange, end, exact, pc>>
    BY <1>5 DEF vars, printfVars
  <2>3. PrintfInv'
    BY <1>1, <2>2 DEF PrintfInv, P!TypeOK, P!WritesWithinCount
  <2>4. Waiting'
    BY <1>1, <2>2 DEF Waiting
  <2> QED
    BY <2>1, <2>3, <2>4 DEF NumbersInv
<1> QED
  BY <1>2, <1>3, <1>4, <1>5 DEF NumbersNext

LEMMA NumbersInvariance == NumbersSpec => []NumbersInv
BY NumbersInitInv, NumbersStep, PTL DEF NumbersSpec

(* Neither depends on what strtol does, nor holds of a string typed.       *)
FormattingInv == ppc # "typed" => ConvertingInv /\ ProgressInv

LEMMA FormattingInitInv == NumbersInit => FormattingInv
<1>1. ASSUME TypeAnything PROVE FormattingInv
  BY <1>1 DEF TypeAnything, FormattingInv
<1>2. ASSUME Prints PROVE FormattingInv
  BY <1>2, ProgressInit DEF Prints, FormattingInv
<1> QED
  BY <1>1, <1>2 DEF NumbersInit

LEMMA FormattingStep ==
  NumbersInv /\ FormattingInv /\ [NumbersNext]_<<vars, printfVars>> => FormattingInv'
<1> SUFFICES ASSUME NumbersInv, FormattingInv, [NumbersNext]_<<vars, printfVars>>
             PROVE  FormattingInv'
  OBVIOUS
<1>1. PrintfInv
  BY DEF NumbersInv
<1>2. CASE Call
  <2>1. P!Next /\ ppc # "typed"
    BY <1>2 DEF Call, P!Next, P!OutText, P!OutCharOrString, P!StartNumber, P!NextDigit,
                P!FormatNumber, P!OutNumber, P!Terminate, P!IsNext
  <2>2. ConvertingInv /\ ProgressInv
    BY <2>1 DEF FormattingInv
  <2> QED
    BY <1>1, <2>1, <2>2, CallConverts, CallProgress DEF FormattingInv
<1>3. CASE TypeBack
  BY <1>3 DEF TypeBack, FormattingInv
<1>4. CASE Convert
  BY <1>4 DEF Convert, printfVars, FormattingInv
<1>5. CASE UNCHANGED <<vars, printfVars>>
  <2>1. UNCHANGED <<call, fmt, idx, memory, console, flags, value, negative, buf, ppc>>
    BY <1>5 DEF printfVars
  <2>2. SUFFICES ASSUME ConvertingInv, ProgressInv
                 PROVE  ConvertingInv' /\ ProgressInv'
    BY <2>1 DEF FormattingInv
  <2>3. ConvertingInv'
    <3>1. P!d' = P!d /\ EvaluatedFlags(P!d)' = EvaluatedFlags(P!d)
      BY <2>1, DirectiveKept
    <3> QED
      BY <2>1, <2>2, <3>1 DEF ConvertingInv, DigitsSoFar
  <2>4. ProgressInv'
    <3>1. FollowsFormat' = FollowsFormat /\ DirectivesDone' = DirectivesDone
      BY <2>1 DEF FollowsFormat, DirectivesDone
    <3>2. ASSUME NEW t, Written(t) PROVE Written(t)'
      BY <2>1, <3>2 DEF Written
    <3> QED
      BY <2>1, <2>2, <3>1, <3>2 DEF ProgressInv
  <2> QED
    BY <2>3, <2>4
<1> QED
  BY <1>2, <1>3, <1>4, <1>5 DEF NumbersNext

LEMMA FormattingInvariance == NumbersSpec => [](NumbersInv /\ FormattingInv)
<1>1. NumbersSpec => []NumbersInv
  BY NumbersInvariance
<1> QED
  BY <1>1, FormattingInitInv, FormattingStep, PTL DEF NumbersSpec

(* At the end of a call, all of the text of the format is written.         *)
LEMMA FormattedAsC ==
  ASSUME NumbersInv, FormattingInv, ppc = "done",
         \A n \in 1..Len(call.format) : ~P!Deviates(call.format[n])
  PROVE  /\ Written(P!CTextOf(call.format))
         /\ P!CTextOf(call.format) \in Seq(Char)
<1>1. call \in Calls /\ ProgressInv
  BY DEF NumbersInv, PrintfInv, FormattingInv
<1>2. PICK f : f = call.format
  OBVIOUS
<1>3. f \in Seq(P!Directive) /\ Len(f) \in Nat
  BY <1>1, <1>2, CallIs
<1>4. PICK T : /\ JoinsTexts(f, T)
               /\ \A n \in 0..Len(f) : T[n] \in Seq(Char)
               /\ P!CTextOf(f) = T[Len(f)]
  BY <1>3, CTextOfSteps
<1>5. DirectivesDone = Len(f)
  <2>1. fmt = <<>>
    BY <1>1 DEF ProgressInv
  <2>2. Len(fmt) = 0
    BY <2>1
  <2> QED
    BY <1>2, <1>3, <2>2 DEF DirectivesDone
<1>6. Written(T[DirectivesDone])
  BY <1>1, <1>2, <1>4 DEF ProgressInv
<1>7. Len(f) \in 0..Len(f)
  BY <1>3
<1> QED
  BY <1>2, <1>4, <1>5, <1>6, <1>7

-----------------------------------------------------------------------------
(* The number printed is a numeral that strtol reads.                      *)

(* s is a decimal numeral of n, perhaps with zeros in front.               *)
DecimalDigits(s, n) ==
  /\ s \in Seq(Char)
  /\ P!Power(10, Len(s)) > n
  /\ \A j \in 1..Len(s) : s[j] = (n \div P!Power(10, Len(s) - j)) % 10

(* Zeros in front do not change the number.                                *)
LEMMA ZerosInFront ==
  ASSUME NEW s, NEW n \in Nat, DecimalDigits(s, n), NEW c \in Nat
  PROVE  DecimalDigits(Zeros(c) \o s, n)
<1>1. PICK z, t, k : z = Zeros(c) /\ t = z \o s /\ k = Len(s)
  OBVIOUS
<1>2. s \in Seq(Char) /\ k \in Nat /\ P!Power(10, k) > n
      /\ \A j \in 1..k : s[j] = (n \div P!Power(10, k - j)) % 10
  BY <1>1 DEF DecimalDigits
<1>3. z \in Seq(Char) /\ Len(z) = c /\ \A i \in 1..c : z[i] = 0
  <2>1. c \in Int /\ 0 \in Char
    BY DEF Char
  <2>2. z \in Seq(Char) /\ Len(z) = c
    BY <1>1, <2>1, ZerosAre
  <2>3. \A i \in 1..Len(z) : z[i] = 0
    BY <1>1, <2>1, RepeatAt DEF Zeros
  <2> QED
    BY <2>2, <2>3
<1>4. PICK m : m = c + k
  OBVIOUS
<1>5. /\ t \in Seq(Char) /\ Len(t) = m /\ m \in Nat /\ k <= m
      /\ \A i \in 1..m : t[i] = IF i <= c THEN z[i] ELSE s[i - c]
  <2>1. /\ t \in Seq(Char) /\ Len(t) = Len(z) + Len(s)
        /\ \A i \in 1..(Len(z) + Len(s)) : t[i] = IF i <= Len(z) THEN z[i] ELSE s[i - Len(z)]
    BY <1>1, <1>2, <1>3, Joined
  <2> QED
    BY <1>1, <1>2, <1>3, <1>4, <2>1
<1>6. \A i \in Nat : k <= i => P!Power(10, i) \in Nat /\ P!Power(10, i) > n
  <2>1. TAKE i \in Nat
  <2>2. P!Power(10, i) \in Nat /\ P!Power(10, k) \in Nat
    <3>1. 10 \in Nat /\ 10 >= 2
      OBVIOUS
    <3> QED
      BY <1>2, <3>1, PowerIs
  <2>3. k <= i => P!Power(10, k) <= P!Power(10, i)
    BY <1>2, PowerGrows
  <2> QED
    BY <1>2, <2>2, <2>3
<1>7. ASSUME NEW j \in 1..m
      PROVE  t[j] = (n \div P!Power(10, m - j)) % 10
  <2>1. PICK i : i = m - j
    OBVIOUS
  <2>2. i \in Nat
    BY <1>5, <2>1
  <2>3. CASE j <= c
    <3>1. t[j] = 0
      BY <1>3, <1>5, <2>3
    <3>2. k <= i
      BY <1>2, <1>4, <2>1, <2>3
    <3>3. P!Power(10, i) > n
      BY <1>6, <2>2, <3>2
    <3>4. n \div P!Power(10, i) = 0
      BY <2>2, <3>3, QuotientZero
    <3>5. 0 % 10 = 0
      OBVIOUS
    <3> QED
      BY <2>1, <3>1, <3>4, <3>5
  <2>4. CASE ~(j <= c)
    <3>1. PICK h : h = j - c
      OBVIOUS
    <3>2. h \in 1..k /\ k - h = i
      BY <1>2, <1>4, <2>1, <2>4, <3>1
    <3>3. t[j] = s[h]
      BY <1>5, <2>4, <3>1
    <3>4. s[h] = (n \div P!Power(10, k - h)) % 10
      BY <1>2, <3>2
    <3> QED
      BY <2>1, <3>2, <3>3, <3>4
  <2> QED
    BY <2>3, <2>4
<1>8. P!Power(10, m) > n
  BY <1>5, <1>6
<1> QED
  BY <1>1, <1>5, <1>7, <1>8 DEF DecimalDigits

(* A hexadecimal number of one decimal digit reads as a decimal one.       *)
LEMMA SignificantDecimal ==
  ASSUME NEW e \in P!Directive, e.conv \in {"d", "u", "x"},
         e.conv = "x" => P!Argument(e) < 10
  PROVE  DecimalDigits(P!Significant(e), P!Magnitude(e))
<1>1. PICK n : n = P!Magnitude(e)
  OBVIOUS
<1>2. e.conv \in P!Integer
  BY DEF P!Integer
<1>3. n \in Nat /\ (n = 0 <=> P!Argument(e) = 0) /\ (e.conv = "x" => n < 10)
  <2>1. n \in Nat /\ (n = 0 <=> P!Argument(e) = 0)
    BY <1>1, <1>2, MagnitudeIs
  <2>2. e.conv = "x" => n < 10
    <3>1. e.conv = "x" => P!Argument(e) >= 0 /\ P!Argument(e) \in Int
      BY <1>2, MagnitudeIs, ArgumentIs
    <3> QED
      BY <1>1, <3>1 DEF P!Magnitude
  <2> QED
    BY <2>1, <2>2
<1>4. CASE e.prec = 0 /\ P!Argument(e) = 0
  <2>1. P!Significant(e) = <<>> /\ n = 0
    BY <1>3, <1>4 DEF P!Significant
  <2>2. <<>> \in Seq(Char) /\ Len(<<>>) = 0
    OBVIOUS
  <2>3. P!Power(10, 0) = 1
    BY PowerSteps
  <2> QED
    BY <1>1, <2>1, <2>2, <2>3 DEF DecimalDigits
<1>5. CASE ~(e.prec = 0 /\ P!Argument(e) = 0)
  <2>1. PICK b, k, t : b = P!Base(e) /\ k = P!DigitCount(n, b) /\ t = P!Digits(n, b)
    OBVIOUS
  <2>2. P!Significant(e) = t
    BY <1>1, <1>5, <2>1 DEF P!Significant
  <2>3. b = IF e.conv = "x" THEN 16 ELSE 10
    BY <2>1 DEF P!Base
  <2>4. b \in Nat /\ b >= 2 /\ b <= 36
    BY <2>3
  <2>5. /\ k \in Nat \ {0} /\ t \in Seq(Char) /\ Len(t) = k
        /\ \A i \in 1..k : t[i] = (n \div P!Power(b, k - i)) % b
    <3>1. n \in Nat /\ k = P!DigitCount(n, b)
      BY <1>3, <2>1
    <3>2. t = P!Digits(n, b)
      BY <2>1
    <3> QED
      BY <2>4, <3>1, <3>2, DigitsAre, SMTT(30)
  <2>6. CASE b = 10
    <3>1. P!Power(10, k) > n
      BY <1>3, <2>1, <2>4, <2>6, DigitCountIs DEF IsDigitCount
    <3> QED
      BY <1>1, <2>2, <2>5, <2>6, <3>1 DEF DecimalDigits
  <2>7. CASE b = 16
    <3>1. n < 10
      BY <1>3, <2>3, <2>7
    <3>2. P!Power(16, 0) = 1 /\ P!Power(10, 0) = 1 /\ P!Power(16, 1) = 16 /\ P!Power(10, 1) = 10
      <4>1. P!Power(16, 0) = 1 /\ P!Power(16, 0 + 1) = 16 * P!Power(16, 0)
        BY PowerSteps
      <4>2. P!Power(10, 0) = 1 /\ P!Power(10, 0 + 1) = 10 * P!Power(10, 0)
        BY PowerSteps
      <4> QED
        BY <4>1, <4>2
    <3>3. k = 1
      <4>1. PICK one : one = 1
        OBVIOUS
      <4>2. one \in Nat \ {0} /\ P!Power(b, one) > n
            /\ (one > 1 => P!Power(b, one - 1) <= n)
        BY <1>3, <2>7, <3>1, <3>2, <4>1
      <4>3. P!DigitCount(n, b) = one
        BY <1>3, <2>4, <4>2, CountedDigits
      <4> QED
        BY <2>1, <4>1, <4>3
    <3>4. t[1] = n
      <4>1. t[1] = (n \div P!Power(16, 0)) % 16
        BY <2>5, <2>7, <3>3
      <4> QED
        BY <1>3, <3>1, <3>2, <4>1
    <3>5. \A j \in 1..1 : t[j] = (n \div P!Power(10, 1 - j)) % 10
      <4>1. (n \div 1) % 10 = n
        BY <1>3, <3>1
      <4>2. \A j \in 1..1 : j = 1 /\ 1 - j = 0
        OBVIOUS
      <4> QED
        BY <3>2, <3>4, <4>1, <4>2
    <3>6. P!Power(10, 1) > n
      BY <1>3, <3>1, <3>2
    <3> QED
      BY <1>1, <2>2, <2>5, <3>3, <3>5, <3>6 DEF DecimalDigits
  <2> QED
    BY <2>3, <2>6, <2>7
<1> QED
  BY <1>4, <1>5

(* A sign or none, then the numeral.                                       *)
LEMMA NumberText ==
  ASSUME NEW e \in P!Directive, e.conv \in {"d", "u", "x"},
         e.conv = "x" => "hash" \notin e.flags /\ P!Argument(e) < 10
  PROVE  \E pre, s : /\ P!CNumber(e) = pre \o s
                     /\ DecimalDigits(s, P!Magnitude(e))
                     /\ pre \in {<<>>, <<Minus>>, <<Plus>>, <<Space>>}
                     /\ pre = <<Minus>> <=> P!Argument(e) < 0
<1>1. PICK pre, s : pre = P!CPrefix(e) /\ s = Zeros(CZeros(e)) \o P!Significant(e)
  OBVIOUS
<1>2. e.conv \in P!Integer
  BY DEF P!Integer
<1>3. P!CNumber(e) = pre \o s
  BY <1>1, <1>2, CNumberForm
<1>4. DecimalDigits(s, P!Magnitude(e))
  BY <1>1, <1>2, SignificantDecimal, ZerosInFront, MagnitudeIs, CNumberForm
<1>5. PICK n \in Int : n = P!Argument(e)
  BY <1>2, ArgumentIs
<1>6. <<Minus>> # <<>> /\ <<Minus>> # <<Plus>> /\ <<Minus>> # <<Space>>
  BY DEF Minus, Plus, Space
<1>7. /\ pre \in {<<>>, <<Minus>>, <<Plus>>, <<Space>>}
      /\ pre = <<Minus>> <=> n < 0
  <2>1. CASE n < 0
    BY <1>1, <1>5, <2>1 DEF P!CPrefix, P!Minus, Minus
  <2>2. CASE n >= 0
    <3>1. pre = IF e.conv = "d" /\ "plus" \in e.flags THEN <<Plus>>
                ELSE IF e.conv = "d" /\ "space" \in e.flags THEN <<Space>> ELSE <<>>
      BY <1>1, <1>5, <2>2 DEF P!CPrefix, P!Plus, P!Space, Plus, Space
    <3> QED
      BY <1>5, <1>6, <2>2, <3>1
  <2> QED
    BY <1>5, <2>1, <2>2
<1> QED
  BY <1>3, <1>4, <1>5, <1>7

(* t is s with p spaces before it and r behind it.                         *)
InSpaces(t, s, p, r) ==
  /\ t \in Seq(Char)
  /\ Len(t) = (p + Len(s)) + r
  /\ \A i \in 1..p : t[i] = Space
  /\ \A i \in 1..Len(s) : t[p + i] = s[i]
  /\ \A i \in 1..r : t[(p + Len(s)) + i] = Space

(* A field is its text in spaces.                                          *)
LEMMA FieldText ==
  ASSUME NEW s \in Seq(Char), NEW e, e.width \in Int
  PROVE  \E p, r \in Nat : InSpaces(P!Field(s, e), s, p, r)
<1>1. PICK n, pad, t : /\ n = P!Width(e) - Len(s) /\ pad = P!Repeat(P!Space, n)
                       /\ t = P!Field(s, e)
  OBVIOUS
<1>2. n \in Int
  BY <1>1 DEF P!Width
<1>3. PICK m, k : m = Len(pad) /\ k = Len(s)
  OBVIOUS
<1>4. pad \in Seq(Char) /\ m \in Nat /\ k \in Nat /\ \A i \in 1..m : pad[i] = Space
  <2>1. P!Space \in Char /\ P!Space = Space
    BY DEF P!Space, Space, Char
  <2>2. pad \in Seq(Char)
    BY <1>1, <1>2, <2>1, RepeatIs
  <2>3. \A i \in 1..Len(pad) : pad[i] = Space
    BY <1>1, <1>2, <2>1, RepeatAt
  <2> QED
    BY <1>3, <2>2, <2>3
<1>5. CASE P!Left(e)
  <2>1. t = s \o pad
    BY <1>1, <1>5 DEF P!Field
  <2>2. /\ t \in Seq(Char) /\ Len(t) = k + m
        /\ \A i \in 1..(k + m) : t[i] = IF i <= k THEN s[i] ELSE pad[i - k]
    BY <1>3, <1>4, <2>1, Joined
  <2>3. PICK p : p = 0
    OBVIOUS
  <2>4. /\ p \in Nat /\ Len(t) = (p + k) + m
        /\ \A i \in 1..p : t[i] = Space
    BY <1>4, <2>2, <2>3
  <2>5. ASSUME NEW i \in 1..k PROVE t[p + i] = s[i]
    BY <1>4, <2>2, <2>3
  <2>6. ASSUME NEW i \in 1..m PROVE t[(p + k) + i] = Space
    <3>1. PICK j : j = (p + k) + i
      OBVIOUS
    <3>2. j \in 1..(k + m) /\ ~(j <= k) /\ j - k = i
      BY <1>4, <2>3, <3>1
    <3>3. t[j] = pad[i]
      BY <2>2, <3>2
    <3> QED
      BY <1>4, <3>1, <3>3
  <2>7. InSpaces(t, s, p, m)
    BY <1>3, <2>2, <2>4, <2>5, <2>6 DEF InSpaces
  <2> QED
    BY <1>1, <1>4, <2>4, <2>7
<1>6. CASE ~P!Left(e)
  <2>1. t = pad \o s
    BY <1>1, <1>6 DEF P!Field
  <2>2. /\ t \in Seq(Char) /\ Len(t) = m + k
        /\ \A i \in 1..(m + k) : t[i] = IF i <= m THEN pad[i] ELSE s[i - m]
    BY <1>3, <1>4, <2>1, Joined
  <2>3. PICK r : r = 0
    OBVIOUS
  <2>4. /\ r \in Nat /\ Len(t) = (m + k) + r
        /\ \A i \in 1..r : t[(m + k) + i] = Space
    BY <1>4, <2>2, <2>3
  <2>5. ASSUME NEW i \in 1..k PROVE t[m + i] = s[i]
    <3>1. PICK j : j = m + i
      OBVIOUS
    <3>2. j \in 1..(m + k) /\ ~(j <= m) /\ j - m = i
      BY <1>4, <3>1
    <3> QED
      BY <2>2, <3>1, <3>2
  <2>6. ASSUME NEW i \in 1..m PROVE t[i] = Space
    BY <1>4, <2>2
  <2>7. InSpaces(t, s, m, r)
    BY <1>3, <2>2, <2>4, <2>5, <2>6 DEF InSpaces
  <2> QED
    BY <1>1, <1>4, <2>4, <2>7
<1> QED
  BY <1>5, <1>6

(* t is what strtol reads as m, or as -m where neg holds: spaces before q, *)
(* at most one sign there, and k digits from a on.                         *)
Numeral(t, q, a, k, m, neg) ==
  /\ q \in 1..(Len(t) + 1) /\ a \in q..(Len(t) + 1) /\ k \in Nat /\ a + k <= Len(t) + 1
  /\ \A i \in 1..(q - 1) : t[i] = Space
  /\ \/ a = q /\ ~neg /\ (q <= Len(t) => t[q] \notin {Space, Minus, Plus})
     \/ a = q + 1 /\ neg /\ t[q] = Minus /\ (a <= Len(t) => t[a] # Plus)
     \/ a = q + 1 /\ ~neg /\ t[q] = Plus
  /\ P!Power(10, k) > m
  /\ \A j \in 1..k : t[(a - 1) + j] = (m \div P!Power(10, k - j)) % 10
  /\ a + k <= Len(t) => t[a + k] = Space

(* What strtol takes for digits.                                           *)
LEMMA DigitRange ==
  ASSUME NEW s, NEW m \in Nat, DecimalDigits(s, m)
  PROVE  \A j \in 1..Len(s) : s[j] \in 0..9
<1>1. PICK k : k = Len(s)
  OBVIOUS
<1>2. /\ k \in Nat
      /\ \A j \in 1..k : s[j] = (m \div P!Power(10, k - j)) % 10
  BY <1>1 DEF DecimalDigits
<1>3. ASSUME NEW j \in 1..k PROVE s[j] \in 0..9
  <2>1. PICK i : i = k - j
    OBVIOUS
  <2>2. i \in Nat
    BY <1>2, <2>1
  <2>3. PICK x : x = m \div P!Power(10, i)
    OBVIOUS
  <2>4. x \in Nat
    <3>1. 10 \in Nat /\ 10 >= 2
      OBVIOUS
    <3> QED
      BY <2>2, <2>3, <3>1, QuotientStep
  <2>5. s[j] = x % 10
    BY <1>2, <2>1, <2>3
  <2> QED
    BY <2>4, <2>5
<1> QED
  BY <1>1, <1>3

(* A sign, or a space for one, and a numeral in spaces: strtol skips the   *)
(* spaces; where there is no digit, it skips them all.                     *)
LEMMA NumeralInSpaces ==
  ASSUME NEW pre, NEW s, NEW m \in Nat, DecimalDigits(s, m),
         pre \in {<<>>, <<Minus>>, <<Plus>>, <<Space>>},
         NEW t, NEW p \in Nat, NEW r \in Nat, InSpaces(t, pre \o s, p, r)
  PROVE  \E q, a, k : Numeral(t, q, a, k, m, pre = <<Minus>>)
<1>1. PICK u, l, n : u = pre \o s /\ l = Len(pre) /\ n = Len(s)
  OBVIOUS
<1>2. Space \in Char /\ Minus \in Char /\ Plus \in Char
  BY DEF Space, Minus, Plus, Char
<1>3. /\ pre \in Seq(Char) /\ l \in Nat
      /\ pre = <<>> => l = 0
      /\ pre = <<Minus>> => l = 1 /\ pre[1] = Minus
      /\ pre = <<Plus>> => l = 1 /\ pre[1] = Plus
      /\ pre = <<Space>> => l = 1 /\ pre[1] = Space
  <2>1. CASE pre = <<>>
    <3>1. l = 0 /\ <<>> \in Seq(Char) /\ <<>> # <<Minus>> /\ <<>> # <<Plus>> /\ <<>> # <<Space>>
      BY <1>1, <2>1
    <3> QED
      BY <2>1, <3>1
  <2>2. ASSUME NEW c \in Char, pre = <<c>>
        PROVE  pre \in Seq(Char) /\ l = 1 /\ pre[1] = c /\ pre # <<>>
    BY <1>1, <2>2
  <2>3. CASE pre = <<Minus>>
    BY <1>2, <2>2, <2>3
  <2>4. CASE pre = <<Plus>>
    BY <1>2, <2>2, <2>4
  <2>5. CASE pre = <<Space>>
    BY <1>2, <2>2, <2>5
  <2> QED
    BY <2>1, <2>3, <2>4, <2>5
<1>4. s \in Seq(Char) /\ n \in Nat
  BY <1>1 DEF DecimalDigits
<1>5. /\ u \in Seq(Char) /\ Len(u) = l + n
      /\ \A i \in 1..(l + n) : u[i] = IF i <= l THEN pre[i] ELSE s[i - l]
  BY <1>1, <1>3, <1>4, Joined
<1>6. PICK h : h = p + l
  OBVIOUS
<1>7. h \in Nat /\ p <= h
  BY <1>3, <1>6
<1>8. /\ t \in Seq(Char) /\ Len(t) = (h + n) + r
      /\ \A i \in 1..p : t[i] = Space
      /\ \A j \in 1..n : t[h + j] = s[j]
      /\ \A i \in 1..r : t[(h + n) + i] = Space
      /\ l = 1 => t[p + 1] = pre[1]
  <2>1. /\ t \in Seq(Char) /\ Len(t) = (p + (l + n)) + r
        /\ \A i \in 1..p : t[i] = Space
        /\ \A i \in 1..(l + n) : t[p + i] = u[i]
        /\ \A i \in 1..r : t[(p + (l + n)) + i] = Space
    BY <1>1, <1>5 DEF InSpaces
  <2>2. p + (l + n) = h + n
    BY <1>3, <1>4, <1>6
  <2>3. ASSUME NEW j \in 1..n PROVE t[h + j] = s[j]
    <3>1. PICK i : i = l + j
      OBVIOUS
    <3>2. i \in 1..(l + n) /\ ~(i <= l) /\ i - l = j /\ p + i = h + j
      BY <1>3, <1>4, <1>6, <3>1
    <3>3. t[p + i] = u[i]
      BY <2>1, <3>2
    <3>4. u[i] = s[i - l]
      BY <1>5, <3>2
    <3> QED
      BY <3>2, <3>3, <3>4
  <2>4. l = 1 => t[p + 1] = pre[1]
    <3>1. SUFFICES ASSUME l = 1 PROVE t[p + 1] = pre[1]
      OBVIOUS
    <3>2. PICK i : i = 1
      OBVIOUS
    <3>3. i \in 1..(l + n) /\ i <= l
      BY <1>4, <3>1, <3>2
    <3>4. t[p + i] = u[i] /\ u[i] = pre[i]
      BY <1>5, <2>1, <3>3
    <3> QED
      BY <3>2, <3>4
  <2> QED
    BY <2>1, <2>2, <2>3, <2>4
<1>9. \A j \in 1..n : s[j] \in 0..9
  BY <1>1, DigitRange
<1>10. /\ P!Power(10, n) > m
       /\ \A j \in 1..n : s[j] = (m \div P!Power(10, n - j)) % 10
  BY <1>1 DEF DecimalDigits
<1>11. Space = -1 /\ Minus = -2 /\ Plus = -3
  BY DEF Space, Minus, Plus
<1>12. \/ pre = <<>> /\ l = 0
       \/ pre = <<Space>> /\ l = 1
       \/ pre = <<Minus>> /\ l = 1
       \/ pre = <<Plus>> /\ l = 1
  BY <1>3
<1>13. <<Minus>> # <<>> /\ <<Minus>> # <<Plus>> /\ <<Minus>> # <<Space>>
  BY <1>11
<1>14. CASE pre \in {<<>>, <<Space>>}
  <2>1. \A i \in 1..h : t[i] = Space
    <3>1. TAKE i \in 1..h
    <3>2. i <= p \/ (l = 1 /\ i = p + 1)
      BY <1>6, <1>12
    <3> QED
      BY <1>3, <1>8, <1>13, <1>14, <3>2
  <2>2. CASE n = 0
    <3>1. PICK q : q = (h + r) + 1
      OBVIOUS
    <3>2. q \in 1..(Len(t) + 1) /\ Len(t) + 1 = q /\ Len(t) = h + r /\ q \in Nat
      BY <1>7, <1>8, <2>2, <3>1
    <3>3. \A i \in 1..(q - 1) : t[i] = Space
      <4>1. TAKE i \in 1..(q - 1)
      <4>2. CASE i <= h
        BY <2>1, <4>2
      <4>3. CASE ~(i <= h)
        <5>1. PICK x : x = i - h
          OBVIOUS
        <5>2. x \in 1..r /\ (h + n) + x = i
          BY <1>7, <2>2, <3>1, <4>3, <5>1
        <5> QED
          BY <1>8, <5>2
      <4> QED
        BY <4>2, <4>3
    <3>4. Numeral(t, q, q, 0, m, pre = <<Minus>>)
      <4>1. P!Power(10, 0) > m
        BY <1>10, <2>2
      <4>2. q + 0 <= Len(t) + 1 /\ ~(q <= Len(t)) /\ ~(q + 0 <= Len(t))
        BY <3>2
      <4>3. pre # <<Minus>>
        BY <1>13, <1>14
      <4>4. q \in q..(Len(t) + 1) /\ 0 \in Nat
        BY <3>2
      <4>5. \A j \in 1..0 : FALSE
        OBVIOUS
      <4> QED
        BY <3>2, <3>3, <4>1, <4>2, <4>3, <4>4, <4>5 DEF Numeral
    <3> QED
      BY <3>4
  <2>3. CASE n # 0
    <3>1. PICK q : q = h + 1
      OBVIOUS
    <3>2. /\ q \in 1..(Len(t) + 1) /\ q \in q..(Len(t) + 1) /\ q + n <= Len(t) + 1
          /\ q - 1 = h
      BY <1>4, <1>7, <1>8, <3>1
    <3>3. t[q] = s[1] /\ s[1] \in 0..9
      <4>1. 1 \in 1..n
        BY <1>4, <2>3
      <4> QED
        BY <1>8, <1>9, <3>1, <4>1
    <3>4. t[q] \notin {Space, Minus, Plus}
      BY <1>11, <3>3
    <3>5. \A j \in 1..n : t[(q - 1) + j] = (m \div P!Power(10, n - j)) % 10
      BY <1>8, <1>10, <3>2
    <3>6. q + n <= Len(t) => t[q + n] = Space
      <4>1. q + n = (h + n) + 1
        BY <1>4, <1>7, <3>1
      <4>2. q + n <= Len(t) => 1 \in 1..r
        BY <1>4, <1>7, <1>8, <4>1
      <4> QED
        BY <1>8, <4>1, <4>2
    <3>7. \A i \in 1..(q - 1) : t[i] = Space
      BY <2>1, <3>2
    <3>8. pre # <<Minus>>
      BY <1>13, <1>14
    <3>9. Numeral(t, q, q, n, m, pre = <<Minus>>)
      BY <1>4, <1>10, <3>2, <3>4, <3>5, <3>6, <3>7, <3>8 DEF Numeral
    <3> QED
      BY <3>9
  <2> QED
    BY <2>2, <2>3
<1>15. CASE pre \in {<<Minus>>, <<Plus>>}
  <2>1. PICK q, a : q = h /\ a = h + 1
    OBVIOUS
  <2>2. h = p + 1 /\ l = 1
    BY <1>3, <1>6, <1>15
  <2>3. /\ q \in 1..(Len(t) + 1) /\ a \in q..(Len(t) + 1) /\ a + n <= Len(t) + 1
        /\ a - 1 = h /\ a = q + 1 /\ q - 1 = p
    BY <1>4, <1>7, <1>8, <2>1, <2>2
  <2>4. t[q] = pre[1]
    BY <1>8, <2>1, <2>2
  <2>5. a + n <= Len(t) => t[a + n] = Space
    <3>1. a + n = (h + n) + 1
      BY <1>4, <1>7, <2>1
    <3>2. a + n <= Len(t) => 1 \in 1..r
      BY <1>4, <1>7, <1>8, <3>1
    <3> QED
      BY <1>8, <3>1, <3>2
  <2>6. a <= Len(t) => t[a] # Plus
    <3>1. CASE n = 0
      <4>1. a + n = a
        BY <1>7, <2>1, <3>1
      <4> QED
        BY <1>11, <2>5, <4>1
    <3>2. CASE n # 0
      <4>1. 1 \in 1..n
        BY <1>4, <3>2
      <4>2. t[a] = s[1] /\ s[1] \in 0..9
        BY <1>8, <1>9, <2>1, <4>1
      <4> QED
        BY <1>11, <4>2
    <3> QED
      BY <3>1, <3>2
  <2>7. \A j \in 1..n : t[(a - 1) + j] = (m \div P!Power(10, n - j)) % 10
    BY <1>8, <1>10, <2>3
  <2>8. \A i \in 1..(q - 1) : t[i] = Space
    BY <1>8, <2>3
  <2>9. \/ pre = <<Minus>> /\ t[q] = Minus
        \/ pre # <<Minus>> /\ t[q] = Plus
    BY <1>3, <1>13, <1>15, <2>4
  <2>10. Numeral(t, q, a, n, m, pre = <<Minus>>)
    BY <1>4, <1>10, <2>3, <2>5, <2>6, <2>7, <2>8, <2>9 DEF Numeral
  <2> QED
    BY <2>10
<1> QED
  BY <1>14, <1>15

(* What is copied from the screen: the number's sign and digits, in the    *)
(* spaces of its field.                                                    *)
LEMMA PrintedNumeral ==
  ASSUME NEW e \in P!Directive, e.conv \in {"d", "u", "x"},
         e.conv = "x" => "hash" \notin e.flags /\ P!Argument(e) < 10
  PROVE  \E q, a, k : Numeral(P!CText(e), q, a, k, P!Magnitude(e), P!Argument(e) < 0)
<1>1. PICK pre, s : /\ P!CNumber(e) = pre \o s
                    /\ DecimalDigits(s, P!Magnitude(e))
                    /\ pre \in {<<>>, <<Minus>>, <<Plus>>, <<Space>>}
                    /\ pre = <<Minus>> <=> P!Argument(e) < 0
  BY NumberText
<1>2. e.conv \in P!Integer /\ e.width \in Int
  BY DirectiveIs DEF P!Integer
<1>3. P!CNumber(e) \in Seq(Char) /\ P!Magnitude(e) \in Nat
  BY <1>2, CNumberForm, MagnitudeIs
<1>4. P!CText(e) = P!Field(P!CNumber(e), e)
  BY <1>2 DEF P!CText, P!Integer
<1>5. PICK p, r : p \in Nat /\ r \in Nat /\ InSpaces(P!CText(e), pre \o s, p, r)
  BY <1>1, <1>2, <1>3, <1>4, FieldText
<1>6. PICK m : m = P!Magnitude(e)
  OBVIOUS
<1>7. \E q, a, k : Numeral(P!CText(e), q, a, k, m, pre = <<Minus>>)
  BY <1>1, <1>3, <1>5, <1>6, NumeralInSpaces
<1>8. PICK q, a, k : Numeral(P!CText(e), q, a, k, m, pre = <<Minus>>)
  BY <1>7
<1>9. Numeral(P!CText(e), q, a, k, m, P!Argument(e) < 0)
  BY <1>1, <1>8 DEF Numeral
<1> QED
  BY <1>6, <1>9

-----------------------------------------------------------------------------
(* strtol on such a string: exact is the part of the number before pos.    *)
Reading(q, a, k, m, neg) ==
  /\ Numeral(str, q, a, k, m, neg)
  /\ pc = "digits" =>
       /\ pos \in a..(a + k)
       /\ sign = IF neg THEN -1 ELSE 1
       /\ LET part == m \div P!Power(10, (a + k) - pos)
          IN exact = IF neg THEN -part ELSE part
  /\ pc = "done" /\ str # <<>> => exact = IF neg THEN -m ELSE m

(* strtol stops skipping spaces at q, and behind the sign at a.            *)
LEMMA SignsRead ==
  ASSUME IInv, Scanned, Signs, NEW q, NEW a, NEW k, NEW m \in Nat, NEW neg \in BOOLEAN,
         Reading(q, a, k, m, neg)
  PROVE  Reading(q, a, k, m, neg)'
<1>1. PICK n : n = Len(str)
  OBVIOUS
<1>2. /\ pc = "space" /\ pc' = "digits" /\ str' = str /\ exact' = exact /\ ~IsAt(pos, Space)
      /\ n \in Nat /\ pos \in 1..(n + 1)
      /\ \A i \in 1..(pos - 1) : str[i] = Space
      /\ exact = 0
  BY <1>1 DEF Signs, IInv, TypeOK, Scanned, SignFirst
<1>3. /\ q \in 1..(n + 1) /\ a \in q..(n + 1) /\ k \in Nat /\ a + k <= n + 1
      /\ \A i \in 1..(q - 1) : str[i] = Space
      /\ \/ a = q /\ ~neg /\ (q <= n => str[q] \notin {Space, Minus, Plus})
         \/ a = q + 1 /\ neg /\ str[q] = Minus /\ (a <= n => str[a] # Plus)
         \/ a = q + 1 /\ ~neg /\ str[q] = Plus
      /\ P!Power(10, k) > m
  BY <1>1 DEF Reading, Numeral
<1>4. Space = -1 /\ Minus = -2 /\ Plus = -3
  BY DEF Space, Minus, Plus
<1>5. pos = q
  <2>1. q <= n => str[q] # Space
    BY <1>2, <1>3, <1>4
  <2>2. pos <= n => str[pos] # Space
    BY <1>1, <1>2 DEF IsAt, AtEnd
  <2>3. CASE pos < q
    <3>1. pos \in 1..(q - 1) /\ pos <= n
      BY <1>2, <1>3, <2>3
    <3> QED
      BY <1>3, <2>2, <3>1
  <2>4. CASE q < pos
    <3>1. q \in 1..(pos - 1) /\ q <= n
      BY <1>2, <1>3, <2>4
    <3> QED
      BY <1>2, <2>1, <3>1
  <2> QED
    BY <1>2, <1>3, <2>3, <2>4
<1>6. pos' = a /\ sign' = IF neg THEN -1 ELSE 1
  <2>1. PICK minus, plus : /\ minus = (IF IsAt(pos, Minus) THEN 1 ELSE 0)
                           /\ plus = (IF IsAt(pos + minus, Plus) THEN 1 ELSE 0)
    OBVIOUS
  <2>2. pos' = pos + minus + plus /\ sign' = IF minus = 1 THEN -1 ELSE 1
    BY <2>1 DEF Signs
  <2>3. \A p \in Int : \A c : IsAt(p, c) <=> p <= n /\ str[p] = c
    BY <1>1, <1>2 DEF IsAt, AtEnd
  <2>4. CASE a = q /\ ~neg /\ (q <= n => str[q] \notin {Space, Minus, Plus})
    <3>1. minus = 0
      BY <1>2, <1>5, <2>1, <2>3, <2>4
    <3>2. pos + minus = q /\ q \in Int
      BY <1>2, <1>5, <3>1
    <3>3. plus = 0
      BY <2>1, <2>3, <2>4, <3>2
    <3> QED
      BY <1>2, <1>5, <2>2, <2>4, <3>1, <3>3
  <2>5. CASE a = q + 1 /\ neg /\ str[q] = Minus /\ (a <= n => str[a] # Plus)
    <3>1. q <= n
      BY <1>2, <1>3, <2>5
    <3>2. minus = 1
      BY <1>2, <1>5, <2>1, <2>3, <2>5, <3>1
    <3>3. pos + minus = a /\ a \in Int
      BY <1>2, <1>5, <2>5, <3>2
    <3>4. plus = 0
      BY <2>1, <2>3, <2>5, <3>3
    <3> QED
      BY <1>2, <1>5, <2>2, <2>5, <3>2, <3>3, <3>4
  <2>6. CASE a = q + 1 /\ ~neg /\ str[q] = Plus
    <3>1. q <= n
      BY <1>2, <1>3, <2>6
    <3>2. minus = 0
      BY <1>2, <1>4, <1>5, <2>1, <2>3, <2>6
    <3>3. pos + minus = q /\ q \in Int
      BY <1>2, <1>5, <3>2
    <3>4. plus = 1
      BY <2>1, <2>3, <2>6, <3>1, <3>3
    <3> QED
      BY <1>2, <1>5, <2>2, <2>6, <3>2, <3>4
  <2> QED
    BY <1>3, <2>4, <2>5, <2>6
<1>7. m \div P!Power(10, (a + k) - pos') = 0
  <2>1. PICK i : i = (a + k) - pos'
    OBVIOUS
  <2>2. i = k
    BY <1>2, <1>3, <1>6, <2>1
  <2>3. 10 \in Nat /\ 10 >= 2
    OBVIOUS
  <2>4. m \div P!Power(10, k) = 0
    BY <1>3, <2>3, QuotientZero
  <2> QED
    BY <2>1, <2>2, <2>4
<1>8. pos' \in a..(a + k)
  BY <1>2, <1>3, <1>6
<1>9. Numeral(str', q, a, k, m, neg)
  BY <1>2 DEF Reading
<1> QED
  BY <1>2, <1>6, <1>7, <1>8, <1>9 DEF Reading

(* One digit more of the number.                                           *)
LEMMA DigitRead ==
  ASSUME IInv, Digit, NEW q, NEW a, NEW k, NEW m \in Nat, NEW neg \in BOOLEAN,
         Reading(q, a, k, m, neg)
  PROVE  Reading(q, a, k, m, neg)'
<1>1. PICK n : n = Len(str)
  OBVIOUS
<1>2. /\ pc = "digits" /\ pc' = "digits" /\ str' = str /\ sign' = sign /\ pos' = pos + 1
      /\ exact' = exact * 10 + sign * str[pos]
      /\ str[pos] \in 0..9 /\ pos <= n
      /\ n \in Nat /\ pos \in 1..(n + 1)
  BY <1>1 DEF Digit, IInv, TypeOK, IsNumber, AtEnd, Base
<1>3. /\ q \in 1..(n + 1) /\ a \in q..(n + 1) /\ k \in Nat /\ a + k <= n + 1
      /\ \A j \in 1..k : str[(a - 1) + j] = (m \div P!Power(10, k - j)) % 10
      /\ a + k <= n => str[a + k] = Space
      /\ pos \in a..(a + k)
      /\ sign = IF neg THEN -1 ELSE 1
  BY <1>1, <1>2 DEF Reading, Numeral
<1>4. pos < a + k
  <2>1. pos # a + k
    BY <1>2, <1>3 DEF Space
  <2> QED
    BY <1>2, <1>3, <2>1
<1>5. PICK i, x, y, c : /\ i = (a + k) - (pos + 1) /\ x = m \div P!Power(10, (a + k) - pos)
                        /\ y = m \div P!Power(10, i) /\ c = str[pos]
  OBVIOUS
<1>6. i \in Nat /\ (a + k) - pos = i + 1
  BY <1>2, <1>3, <1>4, <1>5
<1>7. y \in Nat /\ x = y \div 10
  <2>1. 10 \in Nat /\ 10 >= 2
    OBVIOUS
  <2>2. y \in Nat /\ y \div 10 = m \div P!Power(10, i + 1)
    BY <1>5, <1>6, <2>1, QuotientStep
  <2> QED
    BY <1>5, <1>6, <2>2
<1>8. c = y % 10
  <2>1. PICK j : j = pos - (a - 1)
    OBVIOUS
  <2>2. j \in 1..k /\ (a - 1) + j = pos /\ k - j = i
    BY <1>2, <1>3, <1>4, <1>5, <2>1
  <2>3. str[(a - 1) + j] = (m \div P!Power(10, k - j)) % 10
    BY <1>3, <2>2
  <2> QED
    BY <1>5, <2>2, <2>3
<1>9. x * 10 + c = y /\ x \in Nat /\ c \in Nat
  BY <1>7, <1>8
<1>10. exact = IF neg THEN -x ELSE x
  BY <1>2, <1>5 DEF Reading
<1>11. exact' = IF neg THEN -y ELSE y
  <2>1. CASE neg
    <3>1. exact' = (-x) * 10 + (-1) * c
      BY <1>2, <1>3, <1>5, <1>10, <2>1
    <3> QED
      BY <1>7, <1>9, <2>1, <3>1
  <2>2. CASE ~neg
    <3>1. exact' = x * 10 + 1 * c
      BY <1>2, <1>3, <1>5, <1>10, <2>2
    <3> QED
      BY <1>7, <1>9, <2>2, <3>1
  <2> QED
    BY <2>1, <2>2
<1>12. pos' \in a..(a + k) /\ (a + k) - pos' = i
  BY <1>2, <1>3, <1>4, <1>5
<1>13. sign' = IF neg THEN -1 ELSE 1
  BY <1>2, <1>3
<1>14. Numeral(str', q, a, k, m, neg)
  BY <1>2 DEF Reading
<1> QED
  BY <1>2, <1>5, <1>11, <1>12, <1>13, <1>14 DEF Reading

(* It does not stop before the last digit.                                 *)
LEMMA StopRead ==
  ASSUME IInv, Stop, NEW q, NEW a, NEW k, NEW m \in Nat, NEW neg \in BOOLEAN,
         Reading(q, a, k, m, neg)
  PROVE  Reading(q, a, k, m, neg)'
<1>1. PICK n : n = Len(str)
  OBVIOUS
<1>2. /\ pc = "digits" /\ pc' = "done" /\ str' = str /\ exact' = exact
      /\ n \in Nat /\ pos \in 1..(n + 1)
      /\ ~(pos <= n /\ str[pos] \in 0..9)
  BY <1>1 DEF Stop, IInv, TypeOK, IsNumber, AtEnd, Base
<1>3. /\ q \in 1..(n + 1) /\ a \in q..(n + 1) /\ k \in Nat /\ a + k <= n + 1
      /\ \A j \in 1..k : str[(a - 1) + j] = (m \div P!Power(10, k - j)) % 10
      /\ pos \in a..(a + k)
  BY <1>1, <1>2 DEF Reading, Numeral
<1>4. 10 \in Nat /\ 10 >= 2
  OBVIOUS
<1>5. pos = a + k
  <2>1. SUFFICES ASSUME pos # a + k PROVE FALSE
    OBVIOUS
  <2>2. PICK j, i : j = pos - (a - 1) /\ i = k - j
    OBVIOUS
  <2>3. j \in 1..k /\ (a - 1) + j = pos /\ i \in Nat /\ pos <= n
    BY <1>2, <1>3, <2>1, <2>2
  <2>4. str[pos] = (m \div P!Power(10, i)) % 10
    BY <1>3, <2>2, <2>3
  <2>5. PICK x : x = m \div P!Power(10, i)
    OBVIOUS
  <2>6. x \in Nat
    BY <1>4, <2>3, <2>5, QuotientStep
  <2>7. str[pos] \in 0..9
    BY <2>4, <2>5, <2>6
  <2> QED
    BY <1>2, <2>3, <2>7
<1>6. m \div P!Power(10, (a + k) - pos) = m
  <2>1. (a + k) - pos = 0
    BY <1>2, <1>3, <1>5
  <2>2. m \div P!Power(10, 0) = m
    <3>1. 0 \in Nat
      OBVIOUS
    <3> QED
      BY <1>4, <3>1, QuotientStep
  <2> QED
    BY <2>1, <2>2
<1>7. exact = IF neg THEN -m ELSE m
  BY <1>2, <1>6 DEF Reading
<1> QED
  BY <1>2, <1>7 DEF Reading

LEMMA ReadingStep ==
  ASSUME IInv, Scanned, Next, NEW q, NEW a, NEW k, NEW m \in Nat, NEW neg \in BOOLEAN,
         Reading(q, a, k, m, neg)
  PROVE  Reading(q, a, k, m, neg)'
<1>1. CASE Start
  BY <1>1 DEF Start, Reading
<1>2. CASE SkipSpace
  BY <1>2 DEF SkipSpace, Reading
<1>3. CASE Signs
  BY <1>3, SignsRead
<1>4. CASE Digit
  BY <1>4, DigitRead
<1>5. CASE Stop
  BY <1>5, StopRead
<1> QED
  BY <1>1, <1>2, <1>3, <1>4, <1>5 DEF Next

(* No NUL is among the characters of a number: the console shows them all. *)
LEMMA PrintedIsShown ==
  ASSUME NEW e \in P!Directive, e.conv \in {"d", "u", "x"},
         e.conv = "x" => "hash" \notin e.flags /\ P!Argument(e) < 10
  PROVE  P!CText(e) \in Seq(Shown)
<1>1. PICK pre, s : /\ P!CNumber(e) = pre \o s
                    /\ DecimalDigits(s, P!Magnitude(e))
                    /\ pre \in {<<>>, <<Minus>>, <<Plus>>, <<Space>>}
  BY NumberText
<1>2. e.conv \in P!Integer /\ e.width \in Int
  BY DirectiveIs DEF P!Integer
<1>3. P!CNumber(e) \in Seq(Char) /\ P!Magnitude(e) \in Nat
  BY <1>2, CNumberForm, MagnitudeIs
<1>4. P!CText(e) = P!Field(P!CNumber(e), e)
  BY <1>2 DEF P!CText, P!Integer
<1>5. PICK u, t : u = pre \o s /\ t = P!CText(e)
  OBVIOUS
<1>6. PICK p, r : p \in Nat /\ r \in Nat /\ InSpaces(t, u, p, r)
  BY <1>1, <1>2, <1>3, <1>4, <1>5, FieldText
<1>7. Space \in Shown /\ Minus \in Shown /\ Plus \in Shown /\ 0..9 \subseteq Shown
      /\ Shown \subseteq Char
  BY DEF Space, Minus, Plus, Shown, Char
<1>8. u \in Seq(Shown)
  <2>1. s \in Seq(Shown)
    <3>1. s \in Seq(Char) /\ \A j \in 1..Len(s) : s[j] \in 0..9
      BY <1>1, <1>3, DigitRange DEF DecimalDigits
    <3>2. \A j \in 1..Len(s) : s[j] \in Shown
      BY <1>7, <3>1
    <3> QED
      BY <3>1, <3>2
  <2>2. pre \in Seq(Shown)
    <3>1. \A c \in Shown : <<c>> \in Seq(Shown)
      OBVIOUS
    <3>2. <<>> \in Seq(Shown)
      OBVIOUS
    <3> QED
      BY <1>1, <1>7, <3>1, <3>2
  <2> QED
    BY <1>5, <2>1, <2>2, ConcatProperties
<1>9. PICK n : n = Len(u)
  OBVIOUS
<1>10. /\ n \in Nat /\ t \in Seq(Char) /\ Len(t) = (p + n) + r
       /\ \A i \in 1..p : t[i] = Space
       /\ \A i \in 1..n : t[p + i] = u[i]
       /\ \A i \in 1..r : t[(p + n) + i] = Space
  BY <1>6, <1>8, <1>9 DEF InSpaces
<1>11. \A i \in 1..n : u[i] \in Shown
  BY <1>8, <1>9
<1>12. ASSUME NEW i \in 1..((p + n) + r) PROVE t[i] \in Shown
  <2>1. CASE i <= p
    BY <1>6, <1>7, <1>10, <2>1
  <2>2. CASE ~(i <= p) /\ i <= p + n
    <3>1. PICK j : j = i - p
      OBVIOUS
    <3>2. j \in 1..n /\ p + j = i
      BY <1>6, <1>10, <2>2, <3>1
    <3> QED
      BY <1>10, <1>11, <3>2
  <2>3. CASE ~(i <= p + n)
    <3>1. PICK j : j = i - (p + n)
      OBVIOUS
    <3>2. j \in 1..r /\ (p + n) + j = i
      BY <1>6, <1>10, <2>3, <3>1
    <3> QED
      BY <1>7, <1>10, <3>2
  <2> QED
    BY <2>1, <2>2, <2>3
<1>13. t \in Seq(Shown)
  BY <1>10, <1>12
<1> QED
  BY <1>5, <1>13

(* No argument is below the smallest long.                                 *)
LEMMA ArgumentRange ==
  ASSUME NEW e \in P!Directive, e.conv \in P!Integer
  PROVE  P!Argument(e) >= LongMin
<1>1. PICK w, u : w = Wrap[e.length] /\ u = e.arg % w
  OBVIOUS
<1>2. w \in Nat /\ w > 1 /\ w <= 2 * (LongMax + 1) /\ e.arg \in Int
  BY <1>1, DirectiveIs, PrintfConstants DEF P!Constants
<1>3. u \in Nat
  BY <1>1, <1>2
<1>4. P!Argument(e) = u \/ (2 * u >= w /\ P!Argument(e) = u - w)
  BY <1>1 DEF P!Argument, P!Signed, P!Unsigned
<1> QED
  BY <1>2, <1>3, <1>4, ConstAssumption, LongRange

(* A number typed back is read from its first digit to its last.           *)
ReadBackInv ==
  ppc = "typed" /\ call # NoCall =>
    LET e == call.format[1]
    IN ReadAsPrinted(e) /\ ~P!Deviates(e) =>
         /\ e \in P!Directive /\ e.conv \in P!Integer
         /\ \E q, a, k : Reading(q, a, k, P!Magnitude(e), P!Argument(e) < 0)

(* strtol does not start before a string was typed.                        *)
LEMMA TypeBackReads ==
  ASSUME NumbersInv, FormattingInv, TypeBack
  PROVE  ReadBackInv'
<1>1. /\ ppc = "done" /\ str' = console /\ call' = call /\ pc' = pc /\ pc = "start"
      /\ call.sink = "console" /\ Len(call.format) = 1
      /\ call.format[1].conv \in {"d", "u", "x"}
  BY DEF TypeBack, PrintedNumber, NumbersInv, Waiting
<1>2. call \in Calls
  BY <1>1 DEF NumbersInv, PrintfInv
<1>3. PICK f, e : f = call.format /\ e = f[1]
  OBVIOUS
<1>4. f \in Seq(P!Directive) /\ Len(f) = 1
  BY <1>1, <1>2, <1>3, CallIs
<1>5. e \in P!Directive /\ e.conv \in {"d", "u", "x"} /\ e.conv \in P!Integer
  BY <1>1, <1>3, <1>4 DEF P!Integer
<1>6. SUFFICES ASSUME ReadAsPrinted(e), ~P!Deviates(e)
               PROVE  \E q, a, k : Reading(q, a, k, P!Magnitude(e), P!Argument(e) < 0)'
  BY <1>1, <1>3, <1>5 DEF ReadBackInv
<1>7. e.conv = "x" => "hash" \notin e.flags /\ P!Argument(e) < 10
  BY <1>6 DEF ReadAsPrinted, Base
<1>8. console = P!CText(e)
  <2>1. \A n \in 1..Len(f) : ~P!Deviates(f[n])
    BY <1>3, <1>4, <1>6
  <2>2. console = P!Visible(P!CTextOf(f))
    BY <1>1, <1>3, <2>1, FormattedAsC DEF Written
  <2>3. PICK T : /\ JoinsTexts(f, T)
                 /\ P!CTextOf(f) = T[Len(f)]
    BY <1>4, CTextOfSteps
  <2>4. T[1] = T[0] \o P!CText(f[1]) /\ T[0] = <<>>
    <3>1. 1 \in 1..Len(f) /\ 1 - 1 = 0
      BY <1>4
    <3>2. T[1] = T[1 - 1] \o P!CText(f[1])
      BY <2>3, <3>1 DEF JoinsTexts
    <3>3. T[0] = <<>>
      BY <2>3 DEF JoinsTexts
    <3> QED
      BY <3>1, <3>2, <3>3
  <2>5. P!CTextOf(f) = P!CText(e)
    <3>1. P!CText(e) \in Seq(Char)
      BY <1>5, CTextIs
    <3> QED
      BY <1>3, <1>4, <2>3, <2>4, <3>1, JoinedEmpty
  <2>6. P!CText(e) \in Seq(Shown)
    BY <1>5, <1>7, PrintedIsShown
  <2> QED
    BY <2>2, <2>5, <2>6, VisibleAll
<1>9. PICK q, a, k : Numeral(P!CText(e), q, a, k, P!Magnitude(e), P!Argument(e) < 0)
  BY <1>5, <1>7, PrintedNumeral
<1>10. Reading(q, a, k, P!Magnitude(e), P!Argument(e) < 0)'
  BY <1>1, <1>8, <1>9 DEF Reading
<1> QED
  BY <1>10

(* ReadBackInv is kept while strtol reads, and vacuous before.             *)
LEMMA ReadBackStep ==
  NumbersInv /\ FormattingInv /\ ReadBackInv /\ [NumbersNext]_<<vars, printfVars>> => ReadBackInv'
<1> SUFFICES ASSUME NumbersInv, FormattingInv, ReadBackInv, [NumbersNext]_<<vars, printfVars>>
             PROVE  ReadBackInv'
  OBVIOUS
<1>1. CASE Call
  BY <1>1 DEF Call, P!Next, P!OutText, P!OutCharOrString, P!StartNumber, P!NextDigit,
              P!FormatNumber, P!OutNumber, P!Terminate, P!IsNext, ReadBackInv
<1>2. CASE TypeBack
  BY <1>2, TypeBackReads
<1>3. CASE Convert
  <2>1. ppc = "typed" /\ Next /\ call' = call
    BY <1>3 DEF Convert, printfVars
  <2>2. PICK e : e = call.format[1]
    OBVIOUS
  <2>3. SUFFICES ASSUME call # NoCall, ReadAsPrinted(e), ~P!Deviates(e)
                 PROVE  /\ e \in P!Directive /\ e.conv \in P!Integer
                        /\ \E q, a, k : Reading(q, a, k, P!Magnitude(e), P!Argument(e) < 0)'
    BY <2>1, <2>2 DEF ReadBackInv
  <2>4. e \in P!Directive /\ e.conv \in P!Integer
    BY <2>1, <2>2, <2>3 DEF ReadBackInv
  <2>5. PICK q, a, k : Reading(q, a, k, P!Magnitude(e), P!Argument(e) < 0)
    BY <2>1, <2>2, <2>3 DEF ReadBackInv
  <2>6. PICK m, neg : m = P!Magnitude(e) /\ neg = (P!Argument(e) < 0)
    OBVIOUS
  <2>7. m \in Nat /\ neg \in BOOLEAN
    <3>1. m \in Nat
      BY <2>4, <2>6, MagnitudeIs
    <3>2. neg \in BOOLEAN
      BY <2>6
    <3> QED
      BY <3>1, <3>2
  <2>8. IInv /\ Scanned
    BY DEF NumbersInv
  <2>9. Reading(q, a, k, m, neg)
    BY <2>5, <2>6
  <2>10. Reading(q, a, k, m, neg)'
    BY <2>1, <2>7, <2>8, <2>9, ReadingStep
  <2> QED
    BY <2>4, <2>6, <2>10
<1>4. CASE UNCHANGED <<vars, printfVars>>
  BY <1>4 DEF vars, printfVars, ReadBackInv, Reading
<1> QED
  BY <1>1, <1>2, <1>3, <1>4 DEF NumbersNext

LEMMA ReadBackInit == NumbersInit => ReadBackInv
BY DEF NumbersInit, TypeAnything, Prints, P!Init, ReadBackInv

-----------------------------------------------------------------------------
(* printf.c: a number never leaves the array of _ntoa_long, whatever its   *)
(* precision, width, base and flags are, and the console gets no NUL.      *)
THEOREM PrintfTypeCorrect == NumbersSpec => []PrintfTypeOK
<1>1. NumbersInv => PrintfTypeOK
  BY DEF NumbersInv, PrintfInv, PrintfTypeOK
<1> QED
  BY <1>1, NumbersInvariance, PTL

(* printf.c: snprintf writes below its count only, for every count and     *)
(* every length of the text, and terminates the string there.              *)
THEOREM WritesWithinCountHolds == NumbersSpec => []WritesWithinCount
<1>1. NumbersInv => WritesWithinCount
  BY DEF NumbersInv, PrintfInv, WritesWithinCount
<1> QED
  BY <1>1, NumbersInvariance, PTL

(* cstring.h: strtol is exact or saturates, and stops behind the number, on *)
(* what printf put on the console as well as on any other string.          *)
THEOREM ReadsExactly ==
  NumbersSpec => [](TypeOK /\ SaturatesExactly /\ EndIsBehindNumber)
<1>1. NumbersInv => TypeOK /\ SaturatesExactly /\ EndIsBehindNumber
  BY DEF NumbersInv, IInv, Scanned
<1> QED
  BY <1>1, NumbersInvariance, PTL

(* printf.c: for every format, argument, flag, width and precision outside *)
(* the deviations Printf lists, what a call leaves in the buffer or on the *)
(* console is what ISO C says, as far as it fits, and the result is its    *)
(* full length.                                                            *)
THEOREM FormatsAsCHolds == NumbersSpec => []FormatsAsC
<1>1. NumbersInv /\ FormattingInv => FormatsAsC
  <2> SUFFICES ASSUME NumbersInv, FormattingInv, ppc = "done",
                      \A n \in 1..Len(call.format) : ~P!Deviates(call.format[n]),
                      NEW text, text = P!CTextOf(call.format)
               PROVE  /\ idx = Len(text)
                      /\ call.sink = "console" => console = P!Visible(text)
                      /\ call.sink = "buffer" =>
                           \A i \in DOMAIN memory :
                             i < Len(text) /\ i < call.maxlen - 1 => memory[i] = text[i + 1]
    BY DEF FormatsAsC, P!FormatsAsC
  <2>1. Written(text)
    BY FormattedAsC
  <2> QED
    BY <2>1 DEF Written
<1> QED
  BY <1>1, FormattingInvariance, PTL

(* printf.c, cstring.h: an address that kmalloc reports in decimal, and    *)
(* every other number printed alone and typed again, comes back from       *)
(* strtol as it was, or as the bound of a long that is nearest to it, and  *)
(* ERANGE is not set where a long can hold it.                             *)
THEOREM RoundTripHolds == NumbersSpec => []RoundTrip
<1>1. NumbersInv /\ ReadBackInv => RoundTrip
  <2> SUFFICES ASSUME NumbersInv, ReadBackInv, pc = "done", call # NoCall, str # <<>>,
                      NEW e, e = call.format[1], ReadAsPrinted(e), ~P!Deviates(e)
               PROVE  sum = Clamp(P!Argument(e)) /\ (P!Argument(e) <= LongMax => ~erange)
    BY DEF RoundTrip
  <2>1. ppc = "typed" /\ SaturatesExactly
    BY DEF NumbersInv, Waiting, IInv
  <2>2. e \in P!Directive /\ e.conv \in P!Integer
    BY <2>1 DEF ReadBackInv
  <2>3. PICK q, a, k : Reading(q, a, k, P!Magnitude(e), P!Argument(e) < 0)
    BY <2>1 DEF ReadBackInv
  <2>4. PICK n \in Int : n = P!Argument(e)
    BY <2>2, ArgumentIs
  <2>5. exact = n
    <3>1. P!Magnitude(e) = IF n < 0 THEN -n ELSE n
      BY <2>4 DEF P!Magnitude
    <3>2. exact = IF n < 0 THEN -P!Magnitude(e) ELSE P!Magnitude(e)
      BY <2>3, <2>4 DEF Reading
    <3> QED
      BY <3>1, <3>2
  <2>6. n >= LongMin
    BY <2>2, <2>4, ArgumentRange
  <2>7. sum = Clamp(n) /\ (erange <=> n \notin LongMin..LongMax)
    BY <2>1, <2>5 DEF SaturatesExactly
  <2> QED
    BY <2>4, <2>6, <2>7, LongRange, ConstAssumption
<1> QED
  BY <1>1, FormattingInvariance, ReadBackInit, ReadBackStep, PTL DEF NumbersSpec
=============================================================================
