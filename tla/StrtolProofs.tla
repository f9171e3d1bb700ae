---------------------------- MODULE StrtolProofs ----------------------------
(***************************************************************************)
(* strtol for a long of any width and strings of any length: the loop      *)
(* never overflows, and the result is the number read or the nearest bound.*)
(***************************************************************************)
EXTENDS Strtol, SequenceTheorems, TLAPS

(* Signs comes before the digits.                                          *)
SignFirst == pc \in {"start", "space"} => exact = 0

(* exact grows away from 0, in the direction of the sign.                  *)
Direction == IF sign = 1 THEN exact >= 0 ELSE exact <= 0

IInv == TypeOK /\ SaturatesExactly /\ Direction /\ SignFirst

LEMMA LongRange == LongMin \in Int /\ LongMin < -10 /\ LongMin = -LongMax - 1
BY ConstAssumption DEF LongMin

(* The test before the multiplication is exact: it holds if and only if    *)
(* the result is in range.                                                 *)
LEMMA FitsPositive ==
  ASSUME NEW s \in LongMin..LongMax, NEW n \in 0..9
  PROVE  s <= (LongMax - n) \div 10 <=> s * 10 + n <= LongMax
BY LongRange, ConstAssumption

LEMMA FitsNegative ==
  ASSUME NEW s \in LongMin..LongMax, NEW n \in 0..9
  PROVE  s >= -((-(LongMin + n)) \div 10) <=> s * 10 - n >= LongMin
BY LongRange, ConstAssumption

-----------------------------------------------------------------------------
LEMMA InitInv == Init => IInv
<1> SUFFICES ASSUME Init PROVE IInv
  OBVIOUS
<1>1. str \in Seq(-4..35) /\ Len(str) \in Nat
  BY ConstAssumption DEF Init
<1>2. 0 \in LongMin..LongMax
  BY LongRange, ConstAssumption
<1>3. erange \in BOOLEAN
  BY Zenon DEF Init
<1>4. TypeOK
  BY <1>1, <1>2, <1>3 DEF Init, TypeOK
<1>5. SaturatesExactly
  BY <1>2, LongRange, ConstAssumption DEF Init, SaturatesExactly, Clamp
<1> QED
  BY <1>4, <1>5 DEF Init, IInv, Direction, SignFirst

(* A digit more, without a sign or behind a plus.                          *)
LEMMA DigitPositive ==
  ASSUME IInv, Digit, sign = 1
  PROVE  /\ sum' \in LongMin..LongMax
         /\ SaturatesExactly'
         /\ exact' \in Int /\ exact' >= 0
<1> DEFINE n == str[pos]
<1>1. n \in 0..9
  BY DEF Digit, IsNumber, Base
<1>2. /\ sum \in LongMin..LongMax
      /\ exact \in Int /\ exact >= 0
      /\ sum = Clamp(exact)
      /\ erange <=> exact \notin LongMin..LongMax
  BY DEF IInv, TypeOK, Direction, SaturatesExactly
<1>3. exact' = exact * 10 + n
  BY <1>1, <1>2 DEF Digit, Base
<1>4. Fits(n) <=> sum * 10 + n <= LongMax
  BY <1>1, <1>2, FitsPositive DEF Fits, Base
<1>5. CASE exact * 10 + n <= LongMax
  <2>1. sum = exact
    BY <1>1, <1>2, <1>5, LongRange, ConstAssumption DEF Clamp
  <2>2. sum' = exact' /\ erange' = erange
    BY <1>1, <1>2, <1>3, <1>4, <1>5, <2>1 DEF Digit, Base
  <2>3. exact' \in LongMin..LongMax /\ exact \in LongMin..LongMax
    BY <1>1, <1>2, <1>3, <1>5, LongRange, ConstAssumption
  <2> QED
    BY <1>1, <1>2, <1>3, <2>2, <2>3, LongRange, ConstAssumption
       DEF SaturatesExactly, Clamp
<1>6. CASE ~(exact * 10 + n <= LongMax)
  <2>1. ~(sum * 10 + n <= LongMax)
    BY <1>1, <1>2, <1>6, LongRange, ConstAssumption DEF Clamp
  <2>2. sum' = LongMax /\ erange'
    BY <1>4, <2>1 DEF Digit
  <2>3. exact' > LongMax /\ exact' \in Int
    BY <1>1, <1>2, <1>3, <1>6, ConstAssumption
  <2> QED
    BY <1>1, <1>2, <1>3, <2>2, <2>3, LongRange, ConstAssumption
       DEF SaturatesExactly, Clamp
<1> QED
  BY <1>5, <1>6

(* A digit more, behind a minus.                                           *)
LEMMA DigitNegative ==
  ASSUME IInv, Digit, sign = -1
  PROVE  /\ sum' \in LongMin..LongMax
         /\ SaturatesExactly'
         /\ exact' \in Int /\ exact' <= 0
<1> DEFINE n == str[pos]
<1>1. n \in 0..9
  BY DEF Digit, IsNumber, Base
<1>2. /\ sum \in LongMin..LongMax
      /\ exact \in Int /\ exact <= 0
      /\ sum = Clamp(exact)
      /\ erange <=> exact \notin LongMin..LongMax
  BY DEF IInv, TypeOK, Direction, SaturatesExactly
<1>3. exact' = exact * 10 - n
  BY <1>1, <1>2 DEF Digit, Base
<1>4. Fits(n) <=> sum * 10 - n >= LongMin
  BY <1>1, <1>2, FitsNegative DEF Fits, Base
<1>5. CASE exact * 10 - n >= LongMin
  <2>1. sum = exact
    BY <1>1, <1>2, <1>5, LongRange, ConstAssumption DEF Clamp
  <2>2. sum' = exact' /\ erange' = erange
    BY <1>1, <1>2, <1>3, <1>4, <1>5, <2>1 DEF Digit, Base
  <2>3. exact' \in LongMin..LongMax /\ exact \in LongMin..LongMax
    BY <1>1, <1>2, <1>3, <1>5, LongRange, ConstAssumption
  <2> QED
    BY <1>1, <1>2, <1>3, <2>2, <2>3, LongRange, ConstAssumption
       DEF SaturatesExactly, Clamp
<1>6. CASE ~(exact * 10 - n >= LongMin)
  <2>1. ~(sum * 10 - n >= LongMin)
    BY <1>1, <1>2, <1>6, LongRange, ConstAssumption DEF Clamp
  <2>2. sum' = LongMin /\ erange'
    BY <1>4, <2>1 DEF Digit
  <2>3. exact' < LongMin /\ exact' \in Int
    BY <1>1, <1>2, <1>3, <1>6, LongRange
  <2> QED
    BY <1>1, <1>2, <1>3, <2>2, <2>3, LongRange, ConstAssumption
       DEF SaturatesExactly, Clamp
<1> QED
  BY <1>5, <1>6

-----------------------------------------------------------------------------
LEMMA NextInv == IInv /\ [Next]_vars => IInv'
<1> SUFFICES ASSUME IInv, [Next]_vars PROVE IInv'
  OBVIOUS
<1> USE DEF IInv
<1>1. CASE Start
  BY <1>1 DEF Start, TypeOK, SaturatesExactly, Clamp, Direction, SignFirst
<1>2. CASE SkipSpace
  BY <1>2 DEF SkipSpace, IsAt, AtEnd, TypeOK, SaturatesExactly, Clamp, Direction, SignFirst
<1>3. CASE Signs
  <2>1. /\ pos' \in 1..(Len(str) + 1)
        /\ sign' \in {1, -1}
        /\ exact' = 0
    BY <1>3 DEF Signs, IsAt, AtEnd, TypeOK, SignFirst
  <2>2. UNCHANGED <<str, sum, erange, end, exact>> /\ pc' = "digits"
    BY <1>3 DEF Signs
  <2>3. SaturatesExactly'
    BY <2>2 DEF SaturatesExactly, Clamp
  <2>4. Direction'
    BY <2>1 DEF Direction
  <2>5. SignFirst'
    BY <2>2 DEF SignFirst
  <2>6. TypeOK'
    BY <2>1, <2>2 DEF TypeOK
  <2> QED
    BY <2>3, <2>4, <2>5, <2>6
<1>4. CASE Digit
  <2>1. /\ pos' = pos + 1 /\ pos <= Len(str)
        /\ UNCHANGED <<str, sign, end, pc>>
        /\ pc = "digits"
    BY <1>4 DEF Digit, IsNumber, AtEnd, TypeOK
  <2>2. erange' \in BOOLEAN
    BY <1>4, Zenon DEF Digit, TypeOK
  <2>3. /\ sum' \in LongMin..LongMax
        /\ SaturatesExactly'
        /\ exact' \in Int
        /\ Direction'
    BY <1>4, <2>1, DigitPositive, DigitNegative DEF TypeOK, Direction
  <2>4. TypeOK'
    BY <2>1, <2>2, <2>3 DEF TypeOK
  <2> QED
    BY <2>1, <2>3, <2>4 DEF SignFirst
<1>5. CASE Stop
  <2>1. /\ pos' \in 1..(Len(str) + 1) /\ end' = pos'
        /\ UNCHANGED <<str, sign, sum, erange, exact>>
        /\ pc' = "done"
    BY <1>5 DEF Stop, TypeOK
  <2> QED
    BY <2>1 DEF TypeOK, SaturatesExactly, Clamp, Direction, SignFirst
<1>6. CASE UNCHANGED vars
  BY <1>6 DEF vars, TypeOK, SaturatesExactly, Clamp, Direction, SignFirst
<1> QED
  BY <1>1, <1>2, <1>3, <1>4, <1>5, <1>6 DEF Next

LEMMA Invariance == Spec => []IInv
<1> QED
  BY InitInv, NextInv, PTL DEF Spec

(* No step of strtol leaves the range of a long, of any width.             *)
THEOREM TypeCorrect == Spec => []TypeOK
<1>1. IInv => TypeOK
  BY DEF IInv
<1> QED
  BY <1>1, Invariance, PTL

(* The result of strtol is the number read, or the nearest bound.          *)
THEOREM SaturationHolds == Spec => []SaturatesExactly
<1>1. IInv => SaturatesExactly
  BY DEF IInv
<1> QED
  BY <1>1, Invariance, PTL
-----------------------------------------------------------------------------
(* Where the number is.                                                    *)

(* q is the first character that is no space, and b is behind the signs    *)
(* that stand there: one each, the minus first.                            *)
Begins(q, b) ==
  LET minus == IF IsAt(q, Minus) THEN 1 ELSE 0
      plus == IF IsAt(q + minus, Plus) THEN 1 ELSE 0
  IN /\ q \in 1..(Len(str) + 1)
     /\ \A i \in 1..(q - 1) : str[i] = Space
     /\ ~IsAt(q, Space)
     /\ b = q + minus + plus

(* The spaces behind pos, then the digits from b to pos.                   *)
Scanned ==
  /\ pc = "start" => pos = 1
  /\ pc = "space" => \A i \in 1..(pos - 1) : str[i] = Space
  /\ pc = "digits" =>
       \E q, b \in 1..(Len(str) + 1) :
         /\ Begins(q, b)
         /\ b <= pos
         /\ \A i \in b..(pos - 1) : IsNumber(i)
  /\ EndIsBehindNumber

LEMMA BeginsFacts ==
  ASSUME TypeOK, NEW q \in 1..(Len(str) + 1), NEW b, Begins(q, b)
  PROVE  /\ b \in q..(q + 2) /\ b \in 1..(Len(str) + 1)
         /\ \A i \in 1..(b - 1) : str[i] < 0 /\ ~IsNumber(i)
         /\ b = q \/ (b = q + 1 /\ str[q] \in {Minus, Plus})
              \/ (b = q + 2 /\ str[q] = Minus /\ str[q + 1] = Plus)
<1>1. Len(str) \in Nat
  BY DEF TypeOK
<1>2. \/ b = q
      \/ b = q + 1 /\ q <= Len(str) /\ str[q] \in {Minus, Plus}
      \/ b = q + 2 /\ q + 1 <= Len(str) /\ str[q] = Minus /\ str[q + 1] = Plus
  BY <1>1 DEF Begins, IsAt, AtEnd
<1>3. \A i \in 1..(q - 1) : str[i] = Space
  BY DEF Begins
<1>4. \A i \in 1..(b - 1) : str[i] \in {Space, Minus, Plus}
  BY <1>2, <1>3
<1>5. \A i \in 1..(b - 1) : str[i] < 0 /\ ~IsNumber(i)
  BY <1>4 DEF IsNumber, Space, Minus, Plus, Base
<1> QED
  BY <1>1, <1>2, <1>5

(* A number can only begin at b.                                           *)
LEMMA NumberOnlyAt ==
  ASSUME TypeOK, NEW q \in 1..(Len(str) + 1), NEW b, Begins(q, b),
         NEW p \in 1..Len(str), NumberAt(p)
  PROVE  p = b
<1>1. PICK r \in 1..p : /\ \A i \in 1..(r - 1) : str[i] = Space
                        /\ \/ r = p
                           \/ r = p - 1 /\ str[r] \in {Minus, Plus}
                           \/ r = p - 2 /\ str[r] = Minus /\ str[r + 1] = Plus
  BY DEF NumberAt
<1>2. str[p] \in 0..9
  BY DEF NumberAt, IsNumber, Base
<1>3. str[r] # Space
  BY <1>1, <1>2 DEF Space, Minus, Plus
<1>4. r = q
  BY <1>1, <1>3 DEF TypeOK, Begins, IsAt, AtEnd
<1>5. str[p] # Minus /\ str[p] # Plus
  BY <1>2 DEF Minus, Plus
<1>6. CASE r = p
  BY <1>2, <1>4, <1>5, <1>6 DEF TypeOK, Begins, IsAt, AtEnd
<1>7. CASE r = p - 1 /\ str[r] \in {Minus, Plus}
  BY <1>2, <1>4, <1>5, <1>7 DEF TypeOK, Begins, IsAt, AtEnd, Minus, Plus
<1>8. CASE r = p - 2 /\ str[r] = Minus /\ str[r + 1] = Plus
  BY <1>4, <1>8 DEF TypeOK, Begins, IsAt, AtEnd, Minus, Plus
<1> QED
  BY <1>1, <1>6, <1>7, <1>8

LEMMA StopIsBehindNumber ==
  ASSUME TypeOK, Scanned, Stop
  PROVE  EndIsBehindNumber'
<1>1. PICK q, b \in 1..(Len(str) + 1) : /\ Begins(q, b)
                                         /\ b <= pos
                                         /\ \A i \in b..(pos - 1) : IsNumber(i)
  BY DEF Stop, Scanned
<1>2. /\ ~IsNumber(pos) /\ str' = str /\ pos \in 1..(Len(str) + 1) /\ Len(str) \in Nat
      /\ end' = IF pos > 1 /\ str[pos - 1] >= 0 THEN pos ELSE 1
  BY DEF Stop, TypeOK
<1>3. \A i \in 1..(b - 1) : str[i] < 0
  BY <1>1, BeginsFacts
<1>4. CASE pos > 1 /\ str[pos - 1] >= 0
  <2>1. end' = pos /\ b < pos /\ b \in 1..Len(str) /\ IsNumber(b)
    <3>1. ~(pos - 1 \in 1..(b - 1))
      <4>1. pos - 1 \in 1..Len(str) => str[pos - 1] \in Int
        <5>1. \A i \in 1..Len(str) : str[i] \in -4..35
          BY ElementOfSeq DEF TypeOK
        <5>2. \A c \in -4..35 : c \in Int
          OBVIOUS
        <5> QED
          BY <5>1, <5>2
      <4>2. pos - 1 \in 1..Len(str)
        BY <1>2, <1>4
      <4> QED
        BY <1>3, <1>4, <4>1, <4>2
    <3>2. b < pos
      BY <1>1, <1>2, <1>4, <3>1
    <3> QED
      BY <1>1, <1>2, <1>4, <3>2
  <2>2. NumberAt(b)
    <3>1. /\ q \in 1..b /\ \A i \in 1..(q - 1) : str[i] = Space
          /\ \/ q = b
             \/ q = b - 1 /\ str[q] \in {Minus, Plus}
             \/ q = b - 2 /\ str[q] = Minus /\ str[q + 1] = Plus
      BY <1>1, BeginsFacts DEF Begins
    <3> QED
      BY <2>1, <3>1 DEF NumberAt
  <2> QED
    BY <1>1, <1>2, <2>1, <2>2 DEF EndIsBehindNumber, NumberAt, IsNumber, AtEnd
<1>5. CASE ~(pos > 1 /\ str[pos - 1] >= 0)
  <2>1. pos = b
    <3>1. ASSUME b < pos
          PROVE  FALSE
      <4>1. pos - 1 \in b..(pos - 1) /\ pos > 1
        BY <1>1, <1>2, <3>1
      <4> QED
        BY <1>1, <1>5, <4>1 DEF IsNumber, Base
    <3> QED
      BY <1>1, <1>2, <3>1
  <2>2. \A p \in 1..Len(str) : ~NumberAt(p)
    BY <1>1, <1>2, <2>1, NumberOnlyAt DEF NumberAt
  <2> QED
    BY <1>2, <1>5, <2>2 DEF EndIsBehindNumber, NumberAt, IsNumber, AtEnd
<1> QED
  BY <1>4, <1>5

LEMMA ScannedStep ==
  ASSUME IInv, Scanned, [Next]_vars
  PROVE  Scanned'
<1>1. TypeOK
  BY DEF IInv
<1>2. CASE Start
  BY <1>1, <1>2 DEF Start, Scanned, EndIsBehindNumber, TypeOK
<1>3. CASE SkipSpace
  <2>1. /\ str' = str /\ pc = "space" /\ pc' = "space" /\ pos' = pos + 1
        /\ str[pos] = Space /\ pos \in 1..(Len(str) + 1)
    BY <1>1, <1>3 DEF SkipSpace, IsAt, TypeOK
  <2>2. \A i \in 1..(pos' - 1) : str'[i] = Space
    BY <2>1 DEF Scanned
  <2> QED
    BY <2>1, <2>2 DEF Scanned, EndIsBehindNumber
<1>4. CASE Signs
  <2>1. /\ str' = str /\ pc = "space" /\ pc' = "digits" /\ pos \in 1..(Len(str) + 1)
    BY <1>1, <1>4 DEF Signs, TypeOK
  <2>2. PICK q, b : q = pos /\ b = pos'
    OBVIOUS
  <2>3. Begins(q, b) /\ q \in 1..(Len(str) + 1)
    BY <1>4, <2>1, <2>2 DEF Signs, Scanned, Begins
  <2>4. b \in 1..(Len(str) + 1) /\ \A i \in b..(pos' - 1) : IsNumber(i)
    BY <1>1, <2>2, <2>3, BeginsFacts
  <2>5. \E first, last \in 1..(Len(str') + 1) :
          /\ Begins(first, last)'
          /\ last <= pos'
          /\ \A i \in last..(pos' - 1) : IsNumber(i)'
    BY <2>1, <2>2, <2>3, <2>4 DEF Begins, IsAt, AtEnd, IsNumber
  <2> QED
    BY <2>1, <2>5 DEF Scanned, EndIsBehindNumber
<1>5. CASE Digit
  <2>1. /\ str' = str /\ pc = "digits" /\ pc' = "digits" /\ pos' = pos + 1
        /\ IsNumber(pos) /\ pos \in 1..(Len(str) + 1)
    BY <1>1, <1>5 DEF Digit, TypeOK
  <2> QED
    BY <2>1 DEF Scanned, EndIsBehindNumber, Begins, IsAt, AtEnd, IsNumber
<1>6. CASE Stop
  <2>1. pc' = "done"
    BY <1>6 DEF Stop
  <2> QED
    BY <1>1, <1>6, <2>1, StopIsBehindNumber DEF Scanned
<1>7. CASE UNCHANGED vars
  BY <1>7 DEF vars, Scanned, EndIsBehindNumber, NumberAt, Begins, IsAt, AtEnd, IsNumber
<1> QED
  BY <1>2, <1>3, <1>4, <1>5, <1>6, <1>7 DEF Next

(* The *endPtr of strtol is the end of the number, or the start.           *)
THEOREM EndHolds == Spec => []EndIsBehindNumber
<1>1. Init => Scanned
  BY DEF Init, Scanned, EndIsBehindNumber
<1>2. IInv /\ Scanned /\ [Next]_vars => Scanned'
  BY ScannedStep
<1>3. Scanned => EndIsBehindNumber
  BY DEF Scanned
<1> QED
  BY <1>1, <1>2, <1>3, Invariance, PTL DEF Spec
=============================================================================
