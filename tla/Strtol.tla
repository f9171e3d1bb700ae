------------------------------- MODULE Strtol -------------------------------
(***************************************************************************)
(* strtol of lib/cstring.h for base 10, the base of all its callers (the   *)
(* numbers and badges of shell commands).  One step is one iteration of    *)
(* its loops.                                                              *)
(*                                                                         *)
(* A character is a number: a digit or a letter is its value as a digit,   *)
(* the others are below 0.  Positions count from 1; the string ends behind *)
(* its last character.                                                     *)
(***************************************************************************)
EXTENDS Integers, Sequences

CONSTANTS
  Strings,   \* the strings converted
  LongMax    \* LONG_MAX

ASSUME ConstAssumption ==
  /\ LongMax \in Nat /\ LongMax >= 10
  /\ Strings \subseteq Seq(-4..35)

Base == 10
Space == -1
Minus == -2
Plus == -3

(* Two's complement.                                                       *)
LongMin == -LongMax - 1

VARIABLES
  str,       \* the string
  pos,       \* pos
  sign,      \* sign
  sum,       \* sum
  erange,    \* errno = ERANGE
  end,       \* *endPtr; 0 when it is not written
  exact,     \* history: the number read so far, without the limits of a long
  pc         \* "start", "space", "digits", "done"

vars == <<str, pos, sign, sum, erange, end, exact, pc>>

Init ==
  /\ str \in Strings
  /\ pos = 1
  /\ sign = 1
  /\ sum = 0
  /\ erange = FALSE
  /\ end = 0
  /\ exact = 0
  /\ pc = "start"

AtEnd(p) == p > Len(str)
IsAt(p, c) == ~AtEnd(p) /\ str[p] = c

(* An empty string returns at once, and *endPtr is left alone.             *)
Start ==
  /\ pc = "start"
  /\ pc' = IF str = <<>> THEN "done" ELSE "space"
  /\ UNCHANGED <<str, pos, sign, sum, erange, end, exact>>

SkipSpace ==
  /\ pc = "space"
  /\ IsAt(pos, Space)
  /\ pos' = pos + 1
  /\ UNCHANGED <<str, sign, sum, erange, end, exact, pc>>

(* A minus, then a plus: each may be there or not.                         *)
Signs ==
  LET minus == IF IsAt(pos, Minus) THEN 1 ELSE 0
      plus == IF IsAt(pos + minus, Plus) THEN 1 ELSE 0
  IN /\ pc = "space"
     /\ ~IsAt(pos, Space)
     /\ sign' = IF minus = 1 THEN -1 ELSE 1
     /\ pos' = pos + minus + plus
     /\ pc' = "digits"
     /\ UNCHANGED <<str, sum, erange, end, exact>>

IsNumber(p) == ~AtEnd(p) /\ str[p] \in 0..(Base - 1)

Fits_NoNumber(number) ==   \* faulty variant: the digit is not counted in
  IF sign = -1 THEN sum >= -((-LongMin) \div Base) ELSE sum <= LongMax \div Base

(* sum * 10 -+ number is a long.  Division rounds towards 0.               *)
Fits(number) ==
  IF sign = -1
    THEN sum >= -((-(LongMin + number)) \div Base)
    ELSE sum <= (LongMax - number) \div Base

Digit_Wraps ==   \* faulty variant: what does not fit is 0, and counted on
  /\ pc = "digits"
  /\ IsNumber(pos)
  /\ sum' = IF Fits(str[pos]) THEN sum * Base + sign * str[pos] ELSE 0
  /\ erange' = (erange \/ ~Fits(str[pos]))
  /\ exact' = exact * Base + sign * str[pos]
  /\ pos' = pos + 1
  /\ UNCHANGED <<str, sign, end, pc>>

Digit ==
  LET number == str[pos]
  IN /\ pc = "digits"
     /\ IsNumber(pos)
     /\ IF Fits(number)
          THEN sum' = sum * Base + sign * number /\ UNCHANGED erange
          ELSE sum' = (IF sign = -1 THEN LongMin ELSE LongMax) /\ erange' = TRUE
     /\ exact' = exact * Base + sign * number
     /\ pos' = pos + 1
     /\ UNCHANGED <<str, sign, end, pc>>

Stop_NoRewind ==   \* faulty variant: pos does not go back to start
  /\ pc = "digits"
  /\ ~IsNumber(pos)
  /\ end' = pos
  /\ pc' = "done"
  /\ UNCHANGED <<str, pos, sign, sum, erange, exact>>

(* Back to the start unless the character before pos is part of a number.  *)
(* For pos = 1 that is a byte in front of the string, and either way the   *)
(* result is the start.                                                    *)
Stop ==
  LET inNumber == pos > 1 /\ str[pos - 1] >= 0
  IN /\ pc = "digits"
     /\ ~IsNumber(pos)
     /\ pos' = IF inNumber THEN pos ELSE 1
     /\ end' = pos'
     /\ pc' = "done"
     /\ UNCHANGED <<str, sign, sum, erange, exact>>

Next == Start \/ SkipSpace \/ Signs \/ Digit \/ Stop

Spec == Init /\ [][Next]_vars

-----------------------------------------------------------------------------
(* The bound on sum: no arithmetic of the loop leaves the range of a long, *)
(* which in C++ would be undefined.                                        *)
TypeOK ==
  /\ str \in Seq(-4..35)
  /\ pos \in 1..(Len(str) + 1)
  /\ sign \in {1, -1}
  /\ sum \in LongMin..LongMax
  /\ erange \in BOOLEAN
  /\ end \in 0..(Len(str) + 1)
  /\ exact \in Int
  /\ pc \in {"start", "space", "digits", "done"}

Clamp(n) == IF n > LongMax THEN LongMax ELSE IF n < LongMin THEN LongMin ELSE n

(* The result is the number that was read, or the bound of a long that is  *)
(* nearest to it, and ERANGE tells which, however many digits follow the   *)
(* one that did not fit.                                                   *)
SaturatesExactly ==
  /\ sum = Clamp(exact)
  /\ erange <=> exact \notin LongMin..LongMax

(* Where a number in the string begins: behind the spaces and the signs.   *)
NumberAt(p) ==
  /\ IsNumber(p)
  /\ \E q \in 1..p :
       /\ \A i \in 1..(q - 1) : str[i] = Space
       /\ \/ q = p
          \/ q = p - 1 /\ str[q] \in {Minus, Plus}
          \/ q = p - 2 /\ str[q] = Minus /\ str[q + 1] = Plus

(* *endPtr is the first character behind the number, or the start of the   *)
(* string when there is no number in it; the second number of a command is *)
(* looked for there.                                                       *)
EndIsBehindNumber ==
  pc = "done" /\ str # <<>> =>
    \/ \E p \in 1..Len(str) :
         /\ NumberAt(p)
         /\ p < end
         /\ \A i \in p..(end - 1) : IsNumber(i)
         /\ ~IsNumber(end)
    \/ end = 1 /\ \A p \in 1..Len(str) : ~NumberAt(p)
=============================================================================
