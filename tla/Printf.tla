------------------------------- MODULE Printf -------------------------------
(***************************************************************************)
(* _vsnprintf of printf.c: one call of printf, sprintf or snprintf, for    *)
(* text, characters, strings and integers.  One step is one iteration of   *)
(* the loop over the format; for an integer, one step per digit, one for   *)
(* _ntoa_format and one for _out_rev.  Floating point is left out: nothing *)
(* here prints it.                                                         *)
(*                                                                         *)
(* A character is a number: a digit or a letter is its value as a digit,   *)
(* so that the case of letters is not told apart, and the others are below *)
(* 0.  A format is a sequence of directives, parsed and with its argument: *)
(*   [conv, length, flags, width, prec, arg]                               *)
(* width < 0 is a negative `*`; prec is NoPrec where the format has none,  *)
(* and NegPrec for a negative `.*`; arg is the argument's register, or the *)
(* string.                                                                 *)
(***************************************************************************)
EXTENDS Integers, Sequences

CONSTANTS
  Calls,            \* the calls: records [format, sink, maxlen]
  NtoaBufferSize,   \* PRINTF_NTOA_BUFFER_SIZE
  Wrap,             \* Wrap[length]: 2^w for an integer of that length
  Memory            \* bytes from the start of the buffer that are observed

Space == -1
Minus == -2
Plus == -3
NUL == -4
Untouched == -5
NoPrec == -1
NegPrec == -2

Integer == {"d", "u", "x", "o", "b"}

Directives(convs, args) ==
  [conv : convs, length : DOMAIN Wrap, flags : SUBSET {"zeropad", "left", "plus", "space", "hash"},
   width : Int, prec : Nat \cup {NoPrec, NegPrec}, arg : args]
Directive ==
  Directives({"text"}, -3..35) \cup Directives({"c"}, -4..35)
    \cup Directives({"s"}, Seq(-3..35)) \cup Directives(Integer, Int)

Constants ==
  /\ NtoaBufferSize \in Nat \ {0}
  /\ \A l \in DOMAIN Wrap : Wrap[l] \in Nat /\ Wrap[l] > 1
  /\ Memory \in Nat
  /\ Calls \subseteq [format : Seq(Directive), sink : {"buffer", "console", "null"}, maxlen : Nat]

VARIABLES
  call,       \* the call
  fmt,        \* format: the directives not yet done
  idx,        \* idx
  memory,     \* the caller's buffer, and what lies behind it
  console,    \* what was given to _putchar
  flags,      \* flags, once they are evaluated
  value,      \* the number converted: its rest ...
  negative,   \* ... its sign ...
  buf,        \* ... and its characters in reverse; its length is len
  ppc         \* "format", "digits", "number", "out", "done"

number == <<flags, value, negative, buf>>
vars == <<call, fmt, idx, memory, console, number, ppc>>

Init ==
  /\ call \in Calls
  /\ fmt = call.format
  /\ idx = 0
  /\ memory = [i \in 0..(Memory - 1) |-> Untouched]
  /\ console = <<>>
  /\ flags = {}
  /\ value = 0
  /\ negative = FALSE
  /\ buf = <<>>
  /\ ppc = "format"

-----------------------------------------------------------------------------
(* Output: _out_buffer, _out_char, _out_null.                              *)

Store_OneMore(text, at) ==   \* faulty variant: `idx <= maxlen`
  memory' = [i \in DOMAIN memory |->
    IF i <= call.maxlen /\ i - at \in 0..(Len(text) - 1)
      THEN text[i - at + 1] ELSE memory[i]]

Store(text, at) ==
  memory' = [i \in DOMAIN memory |->
    IF i < call.maxlen /\ i - at \in 0..(Len(text) - 1)
      THEN text[i - at + 1] ELSE memory[i]]

(* _out_char: a NUL is not put on the console.                             *)
Visible(text) ==
  LET visible[n \in Nat] ==
        IF n = 0 THEN <<>>
        ELSE IF text[n] = NUL THEN visible[n - 1]
        ELSE Append(visible[n - 1], text[n])
  IN visible[Len(text)]

OutAt(text, at) ==
  CASE call.sink = "buffer" -> Store(text, at) /\ UNCHANGED console
    [] call.sink = "console" ->
         console' = console \o Visible(text) /\ UNCHANGED memory
    [] call.sink = "null" -> UNCHANGED <<memory, console>>

Out(text) == OutAt(text, idx) /\ idx' = idx + Len(text)

Repeat(c, n) == [i \in 1..n |-> c]
PadTo(s, n, c) == s \o Repeat(c, n - Len(s))
Reversed(s) == [i \in 1..Len(s) |-> s[Len(s) + 1 - i]]

-----------------------------------------------------------------------------
(* One directive.                                                          *)

d == Head(fmt)
IsNext(convs) == ppc = "format" /\ fmt # <<>> /\ d.conv \in convs

Left(e) == e.width < 0 \/ "left" \in e.flags
Width(e) == IF e.width < 0 THEN -e.width ELSE e.width

(* precision: 0 where there is none (FLAGS_PRECISION is not set) and for a *)
(* negative `.*` (it is).                                                  *)
Precision(e) == IF e.prec > 0 THEN e.prec ELSE 0

(* Text, and %% where the character is its percent sign.                   *)
OutText ==
  /\ IsNext({"text"})
  /\ Out(<<d.arg>>)
  /\ fmt' = Tail(fmt)
  /\ UNCHANGED <<call, number, ppc>>

(* In a field of the directive's width.                                    *)
Field(text, e) ==
  LET pad == Repeat(Space, Width(e) - Len(text))
  IN IF Left(e) THEN text \o pad ELSE pad \o text

OutCharOrString ==
  /\ IsNext({"c", "s"})
  /\ LET text == IF d.conv = "c" THEN <<d.arg>>
                 ELSE IF d.prec # NoPrec /\ Precision(d) < Len(d.arg)
                        THEN SubSeq(d.arg, 1, Precision(d))
                 ELSE d.arg
     IN Out(Field(text, d))
  /\ fmt' = Tail(fmt)
  /\ UNCHANGED <<call, number, ppc>>

-----------------------------------------------------------------------------
(* Integers.                                                               *)

Base(e) == CASE e.conv = "x" -> 16 [] e.conv = "o" -> 8 [] e.conv = "b" -> 2 [] OTHER -> 10

(* The argument as the type the length names, in two's complement.         *)
Unsigned(e) == e.arg % Wrap[e.length]
Signed(e) ==
  IF 2 * Unsigned(e) >= Wrap[e.length] THEN Unsigned(e) - Wrap[e.length] ELSE Unsigned(e)
Argument(e) == IF e.conv = "d" THEN Signed(e) ELSE Unsigned(e)

(* The flags that remain for this specifier, precision and value.          *)
Ignored ==
  (IF d.conv \in {"d", "u"} \/ Argument(d) = 0 THEN {"hash"} ELSE {})
    \cup (IF d.conv # "d" THEN {"plus", "space"} ELSE {})
    \cup (IF d.prec # NoPrec THEN {"zeropad"} ELSE {})

(* 0 - value of the smallest number, undefined in C, wraps to itself, and  *)
(* is its magnitude as an unsigned number.                                 *)
StartNumber ==
  /\ IsNext(Integer)
  /\ flags' = (d.flags \cup (IF Left(d) THEN {"left"} ELSE {})) \ Ignored
  /\ value' = IF Argument(d) < 0 THEN -Argument(d) ELSE Argument(d)
  /\ negative' = (Argument(d) < 0)
  /\ buf' = <<>>
  /\ ppc' = IF d.prec # NoPrec /\ Argument(d) = 0 THEN "number" ELSE "digits"
  /\ UNCHANGED <<call, fmt, idx, memory, console>>

NextDigit_Unbounded ==   \* faulty variant: the end of buf is not tested
  /\ ppc = "digits"
  /\ buf' = Append(buf, value % Base(d))
  /\ value' = value \div Base(d)
  /\ ppc' = IF value' # 0 THEN "digits" ELSE "number"
  /\ UNCHANGED <<call, fmt, idx, memory, console, flags, negative>>

(* The loop of _ntoa_long and of _ntoa_long_long.                          *)
NextDigit ==
  /\ ppc = "digits"
  /\ buf' = Append(buf, value % Base(d))
  /\ value' = value \div Base(d)
  /\ ppc' = IF value' # 0 /\ Len(buf') < NtoaBufferSize THEN "digits" ELSE "number"
  /\ UNCHANGED <<call, fmt, idx, memory, console, flags, negative>>

Bound(n) == IF n < NtoaBufferSize THEN n ELSE NtoaBufferSize
AppendFitting(s, t) == SubSeq(s \o t, 1, Bound(Len(s) + Len(t)))

(* The sign takes a place of the width that zeros fill.                    *)
ZeroWidth ==
  IF negative \/ flags \cap {"plus", "space"} # {} THEN Width(d) - 1 ELSE Width(d)

WithZeros_WidthKept(s) ==   \* faulty variant: the sign comes on top of the width
  IF "left" \in flags THEN s
  ELSE PadTo(PadTo(s, Bound(Precision(d)), 0),
             IF "zeropad" \in flags THEN Bound(Width(d)) ELSE 0, 0)

WithZeros(s) ==
  IF "left" \in flags THEN s
  ELSE PadTo(PadTo(s, Bound(Precision(d)), 0),
             IF "zeropad" \in flags THEN Bound(ZeroWidth) ELSE 0, 0)

(* `#`: where the number is as long as the width, its last characters are  *)
(* taken for zeros and make room for the prefix.                           *)
WithPrefix(s) ==
  LET letter == CASE Base(d) = 16 -> <<33>> [] Base(d) = 2 -> <<11>> [] OTHER -> <<>>
      cut == IF d.prec = NoPrec /\ Len(s) = Width(d)
               THEN SubSeq(s, 1, Len(s) - (IF Base(d) = 16 THEN 2 ELSE 1))
               ELSE s
  IN IF "hash" \in flags THEN AppendFitting(cut, letter \o <<0>>) ELSE s

SignText_PlusFirst ==   \* faulty variant: the flag is looked at before the sign
  CASE "plus" \in flags -> <<Plus>>
    [] "plus" \notin flags /\ negative -> <<Minus>>
    [] OTHER -> <<>>

SignText ==
  CASE negative -> <<Minus>>
    [] ~negative /\ "plus" \in flags -> <<Plus>>
    [] ~negative /\ "plus" \notin flags /\ "space" \in flags -> <<Space>>
    [] OTHER -> <<>>

(* _ntoa_format.                                                           *)
FormatNumber ==
  /\ ppc = "number"
  /\ buf' = AppendFitting(WithPrefix(WithZeros(buf)), SignText)
  /\ ppc' = "out"
  /\ UNCHANGED <<call, fmt, idx, memory, console, flags, value, negative>>

(* _out_rev.                                                               *)
OutNumber ==
  /\ ppc = "out"
  /\ Out(IF "zeropad" \in flags /\ "left" \notin flags
           THEN Reversed(buf) ELSE Field(Reversed(buf), d))
  /\ fmt' = Tail(fmt)
  /\ ppc' = "format"
  /\ UNCHANGED <<call, number>>

-----------------------------------------------------------------------------
(* The terminator; the call returns idx.  For maxlen = 0, maxlen - 1 wraps *)
(* to an index that is not below maxlen either.                            *)
Terminate ==
  /\ ppc = "format" /\ fmt = <<>>
  /\ OutAt(<<NUL>>, IF idx < call.maxlen THEN idx ELSE call.maxlen - 1)
  /\ ppc' = "done"
  /\ UNCHANGED <<call, fmt, idx, number>>

Next ==
  \/ OutText \/ OutCharOrString
  \/ StartNumber \/ NextDigit \/ FormatNumber \/ OutNumber
  \/ Terminate

Spec == Init /\ [][Next]_vars

-----------------------------------------------------------------------------
(* The bound on buf is the size of the array on the stack.                 *)
TypeOK ==
  /\ idx \in Nat
  /\ memory \in [0..(Memory - 1) -> -5..35]
  /\ console \in Seq(-3..35)
  /\ value \in Nat
  /\ negative \in BOOLEAN
  /\ buf \in Seq(-4..35) /\ Len(buf) <= NtoaBufferSize
  /\ ppc \in {"format", "digits", "number", "out", "done"}

(* What ISO C, 7.21.6.1, prints for a directive (%b as in C23): what flags,*)
(* width and precision mean, and nothing of how it is computed.            *)

Power(base, n) ==
  LET power[k \in Nat] == IF k = 0 THEN 1 ELSE base * power[k - 1]
  IN power[n]

DigitCount(n, base) ==
  CHOOSE k \in 1..(n + 1) : Power(base, k) > n /\ (k > 1 => Power(base, k - 1) <= n)
Digits(n, base) ==
  LET k == DigitCount(n, base)
  IN [i \in 1..k |-> (n \div Power(base, k - i)) % base]

Magnitude(e) == IF Argument(e) < 0 THEN -Argument(e) ELSE Argument(e)
Significant(e) ==
  IF e.prec = 0 /\ Argument(e) = 0 THEN <<>> ELSE Digits(Magnitude(e), Base(e))

(* At least as many digits as the precision; an alternative octal begins   *)
(* with a zero.                                                            *)
CDigits(e) ==
  LET s == Repeat(0, e.prec - Len(Significant(e))) \o Significant(e)
  IN IF e.conv = "o" /\ "hash" \in e.flags /\ (s = <<>> \/ Head(s) # 0) THEN <<0>> \o s ELSE s

CPrefix(e) ==
  CASE Argument(e) < 0 -> <<Minus>>
    [] Argument(e) >= 0 /\ e.conv = "d" /\ "plus" \in e.flags -> <<Plus>>
    [] Argument(e) >= 0 /\ e.conv = "d" /\ "space" \in e.flags
         /\ "plus" \notin e.flags -> <<Space>>
    [] Argument(e) # 0 /\ e.conv = "x" /\ "hash" \in e.flags -> <<0, 33>>
    [] Argument(e) # 0 /\ e.conv = "b" /\ "hash" \in e.flags -> <<0, 11>>
    [] OTHER -> <<>>

(* A precision and a `-` turn the flag 0 off.  A negative precision is     *)
(* taken as if it were omitted, here and in strings.                       *)
CNumber(e) ==
  LET zeros == IF "zeropad" \in e.flags /\ ~Left(e) /\ e.prec < 0
                 THEN Width(e) - Len(CPrefix(e)) - Len(CDigits(e)) ELSE 0
  IN CPrefix(e) \o Repeat(0, zeros) \o CDigits(e)

(* At most as many characters as the precision.                            *)
CShown(e) ==
  LET n == IF e.prec < 0 \/ e.prec > Len(e.arg) THEN Len(e.arg) ELSE e.prec
  IN [i \in 1..n |-> e.arg[i]]

CText(e) ==
  CASE e.conv = "text" -> <<e.arg>>
    [] e.conv = "c" -> Field(<<e.arg>>, e)
    [] e.conv = "s" -> Field(CShown(e), e)
    [] e.conv \in Integer -> Field(CNumber(e), e)

(* Where this printf is known to print something else:                     *)
(*  - a number longer than its buffer is cut;                              *)
(*  - `-` leaves out the zeros a precision asks for, of which the digit of *)
(*    a zero is one;                                                       *)
(*  - `#` takes digits for padding zeros when the number is as wide as the *)
(*    field (or, for x, when one place is left for the two of the prefix), *)
(*    and makes a zero-padded %b one place too wide;                       *)
(*  - `#` adds a zero to an octal that has one, and none to an empty one;  *)
(*  - a negative `.*` is the precision 0: nothing of a string and of a zero*)
(*    is printed, and the flag 0 is off.                                   *)
Deviates(e) ==
  LET k == Len(Significant(e))
      hash == "hash" \in e.flags /\ Argument(e) # 0
      zeropad == "zeropad" \in e.flags /\ ~Left(e)
  IN \/ e.conv = "s" /\ e.prec = NegPrec /\ e.arg # <<>>
     \/ /\ e.conv \in Integer
        /\ e.prec = NegPrec
        /\ Argument(e) = 0 \/ (zeropad /\ Width(e) > Len(CPrefix(e)) + Len(CDigits(e)))
     \/ /\ e.conv \in Integer
        /\ \/ Len(CNumber(e)) > NtoaBufferSize
           \/ Left(e) /\ (e.prec > k \/ (e.prec = 1 /\ Argument(e) = 0))
           \/ /\ hash /\ e.prec = NoPrec /\ e.conv \in {"x", "o", "b"}
              /\ \/ k = Width(e)
                 \/ e.conv = "x" /\ zeropad /\ k + 1 = Width(e)
                 \/ e.conv = "b" /\ zeropad /\ k + 1 < Width(e)
           \/ e.conv = "o" /\ ((hash /\ e.prec > k) \/ ("hash" \in e.flags /\ k = 0))

(* The text of a format: that of its directives, one after the other.      *)
CTextOf(format) ==
  LET text[n \in 0..Len(format)] ==
        IF n = 0 THEN <<>> ELSE text[n - 1] \o CText(format[n])
  IN text[Len(format)]

-----------------------------------------------------------------------------
(* snprintf writes to the first maxlen bytes of the buffer and to no other *)
(* (for maxlen = 0 to none), and what it leaves there is a string: at most *)
(* maxlen - 1 characters and a NUL.                                        *)
WritesWithinCount ==
  /\ \A i \in DOMAIN memory :
       i >= call.maxlen \/ call.sink # "buffer" => memory[i] = Untouched
  /\ ppc = "done" /\ call.sink = "buffer" /\ call.maxlen > 0 =>
       LET end == IF idx < call.maxlen THEN idx ELSE call.maxlen - 1
       IN end \in DOMAIN memory => memory[end] = NUL

(* What is printed is what ISO C says, as far as it fits, and the result   *)
(* is its full length, whatever was cut off ("characters that COULD have   *)
(* been written into the buffer", printf.h:81).  A NUL character counts,   *)
(* and is not put on the console.                                          *)
FormatsAsC ==
  ppc = "done" /\ (\A n \in 1..Len(call.format) : ~Deviates(call.format[n])) =>
    LET text == CTextOf(call.format)
    IN /\ idx = Len(text)
       /\ call.sink = "console" => console = Visible(text)
       /\ call.sink = "buffer" =>
            \A i \in DOMAIN memory : i < Len(text) /\ i < call.maxlen - 1 => memory[i] = text[i + 1]
=============================================================================
