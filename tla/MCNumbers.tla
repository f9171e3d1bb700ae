----------------------------- MODULE MCNumbers -----------------------------
(* TLC instances of Numbers.                                               *)
EXTENDS Numbers, SequencesExt

(* Space, signs, the letter A, and digits around both bounds of a long of  *)
(* 8 bits, -128 and 127; five characters are a sign, three digits that may *)
(* reach a bound and one that follows.                                     *)
Alphabet == {Space, Minus, Plus, 10, 1, 2, 7, 8, 9}
ShortStrings == SeqOf(Alphabet, 5)

(* int has as many bits as printf's buffer has characters, as in the code  *)
(* (32); a long has more.                                                  *)
Widths == [hh |-> 2^3, h |-> 2^4, int |-> 2^6, l |-> 2^8]

(* As in Printf.                                                           *)
Integer == {"d", "u", "x", "o", "b"}
NoPrec == -1
NegPrec == -2
NUL == -4

Directive(convs, lengths, flagSets, widths, precs, args) ==
  [conv : convs, length : lengths, flags : flagSets, width : widths, prec : precs, arg : args]

AllFlags == SUBSET {"zeropad", "left", "plus", "space", "hash"}
Console == [sink |-> "console", maxlen |-> 1000]
On(sink, formats) == {[format |-> f, sink |-> sink.sink, maxlen |-> sink.maxlen] : f \in formats}

(* Every combination of flags, with fields narrower and wider than the     *)
(* number, of a size of its own and beyond the buffer.                     *)
FlagCalls ==
  On(Console, {<<e>> : e \in Directive(Integer, {"int"}, AllFlags, {0, 2, 3, 5, -4, 8},
                                       {NoPrec, NegPrec, 0, 1, 3}, {0, 1, 8, 25, -32, -1})})

(* Every length, with arguments at its bounds and beyond; a long has more  *)
(* binary digits than fit the buffer.                                      *)
LengthCalls ==
  On(Console, {<<e>> : e \in Directive(Integer, DOMAIN Widths, {{}}, {0, 5},
                                       {NoPrec}, {0, 3, 4, 7, 8, 127, 128, 255, -1, -5})})

(* Text, characters and strings.                                           *)
TextCalls ==
  LET flagSets == {{}, {"left"}}
      pieces == Directive({"s"}, {"int"}, flagSets, {0, 3, -4}, {NoPrec, NegPrec, 0, 1, 3},
                          {<<>>, <<10>>, <<10, 11, 12>>})
                  \cup Directive({"c"}, {"int"}, flagSets, {0, 3, -2}, {NoPrec}, {13, NUL})
                  \cup Directive({"text"}, {"int"}, {{}}, {0}, {NoPrec}, {14})
                  \cup Directive({"d"}, {"int"}, {{}, {"zeropad"}}, {3}, {NoPrec}, {-7})
      short == {e \in pieces : e.flags \subseteq {"zeropad"} /\ e.prec \in {NoPrec, 1}}
      formats == {<<>>} \cup {<<e>> : e \in pieces} \cup (short \X short)
      sinks == {Console, [sink |-> "null", maxlen |-> 4]}
                 \cup {[sink |-> "buffer", maxlen |-> n] : n \in {0, 1, 2, 3, 4, 1000}}
  IN UNION {On(sink, formats) : sink \in sinks}

AllCalls == FlagCalls \cup LengthCalls \cup TextCalls
=============================================================================
