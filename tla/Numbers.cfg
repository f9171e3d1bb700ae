CONSTANTS
  Strings <- ShortStrings
  LongMax = 127
  Calls <- AllCalls
  NtoaBufferSize = 6
  Wrap <- Widths
  Memory = 8
SPECIFICATION NumbersSpec
INVARIANTS
  TypeOK
  SaturatesExactly
  EndIsBehindNumber
  PrintfTypeOK
  WritesWithinCount
  FormatsAsC
  RoundTrip
\* the conversion ends
CHECK_DEADLOCK FALSE
