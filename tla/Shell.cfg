CONSTANTS
  a = a
  b = b
  NUL = NUL
  None = None
  Chars <- TwoChars
  BufferSize = 4
  Reservation = 3
  Blocks = 7
  Numbers = {0, 1}
SPECIFICATION Spec
SYMMETRY Symmetry
INVARIANTS
  TypeOK
  LineIsTyped
  HistoryExact
  BlocksOwned
\* the shell hangs when its history has to grow, and stops at a fault
CHECK_DEADLOCK FALSE
