CONSTANTS
  SlotStart = 1
  SlotEnd = 40
  Memory = 40
  PagesPerTable = 8
  ReservedPages = 2
  Creations = 4
SPECIFICATION Spec
INVARIANT
  StopsOnlyWhenExhausted
CHECK_DEADLOCK FALSE
