CONSTANTS
  SlotStart = 1
  SlotEnd = 25
  Memory = 22
  PagesPerTable = 12
  ReservedPages = 2
  Creations = 5
SPECIFICATION Spec
INVARIANTS
  TypeOK
  PagesCounted
  ThreadsIndependent
  NoPageLeaked
  MutexHasNotification
  PoolMapped
PROPERTY
  ThreadKeepsPages
\* no more threads are created, or the root server has stopped
CHECK_DEADLOCK FALSE
