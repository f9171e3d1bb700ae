CONSTANTS
  t1 = t1
  t2 = t2
  None = None
  Server = Server
  Threads <- TwoThreads
  Requests <- AllRequests
SPECIFICATION Spec
SYMMETRY Symmetry
INVARIANTS
  TypeOK
  NoOrphanedCall
  PausedIsSuspended
PROPERTIES
  ImplementsService
  SuspendedStaysPut
\* all threads may be suspended, or have returned
CHECK_DEADLOCK FALSE
