CONSTANTS
  t1 = t1
  t2 = t2
  None = None
  Server = Server
  Threads <- TwoThreads
  Requests <- DisturbingRequests
SPECIFICATION FairSpec
PROPERTIES
  EveryCallReturns
  ServerReturns
\* all threads may have returned
CHECK_DEADLOCK FALSE
