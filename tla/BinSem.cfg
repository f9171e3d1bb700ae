CONSTANTS
  t1 = t1
  t2 = t2
  t3 = t3
  t4 = t4
  NoOwner = NoOwner
  Threads <- FourThreads
  IntMin <- SmallIntMin
SPECIFICATION FairSpec
INVARIANTS
  TypeOK
  MutualExclusion
  CountExact
  NoLostWakeup
  NoSignalAbsorbed
PROPERTIES
  WaitersServed
  ImplementsMutex
