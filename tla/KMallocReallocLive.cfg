CONSTANTS
  t1 = t1
  t2 = t2
  NoOwner = NoOwner
  Threads <- TwoThreads
  ChunkMax = 3
  ChunkSize = 2
  Word = 16
  Sizes <- SomeSizes
  ReallocSizes <- SomeSizes
SPECIFICATION FairSpec
PROPERTY
  CallsReturn
\* a thread that reallocates never returns
CHECK_DEADLOCK FALSE
