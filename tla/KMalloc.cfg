CONSTANTS
  t1 = t1
  t2 = t2
  NoOwner = NoOwner
  Threads <- TwoThreads
  ChunkMax = 4
  ChunkSize = 2
  Word = 16
  Sizes <- AllSizes
  ReallocSizes <- SomeSizes
SPECIFICATION Spec
SYMMETRY Symmetry
INVARIANTS
  TypeOK
  BlocksDisjoint
  BlockCoversRequest
  FreeListExact
  TotalExact
  NullOnlyIfNoFit
PROPERTY
  ImplementsHeap
\* a thread that reallocates, or that counts for ever, never returns
CHECK_DEADLOCK FALSE
