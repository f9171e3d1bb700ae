CONSTANTS
  t1 = t1
  NoOwner = NoOwner
  Threads <- OneCaller
  ChunkMax = 4
  ChunkSize = 2
  Word = 16
  Sizes <- SomeSizes
  ReallocSizes <- NoSizes
SPECIFICATION DualFreeSpec
PROPERTY
  DualFreeIgnored
