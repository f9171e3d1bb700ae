-------------------------------- MODULE Heap --------------------------------
(***************************************************************************)
(* What kmalloc.cpp promises: the pool is a row of chunks, an allocation   *)
(* takes the lowest run of free chunks that is long enough, and a release  *)
(* gives exactly those chunks back.  No list, no headers, no lock.         *)
(*                                                                         *)
(* KMalloc implements this specification.                                  *)
(***************************************************************************)
EXTENDS Integers

CONSTANT ChunkMax   \* number of chunks in the pool

VARIABLE blocks     \* the allocated blocks, as pairs <<first chunk, length>>

Chunk == 1..ChunkMax

Cover(b) == b[1]..(b[1] + b[2] - 1)

FreeChunk == Chunk \ UNION {Cover(b) : b \in blocks}

Fits(first, n) == first \in Chunk /\ Cover(<<first, n>>) \subseteq FreeChunk

Init == blocks = {}

Alloc(n) ==
  \E first \in Chunk :
    /\ Fits(first, n)
    /\ \A lower \in 1..(first - 1) : ~Fits(lower, n)
    /\ blocks' = blocks \cup {<<first, n>>}

Release(b) ==
  /\ b \in blocks
  /\ blocks' = blocks \ {b}

Next ==
  \/ \E n \in 1..ChunkMax : Alloc(n)
  \/ \E b \in blocks : Release(b)

Spec == Init /\ [][Next]_blocks
=============================================================================
