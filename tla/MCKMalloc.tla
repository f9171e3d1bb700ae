----------------------------- MODULE MCKMalloc -----------------------------
(* TLC instances of KMalloc.                                               *)
EXTENDS KMalloc, TLC

CONSTANTS t1, t2   \* model values

TwoThreads == {t1, t2}
Symmetry == Permutations(TwoThreads)

(* Chunks of 2 bytes and size_t modulo 16: blocks of 2 and 3 chunks, a     *)
(* size whose chunk_count does not end (13), one whose block is empty      *)
(* (14), and one whose sum with the header wraps to one chunk (15).        *)
AllSizes == {2, 3, 13, 14, 15}

(* Passed to krealloc, 0 is always refused and 2 by a larger block only.   *)
SomeSizes == {0, 2}

NoSizes == {}
=============================================================================
