------------------------- MODULE MCKMallocDualFree -------------------------
(* TLC instance of KMallocDualFree.                                        *)
EXTENDS KMallocDualFree

CONSTANT t1   \* model value

OneCaller == {t1}

(* Blocks of 1, 2 and 3 chunks.                                            *)
SomeSizes == {0, 2, 3}

NoSizes == {}
=============================================================================
