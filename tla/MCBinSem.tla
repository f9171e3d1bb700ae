------------------------------ MODULE MCBinSem ------------------------------
(* TLC instances of BinSem.                                                *)
EXTENDS BinSem

CONSTANTS t1, t2, t3, t4   \* model values

FourThreads == {t1, t2, t3, t4}

(* Small INT_MIN: the fourth caller finds value = -2 and fails.            *)
SmallIntMin == -2
=============================================================================
