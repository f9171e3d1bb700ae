------------------------------ MODULE MCShell ------------------------------
(* TLC instances of Shell.                                                 *)
EXTENDS Shell, TLC

CONSTANTS a, b   \* model values

TwoChars == {a, b}
Symmetry == Permutations(TwoChars)
=============================================================================
