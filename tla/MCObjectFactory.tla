-------------------------- MODULE MCObjectFactory --------------------------
(* TLC instances of ObjectFactory.                                         *)
EXTENDS ObjectFactory
=============================================================================
