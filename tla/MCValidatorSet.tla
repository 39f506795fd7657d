---------------------------- MODULE MCValidatorSet ----------------------------
(* Small instances of ValidatorSet.                                         *)
EXTENDS ValidatorSet

CONSTANT n1

MCStakers == Validators \X Nullifiers

MCAmount == [n \in Nullifiers |-> IF n = n1 THEN 1 ELSE 2]
=============================================================================
