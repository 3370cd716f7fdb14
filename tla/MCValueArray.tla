---------------------------- MODULE MCValueArray ----------------------------
(* A small instance of ValueArray. *)
EXTENDS ValueArray, TLC

ValueSymmetry == Permutations(Value)

=============================================================================
