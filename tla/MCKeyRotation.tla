---------------------------- MODULE MCKeyRotation -----------------------------
(* KeyRotation for TLC: two shells, versions up to 3, so that two rotations   *)
(* and an exhausted version range are reached.                                *)
EXTENDS KeyRotation, TLC

Symmetry == Permutations(Operators) \union Permutations(OpIds)
================================================================================
