----------------------------- MODULE MCEnrollment -----------------------------
(***************************************************************************)
(* Enrollment for TLC.                                                      *)
(***************************************************************************)
EXTENDS Enrollment, TLC

\* Shells and identifiers are interchangeable.
Symmetry ==
    Permutations(Operators) \union Permutations(RequestIds) \union Permutations(GrantIds)
================================================================================
