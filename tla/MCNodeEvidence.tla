----------------------------- MODULE MCNodeEvidence -----------------------------
(***************************************************************************)
(* NodeEvidence for TLC.                                                    *)
(***************************************************************************)
EXTENDS NodeEvidence, TLC

\* Handlers and identifiers are interchangeable.
Symmetry ==
    Permutations(Publishers) \union Permutations(Admins) \union Permutations(Challenges)
        \union Permutations(Policies) \union Permutations(Certs)
================================================================================
