------------------------------ MODULE MCRecovery ------------------------------
(***************************************************************************)
(* Recovery for TLC, with the arithmetic of its shares.                     *)
(***************************************************************************)
EXTENDS Recovery, Shamir, TLC

\* Shells, databases, identifiers and keys are interchangeable.
Symmetry ==
    Permutations(Operators) \union Permutations(Sites)
        \union Permutations(Packages) \union Permutations(Keys) \union Permutations(PolicyIds)

\* Once the shares of a package are printed, Recover returns the escrowed secret
\* for every list, in any order, that starts with a threshold of genuine shares
\* and repeats none, also when a damaged share of the package comes after them,
\* and refuses all others: RecoverAccepts is what the arithmetic does.
SharesRecoverTheSecret == \A k \in Packages : RecoverAccepts(k) => RecoverExact

\* One printed share of a 2-of-n package is consistent with every byte the
\* secret could hold: splitSecret reveals nothing below the threshold.
OneShareTellsNothing == \A k \in Packages : RecoverAccepts(k) => EveryByteConsistent
================================================================================
