---------------------------- MODULE MCUnsealService ----------------------------
(***************************************************************************)
(* UnsealService for TLC.  MCUnsealKeys.cfg lets keys rotate under          *)
(* concurrent calls; MCUnsealPolicy.cfg lets subjects, enrollments,         *)
(* evidence and time change; MCUnsealAnswered.cfg adds fairness (and so no  *)
(* symmetry); MCUnsealAudit.cfg has no faults, so that a missing audit      *)
(* event is the handler's doing.                                            *)
(***************************************************************************)
EXTENDS UnsealService, TLC

\* Identifiers are interchangeable, and so are keys.
Symmetry == Permutations(Requests) \union Permutations(Challenges) \union Permutations(Keys)
================================================================================
