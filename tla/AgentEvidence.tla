----------------------------- MODULE AgentEvidence -----------------------------
(***************************************************************************)
(* The node agent together with the quotes that its attempts carry: an       *)
(* attempt in NodeAgent succeeds only with a quote that the broker's check    *)
(* in TpmQuote accepts.                                                      *)
(***************************************************************************)
EXTENDS NodeAgent, TpmQuote

\* The broker stores a row only for a quote that the enrolled AK made over this
\* challenge in a boot state meeting the enrolled policy, whichever quote,
\* values and selection the evidence combines (EvaluatePolicy).
StoredRowsRestOnGenuineQuotes == pc = "handling" => AcceptedQuotesAreGenuine

\* The quote of a node whose PCRs have the captured values passes the broker's
\* check, whatever order the agent's flags list the PCRs in, exactly when the
\* enrolled policy is spelled canonically; a PCR that changes between quote and
\* read fails the attempt.
HealthyNodesPublish == pc = "handling" => HealthyNodesAreAccepted
================================================================================
