------------------------------- MODULE TpmQuote -------------------------------
(***************************************************************************)
(* TPM quotes as node evidence: what the agent collects, what it and the    *)
(* broker verify, and the enrolled policy.                                   *)
(*                                                                         *)
(* Digests and signatures are ideal: a digest is the list it was computed    *)
(* from, a quote names its signer.  The bank is sha256, the one that         *)
(* provisioning, agent and documentation use.                                *)
(***************************************************************************)
EXTENDS Integers, Sequences, FiniteSets, Functions

CONSTANTS
    PcrLists,   \* lists of PCR indexes that flags and policies may name
    Pcrs,       \* the PCRs of the platform
    Measured,   \* the values a PCR may have
    AKs,        \* attestation keys, one per TPM
    Nonces      \* nonces of challenges; a challenge ID goes with each

\* Names of hashes as flags, files and digests spell them.
Hashes == {"", "sha256", "SHA256", "unknown"}
Selections == [hash : Hashes, pcrs : PcrLists]
BootStates == [Pcrs -> Measured]

ASSUME QuoteAssumption == PcrLists \subseteq Seq(Int) /\ 7 \in Pcrs /\ Pcrs \subseteq 0..23

--------------------------------------------------------------------------------
(* PCR selections and digests *)

ToLower(hash) == IF hash = "SHA256" THEN "sha256" ELSE hash

HashName(s) == IF s.hash = "" THEN "sha256" ELSE ToLower(s.hash)

\* Normalize returns no error.
Selectable(s) ==
    /\ HashName(s) = "sha256"
    /\ s.pcrs # <<>>
    /\ \A i \in DOMAIN s.pcrs : s.pcrs[i] \in 0..23
    /\ \A i, j \in DOMAIN s.pcrs : s.pcrs[i] = s.pcrs[j] => i = j

Increasing(t) == \A i, j \in DOMAIN t : i < j => t[i] < t[j]

\* slices.Sort of a list without duplicates.
Sort(s) == CHOOSE t \in [DOMAIN s -> Range(s)] : Increasing(t) /\ Range(t) = Range(s)

\* Slip: the indexes are not sorted.
NormalizeUnsorted(s) == [hash |-> HashName(s), pcrs |-> s.pcrs]

\* The selection with its hash named and its indexes sorted.
Normalize(s) == [hash |-> HashName(s), pcrs |-> Sort(s.pcrs)]

\* The digest of the selected values, in the order of the selection.
ComputePCRDigest(s, values) ==
    [hash |-> s.hash, of |-> [i \in DOMAIN s.pcrs |-> values[s.pcrs[i]]]]

sameSelection(s, t) == s.hash = t.hash /\ s.pcrs = t.pcrs

\* A policy for the values that were read.
NewPCRPolicy(s, values) ==
    [selection |-> Normalize(s), digest |-> ComputePCRDigest(Normalize(s), values)]

--------------------------------------------------------------------------------
(* Collecting a quote *)

\* The TPM signs nonce, selection and digest; its selection is a bitmap, which
\* reads in the order of the indexes.  boot is history: the state it signed in.
Attest(ak, nonce, s, boot) ==
    LET read == [hash |-> s.hash, pcrs |-> Sort(s.pcrs)]
    IN  [signer |-> ak, nonce |-> nonce, selection |-> read,
         digest |-> ComputePCRDigest(read, boot), boot |-> boot]

\* The quote is made first; the PCRs are read after it and may have changed.
CollectQuote(ak, nonce, s, boot, later) ==
    [id        |-> nonce,
     nonceHash |-> nonce,
     ak        |-> ak,
     quote     |-> Attest(ak, nonce, Normalize(s), boot),
     selection |-> Normalize(s),
     values    |-> Restrict(later, Range(s.pcrs))]

--------------------------------------------------------------------------------
(* Verifying a quote *)

\* The shape of the evidence.
Validate(e) ==
    /\ Selectable(e.selection)
    /\ DOMAIN e.values # {} /\ DOMAIN e.values \subseteq 0..23
    /\ Range(e.selection.pcrs) \subseteq DOMAIN e.values

verifyNonceHash(e, nonce) == e.nonceHash = nonce
verifyAKSignature(e) == e.quote.signer = e.ak
verifyAttestation(e, nonce) == e.quote.nonce = nonce

verifyAttestedPCRs(e) ==
    /\ Selectable(e.quote.selection)
    /\ sameSelection(Normalize(e.quote.selection), Normalize(e.selection))
    /\ e.quote.digest = ComputePCRDigest(Normalize(e.selection), e.values)

VerifyQuote(e, nonce) ==
    /\ Validate(e)
    /\ verifyNonceHash(e, nonce)
    /\ verifyAKSignature(e)
    /\ verifyAttestation(e, nonce)
    /\ verifyAttestedPCRs(e)

\* What a verified quote tells.
QuoteClaims(e) ==
    [ak        |-> e.ak,
     selection |-> Normalize(e.selection),
     digest    |-> ComputePCRDigest(Normalize(e.selection), e.values)]

--------------------------------------------------------------------------------
(* The enrolled policy *)

contains(s, pcr) == pcr \in Range(s.pcrs)

\* PCRPolicy.Validate: selection and digest are normalised for the check, and
\* kept as they were written.
PCRPolicyValid(p) == Selectable(p.selection) /\ ToLower(p.digest.hash) = HashName(p.selection)

PolicyValid(policy) ==
    policy.mode = "secureboot" => PCRPolicyValid(policy.pcr) /\ contains(policy.pcr.selection, 7)

\* Slip: the digest alone is compared.
verifySecureBootPolicyDigest(claims, p) == p.digest = claims.digest

\* The policy's digest and selection are compared as they were enrolled.
verifySecureBootPolicy(claims, p) ==
    /\ p.digest = claims.digest
    /\ sameSelection(p.selection, claims.selection)

EvaluatePolicy(e, nonce, policy) ==
    /\ PolicyValid(policy)
    /\ VerifyQuote(e, nonce)
    /\ policy.ak = e.ak
    /\ \/ policy.mode = "tpm-only"
       \/ policy.mode = "secureboot" /\ verifySecureBootPolicy(QuoteClaims(e), policy.pcr)

\* The broker's check of a submission against the node's active enrollment.
verifyTPMNodeEvidenceSubmission(submission, nonce, enrollment) ==
    /\ submission.format = "tpm2-quote"
    /\ enrollment.active
    /\ enrollment.node = submission.node
    /\ enrollment.uid = submission.uid
    /\ Validate(submission.payload)
    /\ submission.payload.id = submission.id
    /\ EvaluatePolicy(submission.payload, nonce, enrollment.policy)

--------------------------------------------------------------------------------
(* Bounded inputs *)

Spellings == {"sha256", "SHA256"}

Digests == [hash : Spellings, of : UNION {[1..n -> Measured] : n \in 1..Cardinality(Pcrs)}]

\* A policy as it is enrolled, with an AK and, for secureboot, a PCR policy.
Policies ==
    LET pcrPolicies == [selection : Selections, digest : Digests]
        none == CHOOSE p \in pcrPolicies : TRUE
    IN  [mode : {"secureboot"}, ak : AKs, pcr : pcrPolicies]
        \union [mode : {"tpm-only", "measured"}, ak : AKs, pcr : {none}]

Quotable == {s \in Selections : Selectable(s) /\ Range(s.pcrs) \subseteq Pcrs}

\* What agents collect; an honest TPM made every quote.
Collections ==
    [ak : AKs, nonce : Nonces, selection : Quotable, boot : BootStates, later : BootStates]

Collected == {CollectQuote(c.ak, c.nonce, c.selection, c.boot, c.later) : c \in Collections}

\* Evidence whose quote was made for another collection.
Mixed == {[p[1] EXCEPT !.quote = p[2].quote] : p \in Collected \X Collected}

Passing == {p \in Mixed \X Nonces : VerifyQuote(p[1], p[2])}

SubmissionOf(e) ==
    [format |-> "tpm2-quote", node |-> "node", uid |-> "uid", id |-> e.id, payload |-> e]

\* The PCR policy of an enrollment: the operator's own selection s, in any order
\* and spelling that validates, and the digest of the values captured for it,
\* whose hash is spelled h.  Nothing normalises it on its way to the table.
EnrolledPCRPolicy(s, h, values) ==
    [selection |-> s, digest |-> [hash |-> h, of |-> NewPCRPolicy(s, values).digest.of]]

EnrollmentOf(policy) == [active |-> TRUE, node |-> "node", uid |-> "uid", policy |-> policy]

--------------------------------------------------------------------------------
(* What the verification decides *)

\* The PCR policy has a value for each of its PCRs, and the boot state agrees.
Meets(boot, p) ==
    /\ DOMAIN p.digest.of = DOMAIN p.selection.pcrs
    /\ \A i \in DOMAIN p.selection.pcrs : boot[p.selection.pcrs[i]] = p.digest.of[i]

\* Accepted evidence holds a quote of the enrolled AK over the challenge's
\* nonce, made in a boot state that meets the enrolled policy.
AcceptedQuotesAreGenuine ==
    \A policy \in Policies, p \in Passing :
        LET e == p[1]
            nonce == p[2]
        IN  EvaluatePolicy(e, nonce, policy) =>
            /\ e.quote.signer = policy.ak
            /\ e.quote.nonce = nonce
            /\ policy.mode # "measured"
            /\ policy.mode = "secureboot" =>
                  contains(policy.pcr.selection, 7) /\ Meets(e.quote.boot, policy.pcr)

\* The selection is spelled as Normalize would spell it.
Canonical(s) == s.hash = "sha256" /\ Increasing(s.pcrs)

\* Under a policy captured in one boot state, a node is accepted if and only if
\* the policy was enrolled in canonical spelling, the node quotes the policy's
\* PCRs, in any order, and they had the captured values both when they were
\* quoted and when they were read.  A policy that lists its PCRs out of order,
\* leaves its hash out or writes it in upper case validates, is enrolled, and
\* refuses every node.
HealthyNodesAreAccepted ==
    \A ak \in AKs, nonce \in Nonces, good, boot, later \in BootStates,
       s, t \in Quotable, h \in Spellings :
        contains(s, 7) =>
            LET pcr == EnrolledPCRPolicy(s, h, good)
                policy == [mode |-> "secureboot", ak |-> ak, pcr |-> pcr]
            IN  /\ PolicyValid(policy)
                /\ verifyTPMNodeEvidenceSubmission(
                      SubmissionOf(CollectQuote(ak, nonce, t, boot, later)), nonce,
                      EnrollmentOf(policy))
                   <=> /\ Canonical(s) /\ h = "sha256"
                       /\ Range(t.pcrs) = Range(s.pcrs)
                       /\ \A i \in Range(s.pcrs) : boot[i] = good[i] /\ later[i] = good[i]
================================================================================
