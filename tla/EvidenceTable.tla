------------------------------ MODULE EvidenceTable ------------------------------
(***************************************************************************)
(* What the tables node_evidence_enrollments and node_evidence promise to   *)
(* the policy that reads them: TPM evidence is stored only for a node whose *)
(* enrollment is active, carries that enrollment's revision and UID, lives  *)
(* no longer than the configured TTL, and disappears together with the      *)
(* enrollment it was verified under.                                        *)
(*                                                                         *)
(* NodeEvidence implements this; UnsealService is built on top of it.       *)
(***************************************************************************)
EXTENDS Integers

CONSTANTS
    Nodes,           \* Kubernetes node names
    Uids,            \* Kubernetes node UIDs
    MaxTime,         \* bound on the clock
    EvidenceTTL,     \* node_evidence.ttl, the longest accepted lifetime
    MaxRevision,     \* maxNodeEvidenceEnrollmentRevision (2^63 - 1 in the code)
    AllowFakeLocal   \* allow_fake_node_evidence_publish

ASSUME EvidenceAssumption ==
    /\ MaxTime \in Nat
    /\ EvidenceTTL \in Nat
    /\ MaxRevision \in Nat \ {0}
    /\ AllowFakeLocal \in BOOLEAN
    /\ "none" \notin Nodes

VARIABLES
    now,         \* the broker's clock
    enrollment,  \* node_evidence_enrollments; revision 0 is no row
    evidence     \* node_evidence; provider "none" is no row

evidenceVars == <<now, enrollment, evidence>>

Providers == {"generic-tpm2-quote", "fake-local"}
NoUid == "none"

NoEvidence == [provider |-> "none", uid |-> NoUid, expires |-> 0, rev |-> 0]
NotEnrolled == [rev |-> 0, active |-> FALSE, uid |-> NoUid]

Times == 0..(MaxTime + EvidenceTTL)
EvidenceRows == [provider : Providers \union {"none"}, uid : Uids \union {NoUid},
                 expires : Times, rev : 0..MaxRevision]
EnrollmentRows == [rev : 0..MaxRevision, active : BOOLEAN, uid : Uids \union {NoUid}]

\* FreshNodeEvidence: a row whose expiry is after the clock.
Fresh(n) == evidence[n].provider # "none" /\ evidence[n].expires > now

EvidenceInit ==
    /\ now = 0
    /\ enrollment = [n \in Nodes |-> NotEnrolled]
    /\ evidence = [n \in Nodes |-> NoEvidence]

Tick ==
    /\ now < MaxTime
    /\ now' = now + 1
    /\ UNCHANGED <<enrollment, evidence>>

\* A new enrollment revision; evidence verified under an older one is gone.
EnrollNode ==
    /\ \E n \in Nodes, u \in Uids :
          /\ enrollment[n].rev < MaxRevision
          /\ enrollment' = [enrollment EXCEPT ![n] =
                               [rev |-> @.rev + 1, active |-> TRUE, uid |-> u]]
          /\ evidence' = [evidence EXCEPT ![n] = NoEvidence]
    /\ UNCHANGED now

\* Slip: revocation leaves the verified evidence in place.
RevokeNodeKeeping ==
    /\ \E n \in Nodes :
          /\ enrollment[n].active
          /\ enrollment[n].rev < MaxRevision
          /\ enrollment' = [enrollment EXCEPT ![n].rev = @ + 1, ![n].active = FALSE]
    /\ UNCHANGED <<now, evidence>>

\* The end of an enrollment, and of the evidence that rests on it.
RevokeNode ==
    /\ \E n \in Nodes :
          /\ enrollment[n].active
          /\ enrollment[n].rev < MaxRevision
          /\ enrollment' = [enrollment EXCEPT ![n].rev = @ + 1, ![n].active = FALSE]
          /\ evidence' = [evidence EXCEPT ![n] = NoEvidence]
    /\ UNCHANGED now

\* Evidence of an enrolled TPM, for at most the configured TTL from now on.
PutTpmEvidence ==
    /\ \E n \in Nodes, e \in Times :
          /\ enrollment[n].active
          /\ e <= now + EvidenceTTL
          /\ evidence' = [evidence EXCEPT ![n] =
                             [provider |-> "generic-tpm2-quote", uid |-> enrollment[n].uid,
                              expires |-> e, rev |-> enrollment[n].rev]]
    /\ UNCHANGED <<now, enrollment>>

\* Development evidence, bound to no enrollment.
PutFakeEvidence ==
    /\ AllowFakeLocal
    /\ \E n \in Nodes, e \in Times, u \in Uids \union {NoUid} :
          /\ e <= now + EvidenceTTL
          /\ evidence' = [evidence EXCEPT ![n] =
                             [provider |-> "fake-local", uid |-> u,
                              expires |-> e, rev |-> 0]]
    /\ UNCHANGED <<now, enrollment>>

\* Expired rows may be deleted, any number of them at once.
PruneEvidence ==
    /\ \E N \in SUBSET Nodes :
          /\ \A n \in N : ~Fresh(n)
          /\ evidence' = [n \in Nodes |-> IF n \in N THEN NoEvidence ELSE evidence[n]]
    /\ UNCHANGED <<now, enrollment>>

EvidenceNext ==
    \/ Tick \/ EnrollNode \/ RevokeNode
    \/ PutTpmEvidence \/ PutFakeEvidence \/ PruneEvidence

EvidenceSpec == EvidenceInit /\ [][EvidenceNext]_evidenceVars
================================================================================
