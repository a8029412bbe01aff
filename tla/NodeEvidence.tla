------------------------------ MODULE NodeEvidence ------------------------------
(***************************************************************************)
(* The broker's node evidence: AdminService's ChallengeNodeEvidence,        *)
(* PublishNodeEvidence and ListNodeEvidence, and EnrollmentService's        *)
(* EnrollNodeEvidence and RevokeNodeEvidence, each a gRPC handler that runs *)
(* several SQLite statements or transactions.                               *)
(*                                                                         *)
(* A publish reads the enrollment row and the publisher certificates in two *)
(* statements, verifies a quote against what it read, spends the challenge, *)
(* prunes expired rows and only then stores the evidence; an administrator  *)
(* may re-enroll or revoke the node between any two of these.  This module  *)
(* implements EvidenceTable.                                                *)
(***************************************************************************)
EXTENDS EvidenceTable

CONSTANTS
    Policies,       \* TPM policies an enrollment can carry
    Certs,          \* publisher client certificates, by their hash
    Challenges,     \* challenge identifiers (randomID("node_chal"))
    Publishers,     \* concurrent ChallengeNodeEvidence and PublishNodeEvidence calls
    Admins,         \* concurrent EnrollNodeEvidence and RevokeNodeEvidence calls
    ChallengeTTL,   \* challenge_ttl
    Retention,      \* node_evidence.retention
    MaxAudits       \* bound on the ALLOW events per node

ASSUME NodeEvidenceAssumption ==
    /\ ChallengeTTL \in Nat
    /\ Retention \in Nat
    /\ MaxAudits \in Nat
    /\ "none" \notin Challenges

VARIABLES
    policy,       \* node_evidence_enrollments.tpm_policy of each node
    publishers,   \* node_evidence_publishers of each node
    challenges,   \* challenges with operation ENROLL, and how often consumed
    source,       \* history: the policy that the quote behind each evidence
                  \* row satisfied, and the certificate it came with
    pub,          \* publisher handlers
    admin,        \* administrator handlers
    allowed       \* history: ALLOW events for each node, in each audit sink

nodeVars == <<evidenceVars, policy, publishers, challenges, source, pub, admin, allowed>>

NoPolicy == "none"
NoCert == "none"
NoSource == [policy |-> NoPolicy, cert |-> NoCert]
NoChallenge == [status |-> "absent", node |-> "none", uid |-> NoUid,
                provider |-> "none", cert |-> NoCert, expires |-> 0, uses |-> 0]

\* A handler's locals: the request (kind, node, uid, provider, cert, chal,
\* ttl, quote), the enrollment it read (rev, policy) and the time it took.
IdlePub == [pc |-> "idle", kind |-> "none", node |-> "none", uid |-> NoUid,
            provider |-> "none", cert |-> NoCert, chal |-> "none", ttl |-> 0,
            quote |-> NoPolicy, rev |-> 0, policy |-> NoPolicy, at |-> 0]
IdleAdmin == [pc |-> "idle", kind |-> "none", node |-> "none", uid |-> NoUid,
              policy |-> NoPolicy, certs |-> {}]

Sinks == {"sqlite", "file"}

NodeInit ==
    /\ EvidenceInit
    /\ policy = [n \in Nodes |-> NoPolicy]
    /\ publishers = [n \in Nodes |-> {}]
    /\ challenges = [c \in Challenges |-> NoChallenge]
    /\ source = [n \in Nodes |-> NoSource]
    /\ pub = [p \in Publishers |-> IdlePub]
    /\ admin = [a \in Admins |-> IdleAdmin]
    /\ allowed = [s \in Sinks |-> [n \in Nodes |-> 0]]

--------------------------------------------------------------------------------
(* Authorizing a publisher: authorizeNodeEvidencePublisher *)

PubAt(p, pc) == pub[p].pc = pc
PubEnds(p) == pub' = [pub EXCEPT ![p] = IdlePub]

tables == <<evidenceVars, policy, publishers>>

\* canPublishNodeEvidenceProvider, with generic-tpm2-quote on the allow list.
EnabledProviders ==
    IF AllowFakeLocal THEN Providers ELSE {"generic-tpm2-quote"}

\* The enrollment row is read: TPM evidence needs an active enrollment with
\* the request's node UID; other evidence needs none, and no certificate.
ReadEnrollment(p, request) ==
    LET n == request.node IN
    \/ /\ request.provider = "generic-tpm2-quote"
       /\ enrollment[n].active
       /\ enrollment[n].uid = request.uid
       /\ pub' = [pub EXCEPT ![p] = [request EXCEPT !.pc = "publishers",
                    !.rev = enrollment[n].rev, !.policy = policy[n]]]
    \/ /\ request.provider # "generic-tpm2-quote"
       /\ pub' = [pub EXCEPT ![p] = [request EXCEPT !.pc = "authorized", !.cert = NoCert]]

ChallengeNodeEvidence(p) ==
    /\ PubAt(p, "idle")
    /\ \E n \in Nodes, u \in Uids \union {NoUid}, prov \in EnabledProviders, cert \in Certs :
          ReadEnrollment(p, [IdlePub EXCEPT !.kind = "challenge", !.node = n, !.uid = u,
                                            !.provider = prov, !.cert = cert])
    /\ UNCHANGED <<tables, challenges, source, admin, allowed>>

PublishNodeEvidence(p) ==
    /\ PubAt(p, "idle")
    /\ \E n \in Nodes, u \in Uids \union {NoUid}, prov \in EnabledProviders, cert \in Certs,
          c \in Challenges, ttl \in 1..(EvidenceTTL + 1), q \in Policies :
          ReadEnrollment(p, [IdlePub EXCEPT !.kind = "publish", !.node = n, !.uid = u,
                                            !.provider = prov, !.cert = cert, !.chal = c,
                                            !.ttl = ttl, !.quote = q])
    /\ UNCHANGED <<tables, challenges, source, admin, allowed>>

\* The publisher certificates are read in a second statement.
ReadPublishers(p) ==
    /\ PubAt(p, "publishers")
    /\ IF pub[p].cert \in publishers[pub[p].node]
       THEN pub' = [pub EXCEPT ![p].pc = "authorized"]
       ELSE PubEnds(p)
    /\ UNCHANGED <<tables, challenges, source, admin, allowed>>

--------------------------------------------------------------------------------
(* Challenges *)

\* nodeEvidenceChallengeSubject: the scope a challenge is bound to.
Scope(x) == [node |-> x.node, uid |-> x.uid, provider |-> x.provider, cert |-> x.cert]

\* CreateChallenge, the end of ChallengeNodeEvidence.
CreateChallenge(p) ==
    /\ PubAt(p, "authorized")
    /\ pub[p].kind = "challenge"
    /\ \E c \in Challenges :
          /\ challenges[c].status = "absent"
          /\ challenges' = [challenges EXCEPT ![c] =
                [status |-> "open", node |-> pub[p].node, uid |-> pub[p].uid,
                 provider |-> pub[p].provider, cert |-> pub[p].cert,
                 expires |-> now + ChallengeTTL, uses |-> 0]]
    /\ PubEnds(p)
    /\ UNCHANGED <<tables, source, admin, allowed>>

\* The checks shared by ChallengeNonce and the ConsumeChallenge transaction.
ValidChallenge(p, t) ==
    LET c == challenges[pub[p].chal] IN
    /\ c.status = "open"
    /\ Scope(c) = Scope(pub[p])
    /\ t < c.expires

\* ChallengeNonce, then verifyNodeEvidenceSubmission on what was read: a TPM
\* quote must satisfy the enrollment's policy.  The handler's clock reading is
\* used for the challenge and for the evidence.
VerifySubmission(p) ==
    /\ PubAt(p, "authorized")
    /\ pub[p].kind = "publish"
    /\ IF /\ ValidChallenge(p, now)
          /\ pub[p].provider = "generic-tpm2-quote" => pub[p].quote = pub[p].policy
       THEN pub' = [pub EXCEPT ![p].pc = "consume", ![p].at = now]
       ELSE PubEnds(p)
    /\ UNCHANGED <<tables, challenges, source, admin, allowed>>

\* Slip: the challenge is taken as validated by ChallengeNonce.
ConsumableNoRecheck(p) == TRUE

\* ConsumeChallenge repeats the checks, with the clock reading of before.
Consumable(p) == ValidChallenge(p, pub[p].at)

ConsumeChallenge(p) ==
    /\ PubAt(p, "consume")
    /\ IF Consumable(p)
       THEN /\ challenges' = [challenges EXCEPT ![pub[p].chal].status = "spent",
                                                ![pub[p].chal].uses = @ + 1]
            /\ pub' = [pub EXCEPT ![p].pc = "prune"]
       ELSE /\ PubEnds(p)
            /\ UNCHANGED challenges
    /\ UNCHANGED <<tables, source, admin, allowed>>

--------------------------------------------------------------------------------
(* Storing and pruning evidence *)

\* PruneNodeEvidence deletes rows that expired before the retention period.
Pruned(n) == evidence[n].provider # "none" /\ evidence[n].expires < now - Retention

Prune ==
    /\ evidence' = [n \in Nodes |-> IF Pruned(n) THEN NoEvidence ELSE evidence[n]]
    /\ source' = [n \in Nodes |-> IF Pruned(n) THEN NoSource ELSE source[n]]

PruneBeforePut(p) ==
    /\ PubAt(p, "prune")
    /\ Prune
    /\ pub' = [pub EXCEPT ![p].pc = "put"]
    /\ UNCHANGED <<now, enrollment, policy, publishers, challenges, admin, allowed>>

\* ListNodeEvidence prunes before it lists.
ListNodeEvidence ==
    /\ Prune
    /\ UNCHANGED <<now, enrollment, policy, publishers, challenges, pub, admin, allowed>>

\* Slip: the requested lifetime is not capped.
AcceptedTTLUncapped(requested) == requested

\* acceptedNodeEvidenceTTL
AcceptedTTL(requested) == IF requested > EvidenceTTL THEN EvidenceTTL ELSE requested

\* Slip: the revision read at the start is not compared.
EnrollmentUnchangedNot(p) ==
    LET e == enrollment[pub[p].node] IN e.active /\ e.uid = pub[p].uid

\* PutEnrolledNodeEvidence compares the enrollment with the one read before.
EnrollmentUnchanged(p) ==
    LET e == enrollment[pub[p].node] IN
    e.active /\ e.rev = pub[p].rev /\ e.uid = pub[p].uid

\* PutEnrolledNodeEvidence for TPM evidence, PutNodeEvidence for the rest:
\* either way the node's one row is replaced.
PutEvidence(p) ==
    /\ PubAt(p, "put")
    /\ IF pub[p].provider = "generic-tpm2-quote" /\ ~EnrollmentUnchanged(p)
       THEN UNCHANGED <<evidence, source>>
       ELSE /\ evidence' = [evidence EXCEPT ![pub[p].node] =
                  [provider |-> pub[p].provider, uid |-> pub[p].uid,
                   expires |-> pub[p].at + AcceptedTTL(pub[p].ttl),
                   rev |-> IF pub[p].provider = "generic-tpm2-quote"
                           THEN enrollment[pub[p].node].rev ELSE 0]]
            /\ source' = [source EXCEPT ![pub[p].node] =
                  [policy |-> IF pub[p].provider = "generic-tpm2-quote"
                              THEN pub[p].quote ELSE NoPolicy,
                   cert |-> pub[p].cert]]
    /\ PubEnds(p)
    /\ UNCHANGED <<now, enrollment, policy, publishers, challenges, admin, allowed>>

\* Any statement can fail; the handler then answers deny.
PublisherFails(p) ==
    /\ pub[p].pc # "idle"
    /\ PubEnds(p)
    /\ UNCHANGED <<tables, challenges, source, admin, allowed>>

--------------------------------------------------------------------------------
(* Enrollment and revocation *)

AdminAt(a, pc) == admin[a].pc = pc
AdminEnds(a) == admin' = [admin EXCEPT ![a] = IdleAdmin]

\* A request from an authorized administrator; others are denied and change
\* nothing.
AdminRequest(a) ==
    /\ AdminAt(a, "idle")
    /\ \E n \in Nodes, u \in Uids, q \in Policies, certs \in SUBSET Certs \ {{}} :
          \/ admin' = [admin EXCEPT ![a] =
                [pc |-> "sqlite", kind |-> "enroll", node |-> n, uid |-> u,
                 policy |-> q, certs |-> certs]]
          \/ admin' = [admin EXCEPT ![a] =
                [IdleAdmin EXCEPT !.pc = "sqlite", !.kind = "revoke", !.node = n]]
    /\ UNCHANGED <<tables, challenges, source, pub, allowed>>

\* Slip: a failing audit sink does not stop the handler.
AfterSinkAlways(next, written) == next

\* A failing audit sink ends the handler before anything is changed.
AfterSink(next, written) == IF written THEN next ELSE "idle"

\* auditEnrollmentDecision(ALLOW): to SQLite, then to the file, each of which
\* may fail.
AuditAllow(a) ==
    \E s \in Sinks, written \in BOOLEAN :
        LET next == AfterSink(IF s = "sqlite" THEN "file" ELSE "mutate", written) IN
        /\ AdminAt(a, s)
        /\ allowed[s][admin[a].node] < MaxAudits
        /\ IF written
           THEN allowed' = [allowed EXCEPT ![s][admin[a].node] = @ + 1]
           ELSE UNCHANGED allowed
        /\ admin' = [admin EXCEPT ![a] = IF next = "idle" THEN IdleAdmin
                                         ELSE [@ EXCEPT !.pc = next]]
        /\ UNCHANGED <<tables, challenges, source, pub>>

\* Slip: the revision limit is not checked.
RevisionLeftAlways(n) == TRUE

\* A revision that has reached its limit can neither be replaced nor revoked.
RevisionLeft(n) == enrollment[n].rev < MaxRevision

\* The EnrollNodeEvidence transaction: row, publishers and evidence together.
EnrollNodeEvidence(a) ==
    LET n == admin[a].node IN
    /\ AdminAt(a, "mutate")
    /\ admin[a].kind = "enroll"
    /\ RevisionLeft(n)
    /\ enrollment' = [enrollment EXCEPT ![n] =
                         [rev |-> @.rev + 1, active |-> TRUE, uid |-> admin[a].uid]]
    /\ policy' = [policy EXCEPT ![n] = admin[a].policy]
    /\ publishers' = [publishers EXCEPT ![n] = admin[a].certs]
    /\ evidence' = [evidence EXCEPT ![n] = NoEvidence]
    /\ source' = [source EXCEPT ![n] = NoSource]
    /\ AdminEnds(a)
    /\ UNCHANGED <<now, challenges, pub, allowed>>

\* The RevokeNodeEvidence transaction; the publishers stay.
RevokeNodeEvidence(a) ==
    LET n == admin[a].node IN
    /\ AdminAt(a, "mutate")
    /\ admin[a].kind = "revoke"
    /\ enrollment[n].active
    /\ RevisionLeft(n)
    /\ enrollment' = [enrollment EXCEPT ![n].rev = @ + 1, ![n].active = FALSE]
    /\ evidence' = [evidence EXCEPT ![n] = NoEvidence]
    /\ source' = [source EXCEPT ![n] = NoSource]
    /\ AdminEnds(a)
    /\ UNCHANGED <<now, policy, publishers, challenges, pub, allowed>>

\* The transaction is refused or fails; a DENY event follows, best effort.
AdminFails(a) ==
    /\ admin[a].pc # "idle"
    /\ AdminEnds(a)
    /\ UNCHANGED <<tables, challenges, source, pub, allowed>>

--------------------------------------------------------------------------------
\* The broker stops: handlers vanish, the database stays.
StopBroker ==
    /\ pub' = [p \in Publishers |-> IdlePub]
    /\ admin' = [a \in Admins |-> IdleAdmin]
    /\ UNCHANGED <<tables, challenges, source, allowed>>

TimePasses ==
    /\ Tick
    /\ UNCHANGED <<policy, publishers, challenges, source, pub, admin, allowed>>

PublisherStep(p) ==
    \/ ChallengeNodeEvidence(p) \/ PublishNodeEvidence(p) \/ ReadPublishers(p)
    \/ CreateChallenge(p) \/ VerifySubmission(p) \/ ConsumeChallenge(p)
    \/ PruneBeforePut(p) \/ PutEvidence(p) \/ PublisherFails(p)

AdminStep(a) ==
    \/ AdminRequest(a) \/ AuditAllow(a) \/ EnrollNodeEvidence(a)
    \/ RevokeNodeEvidence(a) \/ AdminFails(a)

NodeNext ==
    \/ TimePasses \/ StopBroker \/ ListNodeEvidence
    \/ \E p \in Publishers : PublisherStep(p)
    \/ \E a \in Admins : AdminStep(a)

NodeSpec == NodeInit /\ [][NodeNext]_nodeVars

--------------------------------------------------------------------------------
(* Properties *)

\* Every table and every handler has a value the code can produce; no
\* enrollment revision passes its limit.
NodeTypeOK ==
    /\ now \in 0..MaxTime
    /\ enrollment \in [Nodes -> EnrollmentRows]
    /\ evidence \in [Nodes -> EvidenceRows]
    /\ policy \in [Nodes -> Policies \union {NoPolicy}]
    /\ publishers \in [Nodes -> SUBSET Certs]
    /\ challenges \in [Challenges ->
          [status : {"absent", "open", "spent"}, node : Nodes \union {"none"},
           uid : Uids \union {NoUid}, provider : Providers \union {"none"},
           cert : Certs \union {NoCert}, expires : 0..(MaxTime + ChallengeTTL), uses : Nat]]
    /\ source \in [Nodes -> [policy : Policies \union {NoPolicy}, cert : Certs \union {NoCert}]]
    /\ pub \in [Publishers ->
          [pc : {"idle", "publishers", "authorized", "consume", "prune", "put"},
           kind : {"none", "challenge", "publish"}, node : Nodes \union {"none"},
           uid : Uids \union {NoUid}, provider : Providers \union {"none"},
           cert : Certs \union {NoCert}, chal : Challenges \union {"none"},
           ttl : 0..(EvidenceTTL + 1), quote : Policies \union {NoPolicy},
           rev : 0..MaxRevision, policy : Policies \union {NoPolicy}, at : 0..MaxTime]]
    /\ admin \in [Admins ->
          [pc : {"idle", "sqlite", "file", "mutate"}, kind : {"none", "enroll", "revoke"},
           node : Nodes \union {"none"}, uid : Uids \union {NoUid},
           policy : Policies \union {NoPolicy}, certs : SUBSET Certs]]
    /\ allowed \in [Sinks -> [Nodes -> 0..MaxAudits]]

\* TPM evidence in the table always rests on the enrollment in force: its
\* revision and node UID are the enrollment's, the quote behind it satisfied
\* the enrollment's policy and its publisher is one of the enrollment's, even
\* though the publish read row and certificates in two statements and any
\* number of re-enrollments and revocations ran since.
EvidenceRestsOnEnrollment ==
    \A n \in Nodes : evidence[n].provider = "generic-tpm2-quote" =>
        /\ enrollment[n].active
        /\ evidence[n].rev = enrollment[n].rev
        /\ evidence[n].uid = enrollment[n].uid
        /\ source[n].policy = policy[n]
        /\ source[n].cert \in publishers[n]

\* A node evidence challenge backs at most one publish, however many handlers
\* got its nonce before the first of them consumed it.
PublishChallengeSingleUse ==
    \A c \in Challenges :
        challenges[c].uses = IF challenges[c].status = "spent" THEN 1 ELSE 0

\* No enrollment or revocation takes effect unless both audit sinks took an
\* ALLOW event for it before: a node never has more revisions than events.
EnrollmentChangesAudited ==
    \A n \in Nodes, s \in Sinks : enrollment[n].rev <= allowed[s][n]

\* The evidence and enrollment tables only move as EvidenceTable promises.
ImplementsEvidenceTable == EvidenceSpec
================================================================================
