--------------------------- MODULE NodeEvidenceProofs ---------------------------
(***************************************************************************)
(* NodeEvidence for any number of nodes, policies, certificates, challenges *)
(* and concurrent handlers.                                                 *)
(*                                                                         *)
(* A publish acts on what it read several statements ago.  The invariant    *)
(* says when that still counts: as long as the enrollment has the revision  *)
(* that was read and is active, it is the enrollment that was read.         *)
(***************************************************************************)
EXTENDS NodeEvidence, FiniteSetTheorems, TLAPS

--------------------------------------------------------------------------------
(* The inductive invariant *)

Tpm == "generic-tpm2-quote"

ChallengeRows ==
    [status : {"absent", "open", "spent"}, node : Nodes \union {"none"},
     uid : Uids \union {NoUid}, provider : Providers \union {"none"},
     cert : Certs \union {NoCert}, expires : 0..(MaxTime + ChallengeTTL), uses : Nat]
SourceRows == [policy : Policies \union {NoPolicy}, cert : Certs \union {NoCert}]
PubPcs == {"idle", "publishers", "authorized", "consume", "prune", "put"}
PubHandlers ==
    [pc : PubPcs, kind : {"none", "challenge", "publish"}, node : Nodes \union {"none"},
     uid : Uids \union {NoUid}, provider : Providers \union {"none"},
     cert : Certs \union {NoCert}, chal : Challenges \union {"none"},
     ttl : 0..(EvidenceTTL + 1), quote : Policies \union {NoPolicy},
     rev : 0..MaxRevision, policy : Policies \union {NoPolicy}, at : 0..MaxTime]
AdminPcs == {"idle", "sqlite", "file", "mutate"}
AdminHandlers ==
    [pc : AdminPcs, kind : {"none", "enroll", "revoke"},
     node : Nodes \union {"none"}, uid : Uids \union {NoUid},
     policy : Policies \union {NoPolicy}, certs : SUBSET Certs]

\* The types of the tables, and of the handlers.
TableTypes ==
    /\ now \in 0..MaxTime
    /\ enrollment \in [Nodes -> EnrollmentRows]
    /\ evidence \in [Nodes -> EvidenceRows]
    /\ policy \in [Nodes -> Policies \union {NoPolicy}]
    /\ publishers \in [Nodes -> SUBSET Certs]
    /\ source \in [Nodes -> SourceRows]

\* What a publisher handler holds is of use: its node exists and its evidence
\* may be published at all; after verification the quote satisfies the policy
\* that was read.
Asked(p) ==
    pub[p].pc # "idle" =>
        /\ pub[p].node \in Nodes
        /\ pub[p].provider \in EnabledProviders
        /\ pub[p].kind \in {"challenge", "publish"}
        /\ pub[p].kind = "publish" => pub[p].chal \in Challenges
        /\ pub[p].pc \in {"consume", "prune", "put"} =>
              /\ pub[p].kind = "publish"
              /\ pub[p].at <= now
              /\ pub[p].provider = Tpm => pub[p].quote = pub[p].policy

\* As long as the enrollment that was read is in force, so are the policy and,
\* once it was looked up, the certificate.
Backed(p) ==
    pub[p].pc # "idle" /\ pub[p].provider = Tpm =>
        /\ pub[p].rev <= enrollment[pub[p].node].rev
        /\ pub[p].rev = enrollment[pub[p].node].rev /\ enrollment[pub[p].node].active =>
              /\ pub[p].policy = policy[pub[p].node]
              /\ pub[p].pc # "publishers" => pub[p].cert \in publishers[pub[p].node]

\* A running administrator's handler names a node and, to enroll it, its UID.
Ordered(a) ==
    admin[a].pc # "idle" =>
        /\ admin[a].node \in Nodes
        /\ admin[a].kind = "enroll" => admin[a].uid \in Uids

PubInv == pub \in [Publishers -> PubHandlers] /\ \A p \in Publishers : Asked(p) /\ Backed(p)
AdminInv == admin \in [Admins -> AdminHandlers] /\ \A a \in Admins : Ordered(a)
ChallengesInv == challenges \in [Challenges -> ChallengeRows] /\ PublishChallengeSingleUse

\* Handlers whose event the sink took and that have not changed the node yet.
Past(s) == IF s = "sqlite" THEN {"file", "mutate"} ELSE {"mutate"}
Announced(s, n) == {a \in Admins : admin[a].node = n /\ admin[a].pc \in Past(s)}

\* Every revision of a node and every change that is about to come has an event
\* of its own in each sink.
AuditInv ==
    /\ allowed \in [Sinks -> [Nodes -> 0..MaxAudits]]
    /\ \A s \in Sinks, n \in Nodes :
          /\ IsFiniteSet(Announced(s, n))
          /\ enrollment[n].rev + Cardinality(Announced(s, n)) <= allowed[s][n]

NodeInv ==
    /\ TableTypes
    /\ PubInv
    /\ AdminInv
    /\ ChallengesInv
    /\ AuditInv
    /\ EvidenceRestsOnEnrollment

--------------------------------------------------------------------------------
(* Tables *)

\* An enrollment changes only with its revision.
EnrollmentsKept ==
    \A n \in Nodes :
        \/ enrollment'[n].rev > enrollment[n].rev
        \/ /\ enrollment'[n] = enrollment[n]
           /\ policy'[n] = policy[n]
           /\ publishers'[n] = publishers[n]

\* Evidence goes, stays with its enrollment, or is new and rests on it.
EvidenceMoves ==
    \A n \in Nodes :
        \/ evidence'[n].provider # Tpm
        \/ /\ evidence'[n] = evidence[n]
           /\ source'[n] = source[n]
           /\ enrollment'[n] = enrollment[n]
           /\ policy'[n] = policy[n]
           /\ publishers'[n] = publishers[n]
        \/ /\ enrollment'[n].active
           /\ evidence'[n].rev = enrollment'[n].rev
           /\ evidence'[n].uid = enrollment'[n].uid
           /\ source'[n].policy = policy'[n]
           /\ source'[n].cert \in publishers'[n]

TablesMove == TableTypes' /\ EnrollmentsKept /\ EvidenceMoves /\ now <= now'

\* The rows that stand for no evidence have the types of rows.
LEMMA EmptyRows ==
    NoEvidence \in EvidenceRows /\ NoSource \in SourceRows /\ NoEvidence.provider = "none"
  BY EvidenceAssumption DEF NoEvidence, EvidenceRows, Times, NoSource, SourceRows

\* A step that leaves the tables alone.
LEMMA TablesRest ==
    ASSUME TableTypes, UNCHANGED <<now, enrollment, evidence, policy, publishers, source>>
    PROVE  TablesMove
<1>1. TableTypes' /\ now <= now'
  BY DEF TableTypes
<1>2. EnrollmentsKept /\ EvidenceMoves
  BY DEF EnrollmentsKept, EvidenceMoves
<1> QED
  BY <1>1, <1>2 DEF TablesMove

\* Pruning only removes rows.
LEMMA PruneMoves ==
    ASSUME TableTypes, Prune, UNCHANGED <<now, enrollment, policy, publishers>>
    PROVE  TablesMove
<1>1. TableTypes' /\ now <= now'
  BY EmptyRows DEF Prune, TableTypes
<1>2. EnrollmentsKept
  BY DEF EnrollmentsKept
<1>3. EvidenceMoves
  <2> SUFFICES ASSUME NEW n \in Nodes
               PROVE  \/ evidence'[n].provider # Tpm
                      \/ evidence'[n] = evidence[n] /\ source'[n] = source[n]
    BY DEF EvidenceMoves
  <2> QED
    BY EmptyRows DEF Prune, Tpm
<1> QED
  BY <1>1, <1>2, <1>3 DEF TablesMove

\* The row that a publish stores, and its origin.
Row(p) ==
    [provider |-> pub[p].provider, uid |-> pub[p].uid, expires |-> pub[p].at + AcceptedTTL(pub[p].ttl),
     rev |-> IF pub[p].provider = Tpm THEN enrollment[pub[p].node].rev ELSE 0]
Origin(p) ==
    [policy |-> IF pub[p].provider = Tpm THEN pub[p].quote ELSE NoPolicy, cert |-> pub[p].cert]

\* No lifetime is longer than the configured one.
LEMMA TTLBound ==
    ASSUME NEW t \in 0..(EvidenceTTL + 1)
    PROVE  AcceptedTTL(t) \in 0..EvidenceTTL
  BY EvidenceAssumption DEF AcceptedTTL

\* PutEvidence stores that row, or nothing.
LEMMA PutEffect ==
    ASSUME TableTypes, PubInv, NEW p \in Publishers, PutEvidence(p)
    PROVE  \/ UNCHANGED <<evidence, source>>
           \/ /\ pub[p].node \in Nodes
              /\ Row(p) \in EvidenceRows /\ Origin(p) \in SourceRows
              /\ evidence' = [evidence EXCEPT ![pub[p].node] = Row(p)]
              /\ source' = [source EXCEPT ![pub[p].node] = Origin(p)]
              /\ pub[p].provider = Tpm => EnrollmentUnchanged(p)
<1>1. /\ pub[p] \in PubHandlers /\ pub[p].node \in Nodes /\ pub[p].provider \in Providers
  BY DEF PutEvidence, PubAt, PubInv, Asked, EnabledProviders, Providers
<1>2. pub[p].at + AcceptedTTL(pub[p].ttl) \in Times
  BY <1>1, TTLBound, EvidenceAssumption DEF PubHandlers, Times
<1>3. enrollment[pub[p].node].rev \in 0..MaxRevision /\ 0 \in 0..MaxRevision
  BY <1>1, EvidenceAssumption DEF TableTypes, EnrollmentRows
<1>4. Row(p) \in EvidenceRows
  BY <1>1, <1>2, <1>3 DEF Row, EvidenceRows, PubHandlers
<1>5. Origin(p) \in SourceRows
  BY <1>1 DEF Origin, SourceRows, PubHandlers
<1>6. \/ UNCHANGED <<evidence, source>>
      \/ /\ evidence' = [evidence EXCEPT ![pub[p].node] = Row(p)]
         /\ source' = [source EXCEPT ![pub[p].node] = Origin(p)]
         /\ pub[p].provider = Tpm => EnrollmentUnchanged(p)
  BY DEF PutEvidence, Row, Origin, Tpm
<1> QED
  BY <1>1, <1>4, <1>5, <1>6

\* Storing evidence: a TPM row comes with the enrollment it was verified under.
LEMMA PutMoves ==
    ASSUME TableTypes, PubInv, NEW p \in Publishers, PutEvidence(p)
    PROVE  TablesMove
<1>0. UNCHANGED <<now, enrollment, policy, publishers>>
  BY DEF PutEvidence
<1>1. CASE UNCHANGED <<evidence, source>>
  BY <1>0, <1>1, TablesRest
<1>2. CASE /\ pub[p].node \in Nodes
           /\ Row(p) \in EvidenceRows /\ Origin(p) \in SourceRows
           /\ evidence' = [evidence EXCEPT ![pub[p].node] = Row(p)]
           /\ source' = [source EXCEPT ![pub[p].node] = Origin(p)]
           /\ pub[p].provider = Tpm => EnrollmentUnchanged(p)
  <2> DEFINE n == pub[p].node
  <2>1. TableTypes' /\ now <= now'
    BY <1>0, <1>2 DEF TableTypes
  <2>2. EnrollmentsKept
    BY <1>0 DEF EnrollmentsKept
  <2>3. \A k \in Nodes : k # n => evidence'[k] = evidence[k] /\ source'[k] = source[k]
    BY <1>2 DEF TableTypes
  <2>4. evidence'[n] = Row(p) /\ source'[n] = Origin(p)
    BY <1>2 DEF TableTypes
  <2>5. pub[p].provider = Tpm =>
           /\ enrollment[n].active /\ pub[p].rev = enrollment[n].rev /\ pub[p].uid = enrollment[n].uid
           /\ pub[p].quote = policy[n]
           /\ pub[p].cert \in publishers[n]
    <3>1. pub[p].pc = "put" /\ Asked(p) /\ Backed(p)
      BY DEF PutEvidence, PubAt, PubInv
    <3> QED
      BY <1>2, <3>1 DEF EnrollmentUnchanged, Asked, Backed
  <2>6. pub[p].provider = Tpm => /\ Row(p).rev = enrollment[n].rev /\ Row(p).uid = pub[p].uid
                                 /\ Origin(p).policy = pub[p].quote /\ Origin(p).cert = pub[p].cert
    BY DEF Row, Origin
  <2>7. pub[p].provider # Tpm => Row(p).provider # Tpm
    BY DEF Row
  <2>8. EvidenceMoves
    <3> HIDE DEF n
    <3> SUFFICES ASSUME NEW k \in Nodes
                 PROVE  \/ evidence'[k].provider # Tpm
                        \/ evidence'[k] = evidence[k] /\ source'[k] = source[k]
                        \/ /\ enrollment'[k].active
                           /\ evidence'[k].rev = enrollment'[k].rev
                           /\ evidence'[k].uid = enrollment'[k].uid
                           /\ source'[k].policy = policy'[k]
                           /\ source'[k].cert \in publishers'[k]
      BY <1>0 DEF EvidenceMoves
    <3>1. CASE k # n
      BY <2>3, <3>1
    <3>2. CASE k = n /\ pub[p].provider # Tpm
      BY <2>4, <2>7, <3>2
    <3>3. CASE k = n /\ pub[p].provider = Tpm
      BY <1>0, <2>4, <2>5, <2>6, <3>3
    <3> QED
      BY <3>1, <3>2, <3>3
  <2> QED
    BY <2>1, <2>2, <2>8 DEF TablesMove
<1> QED
  BY <1>1, <1>2, PutEffect

\* A new row replaces the node's enrollment: evidence and origin are gone.
LEMMA ReplaceMoves ==
    ASSUME TableTypes, NEW n \in Nodes, NEW row \in EnrollmentRows, row.rev > enrollment[n].rev,
           NEW q \in Policies \union {NoPolicy}, NEW certs \in SUBSET Certs,
           enrollment' = [enrollment EXCEPT ![n] = row],
           policy' = [policy EXCEPT ![n] = q],
           publishers' = [publishers EXCEPT ![n] = certs],
           evidence' = [evidence EXCEPT ![n] = NoEvidence],
           source' = [source EXCEPT ![n] = NoSource],
           now' = now
    PROVE  TablesMove
<1>1. TableTypes' /\ now <= now'
  BY EmptyRows DEF TableTypes
<1>2. \A k \in Nodes : k # n => /\ enrollment'[k] = enrollment[k] /\ policy'[k] = policy[k]
                                /\ publishers'[k] = publishers[k]
                                /\ evidence'[k] = evidence[k] /\ source'[k] = source[k]
  BY DEF TableTypes
<1>3. enrollment'[n] = row /\ evidence'[n].provider # Tpm
  BY EmptyRows DEF TableTypes, Tpm
<1>4. EnrollmentsKept /\ EvidenceMoves
  BY <1>2, <1>3 DEF EnrollmentsKept, EvidenceMoves
<1> QED
  BY <1>1, <1>4 DEF TablesMove

\* The row that an administrator's transaction writes.
Enrolled(a) == [rev |-> enrollment[admin[a].node].rev + 1, active |-> TRUE, uid |-> admin[a].uid]
Revoked(a) ==
    LET e == enrollment[admin[a].node] IN [rev |-> e.rev + 1, active |-> FALSE, uid |-> e.uid]

\* EnrollNodeEvidence and RevokeNodeEvidence write the next revision.
LEMMA RevisionMoves ==
    ASSUME TableTypes, AdminInv, NEW a \in Admins, EnrollNodeEvidence(a) \/ RevokeNodeEvidence(a)
    PROVE  /\ TablesMove
           /\ admin[a].node \in Nodes /\ admin[a].pc = "mutate" /\ AdminEnds(a)
           /\ enrollment'[admin[a].node].rev = enrollment[admin[a].node].rev + 1
           /\ \A k \in Nodes : k # admin[a].node => enrollment'[k] = enrollment[k]
<1> DEFINE n == admin[a].node
<1>0. /\ n \in Nodes /\ admin[a] \in AdminHandlers /\ admin[a].pc = "mutate" /\ AdminEnds(a)
      /\ admin[a].kind = "enroll" => admin[a].uid \in Uids
  BY DEF EnrollNodeEvidence, RevokeNodeEvidence, AdminAt, AdminInv, Ordered
<1>1. enrollment[n] \in EnrollmentRows /\ enrollment[n].rev \in 0..MaxRevision
  BY <1>0 DEF TableTypes, EnrollmentRows
<1>2. enrollment[n].rev < MaxRevision
  BY DEF EnrollNodeEvidence, RevokeNodeEvidence, RevisionLeft
<1>3. CASE EnrollNodeEvidence(a)
  <2>1. Enrolled(a) \in EnrollmentRows /\ Enrolled(a).rev = enrollment[n].rev + 1
    BY <1>0, <1>1, <1>2, <1>3, EvidenceAssumption DEF Enrolled, EnrollmentRows, EnrollNodeEvidence
  <2>2. /\ enrollment' = [enrollment EXCEPT ![n] = Enrolled(a)]
        /\ policy' = [policy EXCEPT ![n] = admin[a].policy]
        /\ publishers' = [publishers EXCEPT ![n] = admin[a].certs]
        /\ evidence' = [evidence EXCEPT ![n] = NoEvidence]
        /\ source' = [source EXCEPT ![n] = NoSource]
        /\ now' = now
    BY <1>3 DEF EnrollNodeEvidence, Enrolled
  <2>3. admin[a].policy \in Policies \union {NoPolicy} /\ admin[a].certs \in SUBSET Certs
    BY <1>0 DEF AdminHandlers
  <2>4. Enrolled(a).rev > enrollment[n].rev
    BY <1>1, <2>1
  <2>5. TablesMove
    BY <1>0, <2>1, <2>2, <2>3, <2>4, ReplaceMoves, Zenon
  <2> QED
    BY <1>0, <2>1, <2>2, <2>5 DEF TableTypes
<1>4. CASE RevokeNodeEvidence(a)
  <2>0. enrollment[n].uid \in Uids \union {NoUid}
    BY <1>1 DEF EnrollmentRows
  <2>1. Revoked(a) \in EnrollmentRows /\ Revoked(a).rev = enrollment[n].rev + 1
    BY <1>1, <1>2, <2>0, EvidenceAssumption DEF Revoked, EnrollmentRows
  <2>2. /\ enrollment' = [enrollment EXCEPT ![n] = Revoked(a)]
        /\ policy' = policy /\ publishers' = publishers
        /\ evidence' = [evidence EXCEPT ![n] = NoEvidence]
        /\ source' = [source EXCEPT ![n] = NoSource]
        /\ now' = now
    BY <1>0, <1>1, <1>4 DEF RevokeNodeEvidence, Revoked, TableTypes, EnrollmentRows
  <2>3. /\ policy' = [policy EXCEPT ![n] = policy[n]] /\ policy[n] \in Policies \union {NoPolicy}
        /\ publishers' = [publishers EXCEPT ![n] = publishers[n]] /\ publishers[n] \in SUBSET Certs
    BY <1>0, <2>2 DEF TableTypes
  <2>4. Revoked(a).rev > enrollment[n].rev
    BY <1>1, <2>1
  <2>5. TablesMove
    BY <1>0, <2>1, <2>2, <2>3, <2>4, ReplaceMoves, Zenon
  <2> QED
    BY <1>0, <2>1, <2>2, <2>5 DEF TableTypes
<1> QED
  BY <1>3, <1>4

\* The clock moves, the tables do not.
LEMMA TimeMoves ==
    ASSUME TableTypes, TimePasses
    PROVE  TablesMove
<1>1. TableTypes' /\ now <= now'
  BY EvidenceAssumption DEF TimePasses, Tick, TableTypes
<1>2. EnrollmentsKept /\ EvidenceMoves
  BY DEF TimePasses, Tick, EnrollmentsKept, EvidenceMoves
<1> QED
  BY <1>1, <1>2 DEF TablesMove

\* Every step moves the tables in this way.
LEMMA TablesStep ==
    ASSUME TableTypes, PubInv, AdminInv, NodeNext \/ UNCHANGED nodeVars
    PROVE  TablesMove
<1>1. CASE TimePasses
  BY <1>1, TimeMoves
<1>2. CASE ListNodeEvidence \/ \E p \in Publishers : PruneBeforePut(p)
  <2>1. Prune /\ UNCHANGED <<now, enrollment, policy, publishers>>
    BY <1>2 DEF ListNodeEvidence, PruneBeforePut
  <2> QED
    BY <2>1, PruneMoves
<1>3. CASE \E p \in Publishers : PutEvidence(p)
  BY <1>3, PutMoves
<1>4. CASE \E a \in Admins : EnrollNodeEvidence(a) \/ RevokeNodeEvidence(a)
  BY <1>4, RevisionMoves
<1>5. CASE \/ StopBroker \/ UNCHANGED nodeVars
           \/ \E p \in Publishers :
                 \/ ChallengeNodeEvidence(p) \/ PublishNodeEvidence(p) \/ ReadPublishers(p)
                 \/ CreateChallenge(p) \/ VerifySubmission(p) \/ ConsumeChallenge(p) \/ PublisherFails(p)
           \/ \E a \in Admins : AdminRequest(a) \/ AuditAllow(a) \/ AdminFails(a)
  <2>1. UNCHANGED <<now, enrollment, evidence, policy, publishers, source>>
    BY <1>5, Zenon DEF StopBroker, nodeVars, evidenceVars, tables, ChallengeNodeEvidence, PublishNodeEvidence,
       ReadPublishers, CreateChallenge, VerifySubmission, ConsumeChallenge, PublisherFails,
       AdminRequest, AuditAllow, AdminFails
  <2> QED
    BY <2>1, TablesRest
<1> QED
  BY <1>1, <1>2, <1>3, <1>4, <1>5 DEF NodeNext, PublisherStep, AdminStep

\* Such a move keeps evidence on its enrollment.
LEMMA EvidenceKept ==
    ASSUME EvidenceRestsOnEnrollment, TablesMove
    PROVE  EvidenceRestsOnEnrollment'
  BY DEF EvidenceRestsOnEnrollment, TablesMove, EvidenceMoves, Tpm

--------------------------------------------------------------------------------
(* Publishers *)

\* A handler that rests, whatever the tables do.
LEMMA RestingPublisher ==
    ASSUME TableTypes, TablesMove, NEW p \in Publishers, pub[p] \in PubHandlers, Asked(p), Backed(p),
           pub'[p] = pub[p]
    PROVE  Asked(p)' /\ Backed(p)'
<1>1. now \in Int /\ now' \in Int /\ now <= now' /\ pub[p].at \in Int
  BY EvidenceAssumption DEF TableTypes, TablesMove, PubHandlers
<1>2. Asked(p)'
  BY <1>1 DEF Asked, EnabledProviders
<1>3. Backed(p)'
  <2> SUFFICES ASSUME pub[p].pc # "idle", pub[p].provider = Tpm
               PROVE  /\ pub[p].rev <= enrollment'[pub[p].node].rev
                      /\ pub[p].rev = enrollment'[pub[p].node].rev /\ enrollment'[pub[p].node].active =>
                            /\ pub[p].policy = policy'[pub[p].node]
                            /\ pub[p].pc # "publishers" => pub[p].cert \in publishers'[pub[p].node]
    BY DEF Backed
  <2>1. PICK n \in Nodes : n = pub[p].node
    BY DEF Asked
  <2>2. /\ pub[p].rev \in Int /\ enrollment[n].rev \in Int /\ enrollment'[n].rev \in Int
    BY EvidenceAssumption DEF TablesMove, TableTypes, EnrollmentRows, PubHandlers
  <2> QED
    BY <2>1, <2>2 DEF Backed, TablesMove, EnrollmentsKept
<1> QED
  BY <1>2, <1>3

\* A handler that ends.
LEMMA EndedPublisher ==
    ASSUME pub \in [Publishers -> PubHandlers], NEW p \in Publishers, PubEnds(p)
    PROVE  /\ pub' \in [Publishers -> PubHandlers] /\ Asked(p)' /\ Backed(p)'
           /\ \A q \in Publishers : q # p => pub'[q] = pub[q]
<1>1. IdlePub \in PubHandlers /\ IdlePub.pc = "idle"
  BY EvidenceAssumption DEF IdlePub, PubHandlers, PubPcs
<1>2. pub' = [pub EXCEPT ![p] = IdlePub]
  BY DEF PubEnds
<1> QED
  BY <1>1, <1>2 DEF Asked, Backed

\* One handler moves, the others rest.
LEMMA ActingPublisher ==
    ASSUME TableTypes, PubInv, TablesMove, NEW p \in Publishers,
           NEW r \in PubHandlers, pub' = [pub EXCEPT ![p] = r], Asked(p)', Backed(p)'
    PROVE  PubInv'
<1>1. pub' \in [Publishers -> PubHandlers] /\ \A q \in Publishers : q # p => pub'[q] = pub[q]
  BY DEF PubInv
<1>2. \A q \in Publishers : q # p => Asked(q)' /\ Backed(q)'
  BY <1>1, RestingPublisher DEF PubInv
<1> QED
  BY <1>1, <1>2 DEF PubInv

\* One handler ends, the others rest.
LEMMA EndingPublisher ==
    ASSUME TableTypes, PubInv, TablesMove, NEW p \in Publishers, PubEnds(p)
    PROVE  PubInv'
<1>1. /\ pub' \in [Publishers -> PubHandlers] /\ Asked(p)' /\ Backed(p)'
      /\ \A q \in Publishers : q # p => pub'[q] = pub[q]
  BY EndedPublisher DEF PubInv
<1>2. \A q \in Publishers : q # p => Asked(q)' /\ Backed(q)'
  BY <1>1, RestingPublisher DEF PubInv
<1> QED
  BY <1>1, <1>2 DEF PubInv

\* A handler goes on to its next statement with all it holds.
LEMMA AdvancingPublisher ==
    ASSUME TableTypes, PubInv, TablesMove, NEW p \in Publishers, NEW pc \in PubPcs \ {"idle"},
           pub' = [pub EXCEPT ![p].pc = pc], pub[p].pc # "idle",
           pc \in {"consume", "prune", "put"} => pub[p].pc \in {"consume", "prune", "put"},
           pc = "authorized" /\ pub[p].provider = Tpm =>
                pub[p].cert \in publishers[pub[p].node] /\ publishers' = publishers
    PROVE  PubInv'
<1>1. PICK h \in PubHandlers : h = pub[p]
  BY DEF PubInv
<1>2. PICK r : r = [h EXCEPT !.pc = pc]
  BY Zenon
<1>3. r \in PubHandlers
  BY <1>2, ZenonT(30) DEF PubHandlers
<1>4. /\ r.pc = pc /\ r.kind = h.kind /\ r.node = h.node /\ r.provider = h.provider /\ r.chal = h.chal
      /\ r.at = h.at /\ r.quote = h.quote /\ r.policy = h.policy /\ r.rev = h.rev /\ r.cert = h.cert
  BY <1>2 DEF PubHandlers
<1>5. pub' = [pub EXCEPT ![p] = r] /\ pub'[p] = r
  BY <1>1, <1>2 DEF PubInv
<1>6. Asked(p) /\ Backed(p)
  BY DEF PubInv
<1>7. now \in Int /\ now' \in Int /\ now <= now' /\ h.at \in Int
  BY EvidenceAssumption DEF TableTypes, TablesMove, PubHandlers
<1>8. Asked(p)'
  BY <1>1, <1>4, <1>5, <1>6, <1>7 DEF Asked, EnabledProviders
<1>9. Backed(p)'
  <2> SUFFICES ASSUME h.provider = Tpm
               PROVE  /\ h.rev <= enrollment'[h.node].rev
                      /\ h.rev = enrollment'[h.node].rev /\ enrollment'[h.node].active =>
                            /\ h.policy = policy'[h.node]
                            /\ pc # "publishers" => h.cert \in publishers'[h.node]
    BY <1>4, <1>5, Zenon DEF Backed
  <2>1. PICK n \in Nodes : n = h.node
    BY <1>1, <1>6 DEF Asked
  <2>2. h.rev \in Int /\ enrollment[n].rev \in Int /\ enrollment'[n].rev \in Int
    BY EvidenceAssumption DEF TablesMove, TableTypes, EnrollmentRows, PubHandlers
  <2>3. /\ h.rev <= enrollment[n].rev
        /\ h.rev = enrollment[n].rev /\ enrollment[n].active =>
              /\ h.policy = policy[n]
              /\ h.pc # "publishers" => h.cert \in publishers[n]
    BY <1>1, <1>6, <2>1 DEF Backed
  <2>4. pc # "publishers" => h.pc # "publishers" \/ h.cert \in publishers'[n]
    BY <1>1, <2>1 DEF PubPcs
  <2> QED
    BY <2>1, <2>2, <2>3, <2>4 DEF TablesMove, EnrollmentsKept
<1> QED
  BY <1>3, <1>5, <1>8, <1>9, ActingPublisher, Zenon

\* A request is authorized against the enrollment it reads.
LEMMA RequestRead ==
    ASSUME TableTypes, PubInv, TablesMove, NEW p \in Publishers, NEW q \in PubHandlers,
           q.node \in Nodes, q.provider \in EnabledProviders, q.kind \in {"challenge", "publish"},
           q.kind = "publish" => q.chal \in Challenges,
           ReadEnrollment(p, q), UNCHANGED <<enrollment, policy, publishers>>
    PROVE  PubInv'
<1>1. enrollment[q.node] \in EnrollmentRows /\ enrollment[q.node].rev \in 0..MaxRevision
      /\ policy[q.node] \in Policies \union {NoPolicy}
  BY DEF TableTypes, EnrollmentRows
<1>2. CASE /\ q.provider = Tpm
           /\ pub' = [pub EXCEPT ![p] = [q EXCEPT !.pc = "publishers",
                    !.rev = enrollment[q.node].rev, !.policy = policy[q.node]]]
  <2>1. PICK r : r = [q EXCEPT !.pc = "publishers", !.rev = enrollment[q.node].rev, !.policy = policy[q.node]]
    OBVIOUS
  <2>2. r \in PubHandlers
    BY <1>1, <2>1, ZenonT(30) DEF PubHandlers, PubPcs
  <2>3. /\ r.pc = "publishers" /\ r.kind = q.kind /\ r.node = q.node /\ r.provider = q.provider
        /\ r.chal = q.chal /\ r.rev = enrollment[q.node].rev /\ r.policy = policy[q.node]
    BY <2>1 DEF PubHandlers
  <2>4. pub' = [pub EXCEPT ![p] = r] /\ pub'[p] = r
    BY <1>2, <2>1 DEF PubInv
  <2>5. Asked(p)'
    BY <2>3, <2>4 DEF Asked, EnabledProviders
  <2>6. Backed(p)'
    BY <1>1, <2>3, <2>4, EvidenceAssumption DEF Backed
  <2> QED
    BY <2>2, <2>4, <2>5, <2>6, ActingPublisher, Zenon
<1>3. CASE /\ q.provider # Tpm
           /\ pub' = [pub EXCEPT ![p] = [q EXCEPT !.pc = "authorized", !.cert = NoCert]]
  <2>1. PICK r : r = [q EXCEPT !.pc = "authorized", !.cert = NoCert]
    OBVIOUS
  <2>2. r \in PubHandlers
    BY <2>1, ZenonT(30) DEF PubHandlers, PubPcs
  <2>3. /\ r.pc = "authorized" /\ r.kind = q.kind /\ r.node = q.node /\ r.provider = q.provider
        /\ r.chal = q.chal
    BY <2>1 DEF PubHandlers
  <2>4. pub' = [pub EXCEPT ![p] = r] /\ pub'[p] = r
    BY <1>3, <2>1 DEF PubInv
  <2>5. Asked(p)'
    BY <2>3, <2>4 DEF Asked, EnabledProviders
  <2>6. Backed(p)'
    BY <1>3, <2>3, <2>4 DEF Backed
  <2> QED
    BY <2>2, <2>4, <2>5, <2>6, ActingPublisher, Zenon
<1> QED
  BY <1>2, <1>3 DEF ReadEnrollment, Tpm

\* The handlers of the two calls start with such a request.
LEMMA PublisherStarts ==
    ASSUME TableTypes, PubInv, TablesMove, NEW p \in Publishers,
           ChallengeNodeEvidence(p) \/ PublishNodeEvidence(p)
    PROVE  PubInv'
<1>0. UNCHANGED <<enrollment, policy, publishers>>
  BY Zenon DEF ChallengeNodeEvidence, PublishNodeEvidence, tables, evidenceVars
<1>1. IdlePub \in PubHandlers
  BY EvidenceAssumption DEF IdlePub, PubHandlers, PubPcs
<1>e. EnabledProviders \subseteq Providers
  BY DEF EnabledProviders, Providers
<1>2. CASE ChallengeNodeEvidence(p)
  <2>1. PICK n \in Nodes, u \in Uids \union {NoUid}, prov \in EnabledProviders, cert \in Certs :
           ReadEnrollment(p, [IdlePub EXCEPT !.kind = "challenge", !.node = n, !.uid = u,
                                             !.provider = prov, !.cert = cert])
    BY <1>2, Zenon DEF ChallengeNodeEvidence
  <2>2. PICK q : q = [IdlePub EXCEPT !.kind = "challenge", !.node = n, !.uid = u,
                                     !.provider = prov, !.cert = cert]
    OBVIOUS
  <2>3. q \in PubHandlers
    BY <1>1, <1>e, <2>2, ZenonT(30) DEF PubHandlers
  <2>4. q.node = n /\ q.provider = prov /\ q.kind = "challenge"
    BY <1>1, <2>2 DEF PubHandlers
  <2> QED
    BY <1>0, <2>1, <2>2, <2>3, <2>4, RequestRead, Zenon
<1>3. CASE PublishNodeEvidence(p)
  <2>1. PICK n \in Nodes, u \in Uids \union {NoUid}, prov \in EnabledProviders, cert \in Certs,
             c \in Challenges, ttl \in 1..(EvidenceTTL + 1), s \in Policies :
           ReadEnrollment(p, [IdlePub EXCEPT !.kind = "publish", !.node = n, !.uid = u,
                                             !.provider = prov, !.cert = cert, !.chal = c,
                                             !.ttl = ttl, !.quote = s])
    BY <1>3, Zenon DEF PublishNodeEvidence
  <2>2. PICK q : q = [IdlePub EXCEPT !.kind = "publish", !.node = n, !.uid = u,
                                     !.provider = prov, !.cert = cert, !.chal = c,
                                     !.ttl = ttl, !.quote = s]
    OBVIOUS
  <2>t. ttl \in 0..(EvidenceTTL + 1)
    BY EvidenceAssumption
  <2>3. q \in PubHandlers
    BY <1>1, <1>e, <2>2, <2>t, ZenonT(30) DEF PubHandlers
  <2>4. q.node = n /\ q.provider = prov /\ q.kind = "publish" /\ q.chal = c
    BY <1>1, <2>2 DEF PubHandlers
  <2> QED
    BY <1>0, <2>1, <2>2, <2>3, <2>4, RequestRead, Zenon
<1> QED
  BY <1>2, <1>3

\* The second half of a handler: certificates, quote, challenge, prune, put.
LEMMA PublisherVerifies ==
    ASSUME TableTypes, PubInv, TablesMove, NEW p \in Publishers, VerifySubmission(p)
    PROVE  PubInv'
<1>1. CASE PubEnds(p)
  BY <1>1, EndingPublisher
<1>2. CASE /\ pub[p].provider = "generic-tpm2-quote" => pub[p].quote = pub[p].policy
           /\ pub' = [pub EXCEPT ![p].pc = "consume", ![p].at = now]
  <2>1. PICK h \in PubHandlers : h = pub[p]
    BY DEF PubInv
  <2>2. PICK r : r = [h EXCEPT !.pc = "consume", !.at = now]
    OBVIOUS
  <2>3. r \in PubHandlers
    BY <2>2, ZenonT(30) DEF PubHandlers, PubPcs, TableTypes
  <2>4. /\ r.pc = "consume" /\ r.kind = h.kind /\ r.node = h.node /\ r.provider = h.provider
        /\ r.chal = h.chal /\ r.at = now /\ r.quote = h.quote /\ r.policy = h.policy
        /\ r.rev = h.rev /\ r.cert = h.cert
    BY <2>2 DEF PubHandlers
  <2>5. pub' = [pub EXCEPT ![p] = r] /\ pub'[p] = r
    BY <1>2, <2>1, <2>2, Zenon DEF PubInv
  <2>6. /\ Asked(p) /\ Backed(p) /\ h.pc = "authorized" /\ h.kind = "publish"
        /\ UNCHANGED <<now, enrollment, policy, publishers>>
    BY <2>1 DEF PubInv, VerifySubmission, PubAt, tables, evidenceVars
  <2>7. now <= now'
    BY DEF TablesMove
  <2>8. Asked(p)'
    BY <1>2, <2>1, <2>4, <2>5, <2>6, <2>7 DEF Asked, EnabledProviders, Tpm
  <2>9. Backed(p)'
    BY <2>1, <2>4, <2>5, <2>6 DEF Backed
  <2> QED
    BY <2>3, <2>5, <2>8, <2>9, ActingPublisher, Zenon
<1> QED
  BY <1>1, <1>2 DEF VerifySubmission

\* A step keeps the publishers' invariant.
LEMMA PublishersStep ==
    ASSUME TableTypes, PubInv, TablesMove, NodeNext \/ UNCHANGED nodeVars
    PROVE  PubInv'
<1>1. CASE UNCHANGED pub
  <2>1. \A q \in Publishers : Asked(q)' /\ Backed(q)'
    BY <1>1, RestingPublisher DEF PubInv
  <2> QED
    BY <1>1, <2>1 DEF PubInv
<1>2. CASE StopBroker
  <2>1. IdlePub \in PubHandlers /\ IdlePub.pc = "idle"
    BY EvidenceAssumption DEF IdlePub, PubHandlers, PubPcs
  <2> QED
    BY <1>2, <2>1 DEF StopBroker, PubInv, Asked, Backed
<1>3. ASSUME NEW p \in Publishers, ChallengeNodeEvidence(p) \/ PublishNodeEvidence(p)
      PROVE  PubInv'
  BY <1>3, PublisherStarts
<1>4. ASSUME NEW p \in Publishers, VerifySubmission(p)
      PROVE  PubInv'
  BY <1>4, PublisherVerifies
<1>5. ASSUME NEW p \in Publishers, CreateChallenge(p) \/ PutEvidence(p) \/ PublisherFails(p)
      PROVE  PubInv'
  BY <1>5, EndingPublisher DEF CreateChallenge, PutEvidence, PublisherFails
<1>6. ASSUME NEW p \in Publishers, ReadPublishers(p)
      PROVE  PubInv'
  <2>1. CASE PubEnds(p)
    BY <2>1, EndingPublisher
  <2>2. CASE pub[p].cert \in publishers[pub[p].node] /\ pub' = [pub EXCEPT ![p].pc = "authorized"]
    <3>1. pub[p].pc = "publishers" /\ publishers' = publishers /\ "authorized" \in PubPcs \ {"idle"}
      BY <1>6 DEF ReadPublishers, PubAt, tables, PubPcs
    <3> QED
      BY <2>2, <3>1, AdvancingPublisher, Zenon
  <2> QED
    BY <1>6, <2>1, <2>2 DEF ReadPublishers
<1>7. ASSUME NEW p \in Publishers, ConsumeChallenge(p)
      PROVE  PubInv'
  <2>1. CASE PubEnds(p)
    BY <2>1, EndingPublisher
  <2>2. CASE pub' = [pub EXCEPT ![p].pc = "prune"]
    <3>1. pub[p].pc = "consume" /\ "prune" \in PubPcs \ {"idle"}
      BY <1>7 DEF ConsumeChallenge, PubAt, PubPcs
    <3> QED
      BY <2>2, <3>1, AdvancingPublisher, Zenon
  <2> QED
    BY <1>7, <2>1, <2>2 DEF ConsumeChallenge
<1>8. ASSUME NEW p \in Publishers, PruneBeforePut(p)
      PROVE  PubInv'
  <2>1. /\ pub[p].pc = "prune" /\ "put" \in PubPcs \ {"idle"} /\ pub' = [pub EXCEPT ![p].pc = "put"]
    BY <1>8 DEF PruneBeforePut, PubAt, PubPcs
  <2> QED
    BY <2>1, AdvancingPublisher, Zenon
<1>9. CASE \/ TimePasses \/ ListNodeEvidence \/ UNCHANGED nodeVars
           \/ \E a \in Admins : \/ AdminRequest(a) \/ AuditAllow(a) \/ EnrollNodeEvidence(a)
                                \/ RevokeNodeEvidence(a) \/ AdminFails(a)
  BY <1>1, <1>9, Zenon DEF TimePasses, ListNodeEvidence, nodeVars, AdminRequest, AuditAllow,
     EnrollNodeEvidence, RevokeNodeEvidence, AdminFails
<1> QED
  BY <1>2, <1>3, <1>4, <1>5, <1>6, <1>7, <1>8, <1>9 DEF NodeNext, PublisherStep, AdminStep

--------------------------------------------------------------------------------
(* Administrators, challenges and the audit *)

\* One administrator's handler moves, the others rest.
LEMMA ActingAdmin ==
    ASSUME AdminInv, NEW a \in Admins, NEW r \in AdminHandlers, admin' = [admin EXCEPT ![a] = r],
           r.pc # "idle" => r.node \in Nodes /\ (r.kind = "enroll" => r.uid \in Uids)
    PROVE  AdminInv'
<1>1. admin' \in [Admins -> AdminHandlers] /\ admin'[a] = r
      /\ \A b \in Admins : b # a => admin'[b] = admin[b]
  BY DEF AdminInv
<1>2. \A b \in Admins : Ordered(b)'
  BY <1>1 DEF AdminInv, Ordered
<1> QED
  BY <1>1, <1>2 DEF AdminInv

\* The idle handler has the type of a handler.
LEMMA IdleAdminType ==
    IdleAdmin \in AdminHandlers /\ IdleAdmin.pc = "idle"
  BY DEF IdleAdmin, AdminHandlers, AdminPcs

\* A handler whose event was written goes on to the next sink or to the change.
LEMMA AuditKeepsAdmins ==
    ASSUME AdminInv, NEW a \in Admins, AuditAllow(a)
    PROVE  AdminInv'
<1>1. PICK s \in Sinks, written \in BOOLEAN :
         LET next == AfterSink(IF s = "sqlite" THEN "file" ELSE "mutate", written) IN
         /\ AdminAt(a, s)
         /\ admin' = [admin EXCEPT ![a] = IF next = "idle" THEN IdleAdmin ELSE [@ EXCEPT !.pc = next]]
  BY Zenon DEF AuditAllow
<1>2. PICK h \in AdminHandlers : h = admin[a]
  BY DEF AdminInv
<1>3. PICK next \in AdminPcs :
         admin' = [admin EXCEPT ![a] = IF next = "idle" THEN IdleAdmin ELSE [h EXCEPT !.pc = next]]
  BY <1>1, <1>2, Zenon DEF AfterSink, AdminPcs, AdminInv
<1>4. [h EXCEPT !.pc = next] \in AdminHandlers
  BY ZenonT(30) DEF AdminHandlers
<1>5. /\ [h EXCEPT !.pc = next].node = h.node /\ [h EXCEPT !.pc = next].kind = h.kind
      /\ [h EXCEPT !.pc = next].uid = h.uid
  BY DEF AdminHandlers
<1>6. h.node \in Nodes /\ (h.kind = "enroll" => h.uid \in Uids)
  BY <1>1, <1>2 DEF AdminInv, Ordered, AdminAt, Sinks
<1>7. CASE next = "idle"
  BY <1>3, <1>7, IdleAdminType, ActingAdmin, Zenon
<1>8. CASE next # "idle"
  BY <1>3, <1>4, <1>5, <1>6, <1>8, ActingAdmin, Zenon
<1> QED
  BY <1>7, <1>8

\* A step keeps the administrators' invariant.
LEMMA AdminsStep ==
    ASSUME AdminInv, NodeNext \/ UNCHANGED nodeVars
    PROVE  AdminInv'
<1>1. CASE UNCHANGED admin
  BY <1>1 DEF AdminInv, Ordered
<1>2. CASE StopBroker
  BY <1>2, IdleAdminType DEF StopBroker, AdminInv, Ordered
<1>3. ASSUME NEW a \in Admins, AdminRequest(a)
      PROVE  AdminInv'
  <2>1. PICK n \in Nodes, u \in Uids, q \in Policies, certs \in SUBSET Certs \ {{}} :
          \/ admin' = [admin EXCEPT ![a] =
                [pc |-> "sqlite", kind |-> "enroll", node |-> n, uid |-> u,
                 policy |-> q, certs |-> certs]]
          \/ admin' = [admin EXCEPT ![a] =
                [IdleAdmin EXCEPT !.pc = "sqlite", !.kind = "revoke", !.node = n]]
    BY <1>3, Zenon DEF AdminRequest
  <2>2. CASE admin' = [admin EXCEPT ![a] =
                [pc |-> "sqlite", kind |-> "enroll", node |-> n, uid |-> u, policy |-> q, certs |-> certs]]
    <3>1. [pc |-> "sqlite", kind |-> "enroll", node |-> n, uid |-> u, policy |-> q, certs |-> certs]
             \in AdminHandlers
      BY DEF AdminHandlers, AdminPcs
    <3> QED
      BY <2>2, <3>1, ActingAdmin, Zenon
  <2>3. CASE admin' = [admin EXCEPT ![a] =
                [IdleAdmin EXCEPT !.pc = "sqlite", !.kind = "revoke", !.node = n]]
    <3>1. PICK r : r = [IdleAdmin EXCEPT !.pc = "sqlite", !.kind = "revoke", !.node = n]
      OBVIOUS
    <3>2. r \in AdminHandlers
      BY <3>1, IdleAdminType, ZenonT(30) DEF AdminHandlers, AdminPcs
    <3>3. r.node = n /\ r.kind = "revoke"
      BY <3>1, IdleAdminType DEF AdminHandlers
    <3> QED
      BY <2>3, <3>1, <3>2, <3>3, ActingAdmin, Zenon
  <2> QED
    BY <2>1, <2>2, <2>3
<1>4. ASSUME NEW a \in Admins, AuditAllow(a)
      PROVE  AdminInv'
  BY <1>4, AuditKeepsAdmins
<1>5. ASSUME NEW a \in Admins, EnrollNodeEvidence(a) \/ RevokeNodeEvidence(a) \/ AdminFails(a)
      PROVE  AdminInv'
  <2>1. admin' = [admin EXCEPT ![a] = IdleAdmin]
    BY <1>5 DEF EnrollNodeEvidence, RevokeNodeEvidence, AdminFails, AdminEnds
  <2> QED
    BY <2>1, IdleAdminType, ActingAdmin, Zenon
<1>6. CASE \/ TimePasses \/ ListNodeEvidence \/ UNCHANGED nodeVars
           \/ \E p \in Publishers :
                 \/ ChallengeNodeEvidence(p) \/ PublishNodeEvidence(p) \/ ReadPublishers(p)
                 \/ CreateChallenge(p) \/ VerifySubmission(p) \/ ConsumeChallenge(p)
                 \/ PruneBeforePut(p) \/ PutEvidence(p) \/ PublisherFails(p)
  BY <1>1, <1>6, Zenon DEF TimePasses, ListNodeEvidence, nodeVars, ChallengeNodeEvidence, PublishNodeEvidence,
     ReadPublishers, CreateChallenge, VerifySubmission, ConsumeChallenge, PruneBeforePut, PutEvidence,
     PublisherFails
<1> QED
  BY <1>2, <1>3, <1>4, <1>5, <1>6 DEF NodeNext, PublisherStep, AdminStep

\* A challenge is created unused and used when it is spent.
LEMMA ChallengesStep ==
    ASSUME TableTypes, PubInv, ChallengesInv, NodeNext \/ UNCHANGED nodeVars
    PROVE  ChallengesInv'
<1>1. CASE UNCHANGED challenges
  BY <1>1 DEF ChallengesInv, PublishChallengeSingleUse
<1>2. ASSUME NEW p \in Publishers, CreateChallenge(p)
      PROVE  ChallengesInv'
  <2>1. PICK c \in Challenges :
           challenges' = [challenges EXCEPT ![c] =
                [status |-> "open", node |-> pub[p].node, uid |-> pub[p].uid,
                 provider |-> pub[p].provider, cert |-> pub[p].cert,
                 expires |-> now + ChallengeTTL, uses |-> 0]]
    BY <1>2, Zenon DEF CreateChallenge
  <2>2. PICK r : r = [status |-> "open", node |-> pub[p].node, uid |-> pub[p].uid,
                      provider |-> pub[p].provider, cert |-> pub[p].cert,
                      expires |-> now + ChallengeTTL, uses |-> 0]
    BY Zenon
  <2>3. now + ChallengeTTL \in 0..(MaxTime + ChallengeTTL)
    BY EvidenceAssumption, NodeEvidenceAssumption DEF TableTypes
  <2>4. r \in ChallengeRows /\ r.uses = 0 /\ r.status = "open"
    BY <2>2, <2>3 DEF PubInv, PubHandlers, ChallengeRows
  <2> QED
    BY <2>1, <2>2, <2>4 DEF ChallengesInv, PublishChallengeSingleUse
<1>3. ASSUME NEW p \in Publishers, ConsumeChallenge(p)
      PROVE  ChallengesInv'
  <2>1. CASE ~Consumable(p)
    BY <1>1, <1>3, <2>1 DEF ConsumeChallenge
  <2>2. CASE Consumable(p)
    <3>1. PICK c \in Challenges : c = pub[p].chal
      BY <1>3 DEF ConsumeChallenge, PubAt, PubInv, Asked
    <3>2. challenges[c].status = "open" /\ challenges[c] \in ChallengeRows
      BY <2>2, <3>1 DEF Consumable, ValidChallenge, ChallengesInv
    <3>3. challenges[c].uses = 0
      BY <3>2 DEF ChallengesInv, PublishChallengeSingleUse
    <3>4. PICK r : r = [challenges[c] EXCEPT !.status = "spent", !.uses = challenges[c].uses + 1]
      OBVIOUS
    <3>5. challenges' = [challenges EXCEPT ![c] = r]
      BY <1>3, <2>2, <3>1, <3>2, <3>4 DEF ConsumeChallenge, ChallengesInv, ChallengeRows
    <3>6. r.status = "spent" /\ r.uses = 1
      BY <3>2, <3>3, <3>4 DEF ChallengeRows
    <3>7. r \in ChallengeRows
      <4>1. challenges[c].uses + 1 \in Nat
        BY <3>3
      <4> QED
        BY <3>2, <3>4, <4>1, ZenonT(30) DEF ChallengeRows
    <3> QED
      BY <3>5, <3>6, <3>7 DEF ChallengesInv, PublishChallengeSingleUse
  <2> QED
    BY <2>1, <2>2
<1>4. CASE \/ TimePasses \/ StopBroker \/ ListNodeEvidence \/ UNCHANGED nodeVars
           \/ \E p \in Publishers :
                 \/ ChallengeNodeEvidence(p) \/ PublishNodeEvidence(p) \/ ReadPublishers(p)
                 \/ VerifySubmission(p) \/ PruneBeforePut(p) \/ PutEvidence(p) \/ PublisherFails(p)
           \/ \E a \in Admins :
                 \/ AdminRequest(a) \/ AuditAllow(a) \/ EnrollNodeEvidence(a)
                 \/ RevokeNodeEvidence(a) \/ AdminFails(a)
  BY <1>1, <1>4, ZenonT(30) DEF TimePasses, StopBroker, ListNodeEvidence, nodeVars, ChallengeNodeEvidence,
     PublishNodeEvidence, ReadPublishers, VerifySubmission, PruneBeforePut, PutEvidence, PublisherFails,
     AdminRequest, AuditAllow, EnrollNodeEvidence, RevokeNodeEvidence, AdminFails
<1> QED
  BY <1>2, <1>3, <1>4 DEF NodeNext, PublisherStep, AdminStep

\* Fewer changes are about to come, none was made.
LEMMA AuditShrinks ==
    ASSUME TableTypes, AuditInv, UNCHANGED <<enrollment, allowed>>,
           \A s \in Sinks, n \in Nodes : Announced(s, n)' \subseteq Announced(s, n)
    PROVE  AuditInv'
<1>1. ASSUME NEW s \in Sinks, NEW n \in Nodes
      PROVE  /\ IsFiniteSet(Announced(s, n)')
             /\ enrollment[n].rev + Cardinality(Announced(s, n)') <= allowed[s][n]
  <2>1. /\ IsFiniteSet(Announced(s, n)') /\ IsFiniteSet(Announced(s, n))
        /\ Cardinality(Announced(s, n)') <= Cardinality(Announced(s, n))
    BY FS_Subset DEF AuditInv
  <2>2. Cardinality(Announced(s, n)') \in Nat /\ Cardinality(Announced(s, n)) \in Nat
    BY <2>1, FS_CardinalityType
  <2>3. enrollment[n].rev \in Int /\ allowed[s][n] \in Int
    BY EvidenceAssumption, NodeEvidenceAssumption DEF TableTypes, EnrollmentRows, AuditInv
  <2> QED
    BY <2>1, <2>2, <2>3 DEF AuditInv
<1> QED
  BY <1>1 DEF AuditInv

\* An event is written before the change it announces.
LEMMA AuditWrites ==
    ASSUME TableTypes, AdminInv, AuditInv, NEW a \in Admins, AuditAllow(a)
    PROVE  AuditInv'
<1>1. PICK s0 \in Sinks, written \in BOOLEAN :
         LET next == AfterSink(IF s0 = "sqlite" THEN "file" ELSE "mutate", written) IN
         /\ AdminAt(a, s0)
         /\ allowed[s0][admin[a].node] < MaxAudits
         /\ IF written
            THEN allowed' = [allowed EXCEPT ![s0][admin[a].node] = @ + 1]
            ELSE UNCHANGED allowed
         /\ admin' = [admin EXCEPT ![a] = IF next = "idle" THEN IdleAdmin ELSE [@ EXCEPT !.pc = next]]
         /\ UNCHANGED enrollment
  BY Zenon DEF AuditAllow, tables, evidenceVars
<1>2. PICK h \in AdminHandlers : h = admin[a]
  BY DEF AdminInv
<1>3. h.node \in Nodes /\ h.pc = s0
  BY <1>1, <1>2 DEF AdminInv, Ordered, AdminAt, Sinks
<1>4. \A b \in Admins : b # a => admin'[b] = admin[b]
  BY <1>1 DEF AdminInv
<1>5. CASE ~written
  <2>1. admin'[a] = IdleAdmin
    BY <1>1, <1>5 DEF AfterSink, AdminInv
  <2>2. \A s \in Sinks, n \in Nodes : Announced(s, n)' \subseteq Announced(s, n)
    BY <1>4, <2>1, IdleAdminType DEF Announced, Past
  <2> QED
    BY <1>1, <1>5, <2>2, AuditShrinks
<1>6. CASE written
  <2>1. PICK next : next = IF s0 = "sqlite" THEN "file" ELSE "mutate"
    OBVIOUS
  <2>2. admin'[a] = [h EXCEPT !.pc = next]
    BY <1>1, <1>2, <1>6, <2>1 DEF AfterSink, AdminInv
  <2>3. admin'[a].node = h.node /\ admin'[a].pc = next
    BY <2>2 DEF AdminHandlers
  <2>4. allowed' = [allowed EXCEPT ![s0][h.node] = @ + 1]
    BY <1>1, <1>2, <1>6
  <2>5. allowed[s0][h.node] \in 0..MaxAudits /\ allowed[s0][h.node] < MaxAudits
    BY <1>1, <1>2, <1>3 DEF AuditInv
  <2>6. allowed' \in [Sinks -> [Nodes -> 0..MaxAudits]]
    <3>1. allowed[s0][h.node] + 1 \in 0..MaxAudits
      BY <2>5, NodeEvidenceAssumption
    <3>2. [allowed[s0] EXCEPT ![h.node] = allowed[s0][h.node] + 1] \in [Nodes -> 0..MaxAudits]
      BY <1>3, <3>1 DEF AuditInv
    <3>3. allowed' = [allowed EXCEPT ![s0] = [allowed[s0] EXCEPT ![h.node] = allowed[s0][h.node] + 1]]
      BY <2>4
    <3> QED
      BY <3>2, <3>3 DEF AuditInv
  <2>7. ASSUME NEW s \in Sinks, NEW n \in Nodes, s = s0, n = h.node
        PROVE  /\ IsFiniteSet(Announced(s, n)')
               /\ enrollment[n].rev + Cardinality(Announced(s, n)') <= allowed'[s][n]
    <3>1. Announced(s, n)' = Announced(s, n) \union {a} /\ a \notin Announced(s, n)
      BY <1>2, <1>3, <1>4, <2>1, <2>3, <2>7 DEF Announced, Past, Sinks
    <3>2. IsFiniteSet(Announced(s, n)) /\ enrollment[n].rev + Cardinality(Announced(s, n)) <= allowed[s][n]
      BY DEF AuditInv
    <3>3. IsFiniteSet(Announced(s, n)') /\ Cardinality(Announced(s, n)') = Cardinality(Announced(s, n)) + 1
      BY <3>1, <3>2, FS_AddElement
    <3>4. Cardinality(Announced(s, n)) \in Nat
      BY <3>2, FS_CardinalityType
    <3>5. allowed'[s][n] = allowed[s][n] + 1
      BY <1>3, <2>4, <2>7 DEF AuditInv
    <3>6. enrollment[n].rev \in Int /\ allowed[s][n] \in Int
      BY EvidenceAssumption, NodeEvidenceAssumption DEF TableTypes, EnrollmentRows, AuditInv
    <3> QED
      BY <3>2, <3>3, <3>4, <3>5, <3>6
  <2>8. ASSUME NEW s \in Sinks, NEW n \in Nodes, s # s0 \/ n # h.node
        PROVE  /\ IsFiniteSet(Announced(s, n)')
               /\ enrollment[n].rev + Cardinality(Announced(s, n)') <= allowed'[s][n]
    <3>1. Announced(s, n)' = Announced(s, n)
      BY <1>2, <1>3, <1>4, <2>1, <2>3, <2>8 DEF Announced, Past, Sinks
    <3>2. allowed'[s][n] = allowed[s][n]
      BY <1>3, <2>4, <2>8 DEF AuditInv
    <3> QED
      BY <3>1, <3>2 DEF AuditInv
  <2> QED
    BY <1>1, <2>6, <2>7, <2>8 DEF AuditInv
<1> QED
  BY <1>5, <1>6

\* A change uses up the event that announced it.
LEMMA AuditUsed ==
    ASSUME TableTypes, AdminInv, AuditInv, NEW a \in Admins, EnrollNodeEvidence(a) \/ RevokeNodeEvidence(a)
    PROVE  AuditInv'
<1>1. PICK m \in Nodes : m = admin[a].node
  BY RevisionMoves
<1>2. /\ admin[a].pc = "mutate" /\ AdminEnds(a)
      /\ enrollment'[m].rev = enrollment[m].rev + 1
      /\ \A k \in Nodes : k # m => enrollment'[k] = enrollment[k]
  BY <1>1, RevisionMoves
<1>3. UNCHANGED allowed
  BY DEF EnrollNodeEvidence, RevokeNodeEvidence
<1>4. admin'[a] = IdleAdmin /\ \A b \in Admins : b # a => admin'[b] = admin[b]
  BY <1>2 DEF AdminEnds, AdminInv
<1>5. ASSUME NEW s \in Sinks
      PROVE  /\ IsFiniteSet(Announced(s, m)')
             /\ enrollment'[m].rev + Cardinality(Announced(s, m)') <= allowed[s][m]
  <2>1. Announced(s, m)' = Announced(s, m) \ {a} /\ a \in Announced(s, m)
    BY <1>1, <1>2, <1>4, IdleAdminType DEF Announced, Past
  <2>2. IsFiniteSet(Announced(s, m)) /\ enrollment[m].rev + Cardinality(Announced(s, m)) <= allowed[s][m]
    BY DEF AuditInv
  <2>3. IsFiniteSet(Announced(s, m)') /\ Cardinality(Announced(s, m)') = Cardinality(Announced(s, m)) - 1
    BY <2>1, <2>2, FS_RemoveElement
  <2>4. Cardinality(Announced(s, m)) \in Nat
    BY <2>2, FS_CardinalityType
  <2>5. enrollment[m].rev \in Int /\ allowed[s][m] \in Int
    BY EvidenceAssumption, NodeEvidenceAssumption DEF TableTypes, EnrollmentRows, AuditInv
  <2> QED
    BY <1>2, <2>2, <2>3, <2>4, <2>5
<1>6. ASSUME NEW s \in Sinks, NEW n \in Nodes, n # m
      PROVE  /\ IsFiniteSet(Announced(s, n)')
             /\ enrollment'[n].rev + Cardinality(Announced(s, n)') <= allowed[s][n]
  <2>1. Announced(s, n)' = Announced(s, n)
    BY <1>1, <1>4, <1>6, IdleAdminType DEF Announced, Past
  <2> QED
    BY <1>2, <1>6, <2>1 DEF AuditInv
<1> QED
  BY <1>3, <1>5, <1>6 DEF AuditInv

\* A step keeps the audit ahead of the revisions.
LEMMA AuditStep ==
    ASSUME TableTypes, AdminInv, AuditInv, NodeNext \/ UNCHANGED nodeVars
    PROVE  AuditInv'
<1>1. CASE UNCHANGED <<admin, enrollment, allowed>>
  <2>1. \A s \in Sinks, n \in Nodes : Announced(s, n)' \subseteq Announced(s, n)
    BY <1>1 DEF Announced
  <2> QED
    BY <1>1, <2>1, AuditShrinks
<1>2. CASE StopBroker
  <2>1. UNCHANGED <<enrollment, allowed>> /\ \A b \in Admins : admin'[b].pc = "idle"
    BY <1>2, IdleAdminType DEF StopBroker, tables, evidenceVars
  <2>2. \A s \in Sinks, n \in Nodes : Announced(s, n)' \subseteq Announced(s, n)
    BY <2>1 DEF Announced, Past
  <2> QED
    BY <2>1, <2>2, AuditShrinks
<1>3. ASSUME NEW a \in Admins, AdminRequest(a) \/ AdminFails(a)
      PROVE  AuditInv'
  <2>1. UNCHANGED <<enrollment, allowed>>
    BY <1>3, Zenon DEF AdminRequest, AdminFails, tables, evidenceVars
  <2>2. PICK r : admin' = [admin EXCEPT ![a] = r] /\ r.pc \in {"idle", "sqlite"}
    <3>1. CASE AdminFails(a)
      BY <3>1, IdleAdminType, Zenon DEF AdminFails, AdminEnds
    <3>2. CASE AdminRequest(a)
      <4>1. \A n : [IdleAdmin EXCEPT !.pc = "sqlite", !.kind = "revoke", !.node = n].pc = "sqlite"
        BY DEF IdleAdmin
      <4>2. PICK n \in Nodes, u \in Uids, q \in Policies, certs \in SUBSET Certs \ {{}} :
               \/ admin' = [admin EXCEPT ![a] =
                     [pc |-> "sqlite", kind |-> "enroll", node |-> n, uid |-> u,
                      policy |-> q, certs |-> certs]]
               \/ admin' = [admin EXCEPT ![a] =
                     [IdleAdmin EXCEPT !.pc = "sqlite", !.kind = "revoke", !.node = n]]
        BY <3>2, Zenon DEF AdminRequest
      <4>3. CASE admin' = [admin EXCEPT ![a] =
                     [pc |-> "sqlite", kind |-> "enroll", node |-> n, uid |-> u,
                      policy |-> q, certs |-> certs]]
        <5>1. [pc |-> "sqlite", kind |-> "enroll", node |-> n, uid |-> u,
               policy |-> q, certs |-> certs].pc = "sqlite"
          OBVIOUS
        <5> QED
          BY <4>3, <5>1, Zenon
      <4>4. CASE admin' = [admin EXCEPT ![a] =
                     [IdleAdmin EXCEPT !.pc = "sqlite", !.kind = "revoke", !.node = n]]
        BY <4>1, <4>4, Zenon
      <4> QED
        BY <4>2, <4>3, <4>4
    <3> QED
      BY <1>3, <3>1, <3>2
  <2>3. \A s \in Sinks, n \in Nodes : Announced(s, n)' \subseteq Announced(s, n)
    BY <2>2 DEF Announced, Past, AdminInv
  <2> QED
    BY <2>1, <2>3, AuditShrinks
<1>4. ASSUME NEW a \in Admins, AuditAllow(a)
      PROVE  AuditInv'
  BY <1>4, AuditWrites
<1>5. ASSUME NEW a \in Admins, EnrollNodeEvidence(a) \/ RevokeNodeEvidence(a)
      PROVE  AuditInv'
  BY <1>5, AuditUsed
<1>6. CASE \/ TimePasses \/ ListNodeEvidence \/ UNCHANGED nodeVars
           \/ \E p \in Publishers :
                 \/ ChallengeNodeEvidence(p) \/ PublishNodeEvidence(p) \/ ReadPublishers(p)
                 \/ CreateChallenge(p) \/ VerifySubmission(p) \/ ConsumeChallenge(p)
                 \/ PruneBeforePut(p) \/ PutEvidence(p) \/ PublisherFails(p)
  BY <1>1, <1>6, Zenon DEF TimePasses, Tick, ListNodeEvidence, nodeVars, tables, evidenceVars,
     ChallengeNodeEvidence, PublishNodeEvidence, ReadPublishers, CreateChallenge, VerifySubmission,
     ConsumeChallenge, PruneBeforePut, PutEvidence, PublisherFails
<1> QED
  BY <1>2, <1>3, <1>4, <1>5, <1>6 DEF NodeNext, PublisherStep, AdminStep

--------------------------------------------------------------------------------
(* Results *)

\* The invariant holds at the start.
LEMMA NodeInitially ==
    ASSUME NodeInit
    PROVE  NodeInv
<1>1. TableTypes
  BY EmptyRows, EvidenceAssumption DEF NodeInit, EvidenceInit, TableTypes, NotEnrolled, EnrollmentRows
<1>2. PubInv
  <2>1. IdlePub \in PubHandlers /\ IdlePub.pc = "idle"
    BY EvidenceAssumption DEF IdlePub, PubHandlers, PubPcs
  <2> QED
    BY <2>1 DEF NodeInit, PubInv, Asked, Backed
<1>3. AdminInv
  BY IdleAdminType DEF NodeInit, AdminInv, Ordered
<1>4. ChallengesInv
  <2>1. NoChallenge \in ChallengeRows /\ NoChallenge.status = "absent" /\ NoChallenge.uses = 0
    BY EvidenceAssumption, NodeEvidenceAssumption DEF NoChallenge, ChallengeRows
  <2> QED
    BY <2>1 DEF NodeInit, ChallengesInv, PublishChallengeSingleUse
<1>5. AuditInv
  <2>1. \A s \in Sinks, n \in Nodes : Announced(s, n) = {}
    BY IdleAdminType DEF NodeInit, Announced, Past
  <2>2. \A n \in Nodes : enrollment[n].rev = 0
    BY DEF NodeInit, EvidenceInit, NotEnrolled
  <2>3. allowed \in [Sinks -> [Nodes -> 0..MaxAudits]] /\ \A s \in Sinks, n \in Nodes : allowed[s][n] = 0
    BY NodeEvidenceAssumption DEF NodeInit
  <2>4. IsFiniteSet({}) /\ Cardinality({}) = 0
    BY FS_EmptySet
  <2>5. ASSUME NEW s \in Sinks, NEW n \in Nodes
        PROVE  /\ IsFiniteSet(Announced(s, n))
               /\ enrollment[n].rev + Cardinality(Announced(s, n)) <= allowed[s][n]
    <3>1. IsFiniteSet(Announced(s, n)) /\ Cardinality(Announced(s, n)) = 0
      BY <2>1, <2>4, Zenon
    <3> QED
      BY <2>2, <2>3, <3>1
  <2> QED
    BY <2>3, <2>5 DEF AuditInv
<1>6. EvidenceRestsOnEnrollment
  BY EmptyRows DEF NodeInit, EvidenceInit, EvidenceRestsOnEnrollment
<1> QED
  BY <1>1, <1>2, <1>3, <1>4, <1>5, <1>6 DEF NodeInv

\* The invariant is inductive.
LEMMA NodeStep ==
    ASSUME NodeInv, NodeNext \/ UNCHANGED nodeVars
    PROVE  NodeInv'
<1>1. TablesMove
  BY TablesStep DEF NodeInv
<1>2. TableTypes' /\ EvidenceRestsOnEnrollment'
  BY <1>1, EvidenceKept DEF TablesMove, NodeInv
<1>3. PubInv'
  BY <1>1, PublishersStep DEF NodeInv
<1>4. AdminInv' /\ ChallengesInv' /\ AuditInv'
  BY AdminsStep, ChallengesStep, AuditStep DEF NodeInv
<1> QED
  BY <1>2, <1>3, <1>4 DEF NodeInv

\* Every reachable state satisfies the inductive invariant.
THEOREM NodeInductive == NodeSpec => []NodeInv
<1>1. NodeInit => NodeInv
  BY NodeInitially
<1>2. NodeInv /\ [NodeNext]_nodeVars => NodeInv'
  BY NodeStep
<1> QED
  BY <1>1, <1>2, PTL DEF NodeSpec

\* The tables and the handlers keep the values the code can produce: in
\* particular no enrollment revision passes its limit, whatever handlers
\* overlap.
THEOREM NodeTypes == NodeSpec => []NodeTypeOK
<1>1. NodeInv => NodeTypeOK
  BY DEF NodeInv, NodeTypeOK, TableTypes, PubInv, AdminInv, ChallengesInv, AuditInv, ChallengeRows,
     SourceRows, PubHandlers, PubPcs, AdminHandlers, AdminPcs
<1> QED
  BY <1>1, NodeInductive, PTL

\* TPM evidence rests on the enrollment in force, for any number of handlers
\* that read it before it changed.
THEOREM EvidenceRests == NodeSpec => []EvidenceRestsOnEnrollment
<1>1. NodeInv => EvidenceRestsOnEnrollment
  BY DEF NodeInv
<1> QED
  BY <1>1, NodeInductive, PTL

\* A challenge that any number of handlers validated backs one publish.
THEOREM ChallengesSingleUse == NodeSpec => []PublishChallengeSingleUse
<1>1. NodeInv => PublishChallengeSingleUse
  BY DEF NodeInv, ChallengesInv
<1> QED
  BY <1>1, NodeInductive, PTL

\* Both audit sinks are ahead of every node's revision, for any number of
\* administrators at work at once.
THEOREM ChangesAudited == NodeSpec => []EnrollmentChangesAudited
<1>1. NodeInv => EnrollmentChangesAudited
  <2> SUFFICES ASSUME NodeInv, NEW n \in Nodes, NEW s \in Sinks
               PROVE  enrollment[n].rev <= allowed[s][n]
    BY DEF EnrollmentChangesAudited
  <2>1. /\ Cardinality(Announced(s, n)) \in Nat
        /\ enrollment[n].rev + Cardinality(Announced(s, n)) <= allowed[s][n]
    BY FS_CardinalityType DEF NodeInv, AuditInv
  <2>2. enrollment[n].rev \in Int /\ allowed[s][n] \in Int
    BY EvidenceAssumption, NodeEvidenceAssumption DEF NodeInv, TableTypes, EnrollmentRows, AuditInv
  <2> QED
    BY <2>1, <2>2
<1> QED
  BY <1>1, NodeInductive, PTL

--------------------------------------------------------------------------------
(* Refinement of EvidenceTable *)

\* Pruning deletes rows that are not fresh.
LEMMA PruneRefines ==
    ASSUME TableTypes, Prune, UNCHANGED <<now, enrollment>>
    PROVE  PruneEvidence
<1>1. PICK N \in SUBSET Nodes : N = {n \in Nodes : Pruned(n)}
  BY Zenon
<1>2. \A n \in N : ~Fresh(n)
  <2> SUFFICES ASSUME NEW n \in Nodes, Pruned(n)
               PROVE  ~Fresh(n)
    BY <1>1
  <2>1. evidence[n].expires \in Nat /\ now \in Nat
    BY EvidenceAssumption DEF TableTypes, EvidenceRows, Times
  <2> QED
    BY <2>1, NodeEvidenceAssumption DEF Pruned, Fresh
<1>3. evidence' = [n \in Nodes |-> IF n \in N THEN NoEvidence ELSE evidence[n]]
  BY <1>1 DEF Prune
<1> QED
  BY <1>2, <1>3 DEF PruneEvidence

\* Stored evidence expires within the configured lifetime from now on, and TPM
\* evidence carries the enrollment in force.
LEMMA PutRefines ==
    ASSUME TableTypes, PubInv, NEW p \in Publishers, PutEvidence(p)
    PROVE  PutTpmEvidence \/ PutFakeEvidence \/ UNCHANGED evidenceVars
<1>0. UNCHANGED <<now, enrollment>>
  BY DEF PutEvidence
<1>1. CASE UNCHANGED evidence
  BY <1>0, <1>1 DEF evidenceVars
<1>2. CASE /\ pub[p].node \in Nodes
           /\ evidence' = [evidence EXCEPT ![pub[p].node] = Row(p)]
           /\ pub[p].provider = Tpm => EnrollmentUnchanged(p)
  <2>1. PICK n \in Nodes : n = pub[p].node
    BY <1>2
  <2>2. PICK e : e = pub[p].at + AcceptedTTL(pub[p].ttl)
    OBVIOUS
  <2>3. /\ pub[p].at \in 0..MaxTime /\ pub[p].at <= now /\ pub[p].provider \in EnabledProviders
        /\ pub[p].uid \in Uids \union {NoUid} /\ pub[p].ttl \in 0..(EvidenceTTL + 1)
    BY Zenon DEF PutEvidence, PubAt, PubInv, PubHandlers, Asked
  <2>t. PICK t \in 0..EvidenceTTL : t = AcceptedTTL(pub[p].ttl)
    BY <2>3, TTLBound
  <2>4. e \in Times /\ e <= now + EvidenceTTL
    BY <2>2, <2>3, <2>t, EvidenceAssumption DEF TableTypes, Times
  <2>5. CASE pub[p].provider = Tpm
    <3>1. enrollment[n].active /\ pub[p].uid = enrollment[n].uid
      BY <1>2, <2>1, <2>5 DEF EnrollmentUnchanged
    <3>2. Row(p) = [provider |-> "generic-tpm2-quote", uid |-> enrollment[n].uid, expires |-> e,
                    rev |-> enrollment[n].rev]
      BY <2>1, <2>2, <2>5, <3>1 DEF Row, Tpm
    <3> QED
      BY <1>0, <1>2, <2>1, <2>4, <3>1, <3>2, Zenon DEF PutTpmEvidence
  <2>6. CASE pub[p].provider # Tpm
    <3>1. AllowFakeLocal /\ pub[p].provider = "fake-local"
      BY <2>3, <2>6 DEF EnabledProviders, Providers, Tpm
    <3>2. Row(p) = [provider |-> "fake-local", uid |-> pub[p].uid, expires |-> e, rev |-> 0]
      BY <2>2, <2>6, <3>1 DEF Row
    <3> QED
      BY <1>0, <1>2, <2>1, <2>3, <2>4, <3>1, <3>2, ZenonT(30) DEF PutFakeEvidence
  <2> QED
    BY <2>5, <2>6
<1> QED
  BY <1>1, <1>2, PutEffect

\* The administrators' transactions are the table's enrollment steps.
LEMMA RevisionRefines ==
    ASSUME AdminInv, NEW a \in Admins, EnrollNodeEvidence(a) \/ RevokeNodeEvidence(a)
    PROVE  EnrollNode \/ RevokeNode
<1>1. PICK n \in Nodes : n = admin[a].node
  BY DEF AdminInv, Ordered, EnrollNodeEvidence, RevokeNodeEvidence, AdminAt
<1>2. CASE EnrollNodeEvidence(a)
  <2>1. admin[a].uid \in Uids
    BY <1>2 DEF AdminInv, Ordered, EnrollNodeEvidence, AdminAt
  <2> QED
    BY <1>1, <1>2, <2>1, Zenon DEF EnrollNodeEvidence, EnrollNode, RevisionLeft
<1>3. CASE RevokeNodeEvidence(a)
  BY <1>1, <1>3, ZenonT(30) DEF RevokeNodeEvidence, RevokeNode, RevisionLeft
<1> QED
  BY <1>2, <1>3

\* Every step of NodeEvidence is a step of EvidenceTable, or leaves it alone.
LEMMA NodeStepRefines ==
    ASSUME NodeInv, NodeNext \/ UNCHANGED nodeVars
    PROVE  EvidenceNext \/ UNCHANGED evidenceVars
<1>0. TableTypes /\ PubInv /\ AdminInv
  BY DEF NodeInv
<1>1. CASE TimePasses
  BY <1>1 DEF TimePasses, EvidenceNext
<1>2. CASE ListNodeEvidence \/ \E p \in Publishers : PruneBeforePut(p)
  BY <1>0, <1>2, PruneRefines DEF ListNodeEvidence, PruneBeforePut, EvidenceNext
<1>3. CASE \E p \in Publishers : PutEvidence(p)
  BY <1>0, <1>3, PutRefines DEF EvidenceNext
<1>4. CASE \E a \in Admins : EnrollNodeEvidence(a) \/ RevokeNodeEvidence(a)
  BY <1>0, <1>4, RevisionRefines DEF EvidenceNext
<1>5. CASE \/ StopBroker \/ UNCHANGED nodeVars
           \/ \E p \in Publishers :
                 \/ ChallengeNodeEvidence(p) \/ PublishNodeEvidence(p) \/ ReadPublishers(p)
                 \/ CreateChallenge(p) \/ VerifySubmission(p) \/ ConsumeChallenge(p) \/ PublisherFails(p)
           \/ \E a \in Admins : AdminRequest(a) \/ AuditAllow(a) \/ AdminFails(a)
  BY <1>5, Zenon DEF StopBroker, nodeVars, tables, ChallengeNodeEvidence, PublishNodeEvidence,
     ReadPublishers, CreateChallenge, VerifySubmission, ConsumeChallenge, PublisherFails,
     AdminRequest, AuditAllow, AdminFails
<1> QED
  BY <1>1, <1>2, <1>3, <1>4, <1>5 DEF NodeNext, PublisherStep, AdminStep

\* NodeEvidence, with all its handlers, implements the tables that the unseal
\* service reads: EvidenceTable is a sound abstraction of it.
THEOREM NodeEvidenceRefines == NodeSpec => ImplementsEvidenceTable
<1>1. NodeInit => EvidenceInit
  BY DEF NodeInit
<1>2. NodeInv /\ [NodeNext]_nodeVars => [EvidenceNext]_evidenceVars
  BY NodeStepRefines
<1> QED
  BY <1>1, <1>2, NodeInductive, PTL DEF NodeSpec, ImplementsEvidenceTable, EvidenceSpec
================================================================================
