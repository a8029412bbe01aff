-------------------------- MODULE UnsealServiceProofs --------------------------
(***************************************************************************)
(* Proofs about Wrap and Unwrap: every release spends a challenge of its    *)
(* own, revoked subjects and nodes stay out, and what a client received can *)
(* be unwrapped, for any number of requests, challenges, subjects, nodes    *)
(* and versions and whatever the tables do that their specifications allow. *)
(***************************************************************************)
EXTENDS UnsealService, TLAPS

--------------------------------------------------------------------------------
(* The inductive invariant *)

\* A table with keys has one active version, no version that can be used is
\* newer, and a pending version is newer than all others.
KeysInv ==
    /\ Present # {} => Active # {}
    /\ \A a \in Active, v \in Usable : v <= a
    /\ \A v \in Versions : keyStatus[v] = "pending" => \A u \in Present : u = v \/ u < v

\* The subjects that were revoked are the revoked rows.
RevokedInv == \A s \in Subjects : s \in revocations <=> subjects[s] = "revoked"

\* Without fake-local evidence, every row is a TPM's and rests on an active
\* enrollment.
EvidenceInv ==
    ~AllowFakeLocal => \A n \in Nodes : evidence[n].provider # "none" =>
        evidence[n].provider = "generic-tpm2-quote" /\ enrollment[n].active

BeforeSpending == {"new", "keyref", "subject", "node", "challenge"}
AfterSpending == {"key", "use"}
Deciding == BeforeSpending \union AfterSpending

\* A handler has spent its challenge exactly when it is past that statement.
SpendInv(r) ==
    /\ req[r].pc \in BeforeSpending => ~req[r].spent
    /\ req[r].pc \in AfterSpending => req[r].spent
    /\ req[r].pc \in Deciding => req[r].outcome = "none"
    /\ req[r].outcome = "allow" => req[r].spent
    /\ req[r].spent => req[r].chal \in Challenges

\* Who has passed the check of the subject was not revoked on arrival.
SubjectInv(r) ==
    /\ req[r].pc \in InFlight \ {"audit", "reply"} =>
          req[r].subject \in Subjects /\ req[r].op \in Operations
    /\ req[r].revoked => req[r].subject \in revocations
    /\ req[r].pc \in {"node", "challenge", "key", "use"} \/ req[r].outcome = "allow" => ~req[r].revoked

\* Who has passed the check of the node was not barred, or the node was
\* enrolled since.
NodeInv(r) ==
    req[r].barred >= 0 =>
        /\ req[r].node \in Nodes
        /\ enrollment[req[r].node].rev >= req[r].barred
        /\ enrollment[req[r].node].rev = req[r].barred => ~enrollment[req[r].node].active
        /\ ~AllowFakeLocal /\ (req[r].pc \in {"challenge", "key", "use"} \/ req[r].outcome = "allow") =>
              enrollment[req[r].node].rev > req[r].barred

\* A blob that a Wrap made: its version can be used and has its key.
Genuine(b) == b.version \in Usable /\ keyMaterial[b.version] = b.material

\* Blobs are genuine or none, and a version that was decided on can be used.
BlobInv(r) ==
    /\ req[r].blob = NoBlob \/ Genuine(req[r].blob)
    /\ req[r].op = "unwrap" /\ req[r].blob # NoBlob => req[r].blob.version = req[r].ref
    /\ req[r].pc = "keyref" => req[r].op = "wrap"
    /\ req[r].pc = "use" => req[r].ref \in Usable
    /\ req[r].op = "wrap" /\ req[r].outcome = "allow" =>
          Genuine(req[r].blob) /\ req[r].blob.version >= req[r].ref

--------------------------------------------------------------------------------
(* What the tables' steps keep *)

TableTypes ==
    /\ keyStatus \in [Versions -> KeyStatuses]
    /\ keyMaterial \in [Versions -> Materials]
    /\ now \in 0..MaxTime
    /\ enrollment \in [Nodes -> EnrollmentRows]
    /\ evidence \in [Nodes -> EvidenceRows]
    /\ up \in BOOLEAN
    /\ subjects \in [Subjects -> {"absent", "allowed", "revoked"}]
    /\ revocations \subseteq Subjects

\* Versions that can be used stay so, with their keys.
KeysKept == Usable \subseteq Usable' /\ \A v \in Usable : keyMaterial'[v] = keyMaterial[v]

\* An enrollment changes only with its revision.
EnrollmentsKept ==
    \A n \in Nodes :
        \/ enrollment'[n].rev > enrollment[n].rev
        \/ enrollment'[n].rev = enrollment[n].rev /\ enrollment'[n].active = enrollment[n].active

\* Creating, adding and promoting keys.
LEMMA KeysStep ==
    ASSUME keyStatus \in [Versions -> KeyStatuses], keyMaterial \in [Versions -> Materials], KeysInv,
           LifecycleNext
    PROVE  /\ keyStatus' \in [Versions -> KeyStatuses] /\ keyMaterial' \in [Versions -> Materials]
           /\ KeysInv' /\ KeysKept
<1> USE MaxKeyVersionAssumption
<1>1. CASE CreateKey
  <2>1. 1 \in Versions /\ \A v \in Versions : keyStatus[v] = "absent"
    BY <1>1 DEF CreateKey, Present, Versions
  <2>2. PICK m \in Keys : keyMaterial' = [keyMaterial EXCEPT ![1] = m]
    BY <1>1, Zenon DEF CreateKey
  <2>3. keyStatus' = [keyStatus EXCEPT ![1] = "active"]
    BY <1>1 DEF CreateKey
  <2>4. Usable = {} /\ Usable' = {1} /\ Active' = {1} /\ Present' = {1}
    BY <2>1, <2>3 DEF Usable, Active, Present, UsableStatuses
  <2>5. KeysInv'
    BY <2>1, <2>3, <2>4 DEF KeysInv
  <2> QED
    BY <2>1, <2>2, <2>3, <2>4, <2>5 DEF KeysKept, Keys, KeyStatuses
<1>2. CASE AddPendingKey
  <2>1. PICK v \in Versions \ Present, m \in Keys :
            /\ \A u \in Present : u < v /\ keyStatus[u] # "pending"
            /\ keyStatus' = [keyStatus EXCEPT ![v] = "pending"]
            /\ keyMaterial' = [keyMaterial EXCEPT ![v] = m]
    BY <1>2, Zenon DEF AddPendingKey
  <2>2. /\ Present' = Present \union {v} /\ Active' = Active /\ Usable' = Usable
        /\ v \notin Usable /\ Active # {}
    BY <1>2, <2>1 DEF AddPendingKey, Present, Active, Usable, UsableStatuses
  <2>3. \A w \in Versions : keyStatus'[w] = "pending" => w = v
    BY <2>1 DEF Present
  <2>4. KeysInv'
    BY <2>1, <2>2, <2>3 DEF KeysInv
  <2> QED
    BY <2>1, <2>2, <2>4 DEF KeysKept, Keys, KeyStatuses, Usable
<1>3. CASE PromoteKey
  <2>1. PICK a \in Active, v \in Versions :
            /\ keyStatus[v] = "pending"
            /\ keyStatus' = [keyStatus EXCEPT ![a] = "decrypt-only", ![v] = "active"]
    BY <1>3, Zenon DEF PromoteKey
  <2>2. a \in Versions /\ keyStatus[a] = "active" /\ a # v /\ a \in Usable /\ v \in Present
    BY <2>1 DEF Active, Usable, UsableStatuses, Present
  <2>3. Active = {a}
    <3>1. \A b \in Active : b <= a /\ a <= b /\ b \in Nat /\ a \in Nat
      BY <2>2 DEF KeysInv, Active, Usable, UsableStatuses, Versions
    <3> QED
      BY <3>1
  <2>4. Present' = Present /\ Active' = {v} /\ Usable' = Usable \union {v}
    BY <2>1, <2>2, <2>3 DEF Present, Active, Usable, UsableStatuses
  <2>5. \A u \in Present : u = v \/ u < v
    BY <2>1 DEF KeysInv
  <2>6. \A w \in Versions : keyStatus'[w] # "pending"
    BY <2>1, <2>2, <2>5 DEF KeysInv, Present, Versions
  <2>7. \A u \in Usable' : u <= v
    BY <2>4, <2>5 DEF Usable, Present, UsableStatuses, Versions
  <2>8. KeysInv'
    BY <2>4, <2>6, <2>7 DEF KeysInv
  <2>9. keyMaterial' = keyMaterial
    BY <1>3 DEF PromoteKey
  <2> QED
    BY <2>1, <2>2, <2>4, <2>8, <2>9 DEF KeysKept, KeyStatuses
<1> QED
  BY <1>1, <1>2, <1>3 DEF LifecycleNext

\* Admitting and revoking subjects.
LEMMA SubjectsStep ==
    ASSUME subjects \in [Subjects -> {"absent", "allowed", "revoked"}], revocations \subseteq Subjects, RevokedInv,
           \/ subjects' = SeedSubjects /\ UNCHANGED revocations
           \/ \E s \in Subjects : InsertSubject(s) \/ RevokeSubject(s)
    PROVE  /\ subjects' \in [Subjects -> {"absent", "allowed", "revoked"}] /\ revocations' \subseteq Subjects
           /\ RevokedInv' /\ revocations \subseteq revocations'
<1>1. CASE subjects' = SeedSubjects /\ UNCHANGED revocations
  BY <1>1 DEF SeedSubjects, RevokedInv
<1>2. ASSUME NEW s \in Subjects, InsertSubject(s)
      PROVE  /\ subjects' \in [Subjects -> {"absent", "allowed", "revoked"}] /\ revocations' \subseteq Subjects
             /\ RevokedInv' /\ revocations \subseteq revocations'
  BY <1>2 DEF InsertSubject, Admitted, RevokedInv
<1>3. ASSUME NEW s \in Subjects, RevokeSubject(s)
      PROVE  /\ subjects' \in [Subjects -> {"absent", "allowed", "revoked"}] /\ revocations' \subseteq Subjects
             /\ RevokedInv' /\ revocations \subseteq revocations'
  BY <1>3 DEF RevokeSubject, RevokedInv
<1> QED
  BY <1>1, <1>2, <1>3

\* Time, enrollments and evidence.
LEMMA EvidenceStep ==
    ASSUME now \in 0..MaxTime, enrollment \in [Nodes -> EnrollmentRows], evidence \in [Nodes -> EvidenceRows],
           EvidenceInv, EvidenceNext
    PROVE  /\ now' \in 0..MaxTime /\ enrollment' \in [Nodes -> EnrollmentRows]
           /\ evidence' \in [Nodes -> EvidenceRows]
           /\ EvidenceInv' /\ EnrollmentsKept
<1> USE EvidenceAssumption
<1>0. NoEvidence \in EvidenceRows
  BY DEF NoEvidence, EvidenceRows, Times
<1>1. CASE Tick
  BY <1>1 DEF Tick, EvidenceInv, EnrollmentsKept
<1>2. CASE EnrollNode
  <2>1. PICK n \in Nodes, u \in Uids :
            /\ enrollment[n].rev < MaxRevision
            /\ enrollment' = [enrollment EXCEPT ![n] = [rev |-> enrollment[n].rev + 1, active |-> TRUE, uid |-> u]]
            /\ evidence' = [evidence EXCEPT ![n] = NoEvidence]
    BY <1>2, Zenon DEF EnrollNode
  <2>2. [rev |-> enrollment[n].rev + 1, active |-> TRUE, uid |-> u] \in EnrollmentRows /\ enrollment[n].rev \in Nat
    BY <2>1 DEF EnrollmentRows
  <2>3. \A k \in Nodes : k # n => enrollment'[k] = enrollment[k] /\ evidence'[k] = evidence[k]
    BY <2>1
  <2>4. EvidenceInv'
    BY <2>1, <2>3 DEF EvidenceInv, NoEvidence
  <2>5. EnrollmentsKept
    <3>1. enrollment'[n].rev = enrollment[n].rev + 1
      BY <2>1
    <3>2. enrollment'[n].rev > enrollment[n].rev
      BY <2>2, <3>1
    <3> QED
      BY <2>3, <3>2 DEF EnrollmentsKept
  <2> QED
    BY <1>0, <1>2, <2>1, <2>2, <2>3, <2>4, <2>5, Zenon DEF EnrollNode
<1>3. CASE RevokeNode
  <2>1. PICK n \in Nodes :
            /\ enrollment[n].rev < MaxRevision
            /\ enrollment' = [enrollment EXCEPT ![n].rev = @ + 1, ![n].active = FALSE]
            /\ evidence' = [evidence EXCEPT ![n] = NoEvidence]
    BY <1>3, Zenon DEF RevokeNode
  <2> DEFINE row == [enrollment[n] EXCEPT !.rev = enrollment[n].rev + 1, !.active = FALSE]
  <2>2. enrollment' = [enrollment EXCEPT ![n] = row]
    BY <2>1, Zenon
  <2>3. row \in EnrollmentRows /\ row.rev = enrollment[n].rev + 1 /\ enrollment[n].rev \in Nat
    <3>1. /\ DOMAIN enrollment[n] = {"rev", "active", "uid"} /\ enrollment[n].rev \in 0..MaxRevision
          /\ enrollment[n].uid \in Uids \union {NoUid} /\ enrollment[n] \in EnrollmentRows
      BY DEF EnrollmentRows
    <3>2. enrollment[n].rev + 1 \in 0..MaxRevision
      BY <2>1, <3>1
    <3>3. row.rev = enrollment[n].rev + 1
      BY <3>1
    <3>4. row \in EnrollmentRows
      BY <3>1, <3>2, Zenon DEF EnrollmentRows
    <3> QED
      BY <3>1, <3>3, <3>4
  <2> HIDE DEF row
  <2>4. /\ enrollment'[n].rev > enrollment[n].rev
        /\ \A k \in Nodes : k # n => enrollment'[k] = enrollment[k] /\ evidence'[k] = evidence[k]
    BY <2>1, <2>2, <2>3
  <2>5. EvidenceInv'
    BY <2>1, <2>4 DEF EvidenceInv, NoEvidence
  <2>6. EnrollmentsKept
    BY <2>4 DEF EnrollmentsKept
  <2> QED
    <3>1. enrollment' \in [Nodes -> EnrollmentRows]
      BY <2>2, <2>3
    <3>2. evidence' \in [Nodes -> EvidenceRows]
      BY <1>0, <2>1
    <3>3. now' = now
      BY <1>3 DEF RevokeNode
    <3> QED
      BY <2>5, <2>6, <3>1, <3>2, <3>3
<1>4. CASE PutTpmEvidence
  <2>1. PICK n \in Nodes, e \in Times :
            /\ enrollment[n].active
            /\ evidence' = [evidence EXCEPT ![n] =
                  [provider |-> "generic-tpm2-quote", uid |-> enrollment[n].uid,
                   expires |-> e, rev |-> enrollment[n].rev]]
    BY <1>4, Zenon DEF PutTpmEvidence
  <2> QED
    BY <1>4, <2>1 DEF PutTpmEvidence, EvidenceInv, EnrollmentsKept, EvidenceRows, EnrollmentRows, Providers
<1>5. CASE PutFakeEvidence
  BY <1>5 DEF PutFakeEvidence, EvidenceInv, EnrollmentsKept, EvidenceRows, Providers
<1>6. CASE PruneEvidence
  BY <1>0, <1>6 DEF PruneEvidence, EvidenceInv, EnrollmentsKept, NoEvidence
<1> QED
  BY <1>1, <1>2, <1>3, <1>4, <1>5, <1>6 DEF EvidenceNext

\* What holds of the tables, and what every step keeps of them.
TablesInv == TableTypes /\ KeysInv /\ RevokedInv /\ EvidenceInv
TablesKept == KeysKept /\ revocations \subseteq revocations' /\ EnrollmentsKept

\* Only these actions touch the tables.
LEMMA TableActions ==
    ServiceNext => \/ StartBroker \/ StopBroker \/ SubjectsMove \/ KeysMove \/ EvidenceMoves
                   \/ UNCHANGED tables
  BY Zenon DEF ServiceNext, Challenge, Arrive, Reject, StatementFails, Handle, WrapKeyRef, EvaluateSubject,
     EvaluateNodeEvidence, ConsumeChallenge, EvaluateKey, UseKeyring, AuditDecision, Reply

\* Every step keeps the tables' invariant, and what handlers rely on in them.
LEMMA TablesStep == TablesInv /\ (ServiceNext \/ UNCHANGED serviceVars) => TablesInv' /\ TablesKept
<1> SUFFICES ASSUME TablesInv, ServiceNext \/ UNCHANGED serviceVars PROVE TablesInv' /\ TablesKept
  OBVIOUS
<1>1. UNCHANGED lifecycleVars => /\ keyStatus' = keyStatus /\ keyMaterial' = keyMaterial
                                /\ KeysInv' /\ KeysKept
  BY DEF TablesInv, lifecycleVars, KeysInv, KeysKept, Present, Active, Usable
<1>2. UNCHANGED evidenceVars => /\ now' = now /\ enrollment' = enrollment /\ evidence' = evidence
                               /\ EvidenceInv' /\ EnrollmentsKept
  BY DEF TablesInv, evidenceVars, EvidenceInv, EnrollmentsKept
<1>3. UNCHANGED subjectVars => subjects' = subjects /\ revocations' = revocations /\ RevokedInv'
  BY DEF TablesInv, subjectVars, RevokedInv
<1>4. CASE StartBroker
  <2>1. LifecycleNext \/ UNCHANGED lifecycleVars
    BY <1>4 DEF StartBroker, LifecycleNext
  <2>2. /\ keyStatus' \in [Versions -> KeyStatuses] /\ keyMaterial' \in [Versions -> Materials]
        /\ KeysInv' /\ KeysKept
    BY <1>1, <2>1, KeysStep DEF TablesInv, TableTypes
  <2>3. /\ subjects' \in [Subjects -> {"absent", "allowed", "revoked"}] /\ revocations' \subseteq Subjects
        /\ RevokedInv' /\ revocations \subseteq revocations'
    BY <1>4, SubjectsStep DEF StartBroker, TablesInv, TableTypes
  <2> QED
    BY <1>2, <1>4, <2>2, <2>3 DEF StartBroker, TablesInv, TablesKept, TableTypes
<1>5. CASE StopBroker \/ UNCHANGED tables
  BY <1>1, <1>2, <1>3, <1>5, Zenon DEF StopBroker, tables, TablesInv, TablesKept, TableTypes
<1>6. CASE SubjectsMove
  <2>1. /\ subjects' \in [Subjects -> {"absent", "allowed", "revoked"}] /\ revocations' \subseteq Subjects
        /\ RevokedInv' /\ revocations \subseteq revocations'
    BY <1>6, SubjectsStep DEF SubjectsMove, TablesInv, TableTypes
  <2> QED
    BY <1>1, <1>2, <1>6, <2>1 DEF SubjectsMove, TablesInv, TablesKept, TableTypes
<1>7. CASE KeysMove
  <2>1. /\ keyStatus' \in [Versions -> KeyStatuses] /\ keyMaterial' \in [Versions -> Materials]
        /\ KeysInv' /\ KeysKept
    BY <1>7, KeysStep DEF KeysMove, TablesInv, TableTypes
  <2> QED
    BY <1>2, <1>3, <1>7, <2>1 DEF KeysMove, TablesInv, TablesKept, TableTypes
<1>8. CASE EvidenceMoves
  <2>1. /\ now' \in 0..MaxTime /\ enrollment' \in [Nodes -> EnrollmentRows]
        /\ evidence' \in [Nodes -> EvidenceRows]
        /\ EvidenceInv' /\ EnrollmentsKept
    BY <1>8, EvidenceStep DEF EvidenceMoves, TablesInv, TableTypes
  <2> QED
    BY <1>1, <1>3, <1>8, <2>1 DEF EvidenceMoves, TablesInv, TablesKept, TableTypes
<1>9. UNCHANGED serviceVars => UNCHANGED tables
  BY DEF serviceVars
<1> QED
  BY <1>4, <1>5, <1>6, <1>7, <1>8, <1>9, TableActions

--------------------------------------------------------------------------------
(* What handlers keep *)

Blobs == [version : 0..MaxKeyVersion, material : Materials]

Handlers ==
    [pc : Pcs, op : Operations \union {"none"}, subject : Subjects \union {"none"},
     node : Nodes \union {"none"}, uid : Uids \union {NoUid},
     chal : Challenges \union {"none"}, ref : 0..MaxKeyVersion, blob : Blobs,
     spent : BOOLEAN, outcome : {"none", "allow", "deny"},
     audited : BOOLEAN, revoked : BOOLEAN, barred : -1..MaxRevision]

HandlerInv(r) == SpendInv(r) /\ SubjectInv(r) /\ NodeInv(r) /\ BlobInv(r)

\* A handler that rests keeps its invariant, whatever the tables do.
LEMMA RestingHandler ==
    ASSUME TableTypes, TableTypes', TablesKept, NEW r \in Requests, req[r] \in Handlers, HandlerInv(r), req'[r] = req[r]
    PROVE  HandlerInv(r)'
<1>1. SpendInv(r)'
  BY DEF HandlerInv, SpendInv
<1>2. SubjectInv(r)'
  BY DEF HandlerInv, SubjectInv, TablesKept
<1>3. NodeInv(r)'
  <2> SUFFICES ASSUME req[r].barred >= 0 PROVE NodeInv(r)'
    BY DEF NodeInv
  <2>1. req[r].node \in Nodes /\ req[r].barred \in Int
    BY DEF HandlerInv, NodeInv, Handlers
  <2>2. enrollment[req[r].node].rev \in Int /\ enrollment'[req[r].node].rev \in Int
    BY <2>1 DEF TableTypes, EnrollmentRows
  <2> QED
    BY <2>1, <2>2 DEF HandlerInv, NodeInv, TablesKept, EnrollmentsKept
<1>4. BlobInv(r)'
  BY DEF HandlerInv, BlobInv, Genuine, TablesKept, KeysKept
<1> QED
  BY <1>1, <1>2, <1>3, <1>4 DEF HandlerInv

\* What is kept of a handler that is denied or lost.
LEMMA KeptHandler ==
    ASSUME NEW r \in Requests, req[r] \in Handlers
    PROVE  /\ Kept(r) \in Handlers
           /\ Kept(r).spent = req[r].spent
           /\ req[r].spent => /\ Kept(r).chal = req[r].chal
                              /\ Kept(r).subject = req[r].subject
                              /\ Kept(r).op = req[r].op
           /\ Kept(r).outcome = "none" /\ ~Kept(r).revoked /\ Kept(r).barred = -1 /\ Kept(r).blob = NoBlob
<1>1. NoBlob \in Blobs
  BY MaxKeyVersionAssumption, NoMaterialAssumption DEF NoBlob, Blobs
<1>2. NewRequest \in Handlers
  BY <1>1, MaxKeyVersionAssumption, EvidenceAssumption DEF NewRequest, Handlers, Pcs
<1>3. CASE ~req[r].spent
  BY <1>2, <1>3, Zenon DEF Kept, NewRequest, Handlers
<1>4. CASE req[r].spent
  <2>1. Kept(r) = [pc |-> "new", op |-> req[r].op, subject |-> req[r].subject, node |-> "none", uid |-> NoUid,
                   chal |-> req[r].chal, ref |-> 0, blob |-> NoBlob, spent |-> TRUE,
                   outcome |-> "none", audited |-> FALSE, revoked |-> FALSE, barred |-> -1]
    BY <1>4, Zenon DEF Kept, NewRequest
  <2> QED
    BY <1>1, <1>4, <2>1, MaxKeyVersionAssumption, EvidenceAssumption DEF Handlers, Pcs
<1> QED
  BY <1>3, <1>4

\* A handler does not change what it has spent.
SpendKept(r) ==
    /\ req'[r].spent = req[r].spent
    /\ req[r].spent => /\ req'[r].chal = req[r].chal
                       /\ req'[r].subject = req[r].subject
                       /\ req'[r].op = req[r].op

\* A handler that is denied or lost.
LEMMA ClosedHandler ==
    ASSUME NEW r \in Requests, req[r] \in Handlers, SpendInv(r),
           \/ \E pc \in {"audit", "reply"} : req'[r] = [Kept(r) EXCEPT !.pc = pc, !.outcome = "deny"]
           \/ req'[r] = [Kept(r) EXCEPT !.pc = "lost"]
    PROVE  req'[r] \in Handlers /\ HandlerInv(r)' /\ SpendKept(r)
<1>1. req'[r] \in Handlers /\ SpendKept(r)
  <2> DEFINE k == Kept(r)
  <2>0. /\ k \in Handlers /\ k.spent = req[r].spent
        /\ req[r].spent => k.chal = req[r].chal /\ k.subject = req[r].subject /\ k.op = req[r].op
        /\ {"audit", "reply", "lost"} \subseteq Pcs
    BY KeptHandler DEF Pcs, InFlight
  <2>1. ASSUME NEW pc \in {"audit", "reply"}, req'[r] = [k EXCEPT !.pc = pc, !.outcome = "deny"]
        PROVE  req'[r] \in Handlers /\ SpendKept(r)
    <3> HIDE DEF k
    <3>1. pc \in Pcs
      BY <2>0
    <3>2. req'[r] \in Handlers
      BY <2>0, <2>1, <3>1, ZenonT(60) DEF Handlers
    <3>3. /\ req'[r].spent = k.spent /\ req'[r].chal = k.chal /\ req'[r].subject = k.subject
          /\ req'[r].op = k.op
      BY <2>0, <2>1 DEF Handlers
    <3> QED
      BY <2>0, <3>2, <3>3 DEF SpendKept
  <2>2. ASSUME req'[r] = [k EXCEPT !.pc = "lost"] PROVE req'[r] \in Handlers /\ SpendKept(r)
    <3> HIDE DEF k
    <3> QED
      BY <2>0, <2>2 DEF Handlers, SpendKept
  <2> QED
    BY <2>1, <2>2
<1>2. /\ req'[r].pc \in {"audit", "reply", "lost"} /\ req'[r].outcome \in {"none", "deny"} /\ ~req'[r].revoked
      /\ req'[r].barred = -1 /\ req'[r].blob = NoBlob
  BY KeptHandler, ZenonT(30) DEF Handlers
<1>3. SpendInv(r)'
  BY <1>1, <1>2 DEF SpendInv, SpendKept, BeforeSpending, AfterSpending, Deciding
<1>4. SubjectInv(r)' /\ NodeInv(r)' /\ BlobInv(r)'
  BY <1>2 DEF SubjectInv, NodeInv, BlobInv, InFlight, Statements
<1> QED
  BY <1>1, <1>3, <1>4 DEF HandlerInv

\* The handler's record differs in its pc only.
Moved(r, pc) ==
    /\ req'[r] \in Handlers /\ req'[r].pc = pc /\ SpendKept(r)
    /\ req'[r].op = req[r].op /\ req'[r].subject = req[r].subject /\ req'[r].node = req[r].node
    /\ req'[r].ref = req[r].ref /\ req'[r].blob = req[r].blob /\ req'[r].chal = req[r].chal
    /\ req'[r].outcome = req[r].outcome /\ req'[r].revoked = req[r].revoked
    /\ req'[r].barred = req[r].barred /\ req'[r].spent = req[r].spent

\* A handler that goes on to another statement.
LEMMA MovedHandler ==
    ASSUME NEW r \in Requests, req \in [Requests -> Handlers], NEW pc \in Pcs, Goto(r, pc)
    PROVE  Moved(r, pc)
  BY DEF Goto, Handlers, SpendKept, Moved

Handled(r) == req'[r] \in Handlers /\ HandlerInv(r)'

\* A step that leaves the tables alone keeps all that handlers rely on in them.
LEMMA SameTables ==
    UNCHANGED tables => /\ subjects' = subjects /\ revocations' = revocations /\ enrollment' = enrollment
                        /\ keyMaterial' = keyMaterial /\ Usable' = Usable /\ Active' = Active
  BY DEF tables, lifecycleVars, evidenceVars, subjectVars, Usable, Active

\* A request that the policy denies keeps no more than the challenge it spent.
LEMMA DeniedHandler ==
    ASSUME NEW r \in Requests, req \in [Requests -> Handlers], SpendInv(r), Deny(r)
    PROVE  Handled(r) /\ SpendKept(r)
<1>1. req'[r] = [Kept(r) EXCEPT !.pc = "audit", !.outcome = "deny"]
  BY DEF Deny
<1> QED
  BY <1>1, ClosedHandler, Zenon DEF Handled

\* evidenceSubject: the request's data arrive.
LEMMA ArriveStep ==
    ASSUME TablesInv, \A q \in Requests : HandlerInv(q), req \in [Requests -> Handlers], NEW r \in Requests, Arrive(r)
    PROVE  /\ Handled(r) /\ SpendKept(r)
           /\ req'[r].pc \in {"keyref", "subject"} /\ req'[r].outcome = "none"
<1>0. PICK op \in Operations, s \in Subjects, n \in Nodes \union {"none"},
           u \in Uids \union {NoUid}, c \in Challenges \union {"none"} :
         \E call \in Calls(op) :
          /\ n = "none" => u = NoUid
          /\ req' = [req EXCEPT ![r] =
                [NewRequest EXCEPT !.pc = IF op = "wrap" THEN "keyref" ELSE "subject",
                    !.op = op, !.subject = s, !.node = n, !.uid = u, !.chal = c,
                    !.ref = call.ref, !.blob = call.blob,
                    !.revoked = (s \in revocations), !.barred = Barred(n)]]
  BY Zenon DEF Arrive
<1>1. PICK call \in Calls(op) :
         req' = [req EXCEPT ![r] =
                [NewRequest EXCEPT !.pc = IF op = "wrap" THEN "keyref" ELSE "subject",
                    !.op = op, !.subject = s, !.node = n, !.uid = u, !.chal = c,
                    !.ref = call.ref, !.blob = call.blob,
                    !.revoked = (s \in revocations), !.barred = Barred(n)]]
  BY <1>0
<1>2. call.ref \in 0..MaxKeyVersion /\ call.blob \in Blobs
  <2>1. NoBlob \in Blobs
    BY MaxKeyVersionAssumption, NoMaterialAssumption DEF NoBlob, Blobs
  <2>2. \A b \in ClientBlobs : b \in Blobs /\ b.version \in 0..MaxKeyVersion
    BY DEF ClientBlobs, Handlers, Blobs
  <2> QED
    BY <2>1, <2>2, MaxKeyVersionAssumption DEF Calls, Versions
<1>3. op = "unwrap" /\ call.blob # NoBlob => call.blob.version = call.ref
  BY DEF Calls, Operations
<1>4. call.blob = NoBlob \/ Genuine(call.blob)
  <2>1. \A b \in ClientBlobs : Genuine(b)
    BY DEF ClientBlobs, HandlerInv, BlobInv
  <2> QED
    BY <2>1 DEF Calls
<1>5. Barred(n) \in -1..MaxRevision
      /\ (Barred(n) >= 0 => n \in Nodes /\ enrollment[n].rev = Barred(n) /\ ~enrollment[n].active)
  BY EvidenceAssumption DEF Barred, TablesInv, TableTypes, EnrollmentRows
<1> DEFINE pc == IF op = "wrap" THEN "keyref" ELSE "subject"
<1>6. req'[r] = [pc |-> pc, op |-> op, subject |-> s, node |-> n, uid |-> u,
                 chal |-> c, ref |-> call.ref, blob |-> call.blob, spent |-> FALSE,
                 outcome |-> "none", audited |-> FALSE, revoked |-> (s \in revocations), barred |-> Barred(n)]
  BY <1>1, Zenon DEF NewRequest
<1>7. pc \in {"keyref", "subject"} /\ (pc = "keyref" => op = "wrap")
  OBVIOUS
<1> HIDE DEF pc
<1>8. req'[r] \in Handlers
  BY <1>2, <1>5, <1>6, <1>7 DEF Handlers, Pcs, InFlight, Statements
<1>9. req[r].spent = FALSE
  BY DEF Arrive, At, HandlerInv, SpendInv, BeforeSpending, Handlers
<1>a. /\ req'[r].pc = pc /\ req'[r].op = op /\ req'[r].subject = s /\ req'[r].spent = FALSE /\ req'[r].outcome = "none"
      /\ req'[r].node = n /\ req'[r].ref = call.ref /\ req'[r].blob = call.blob /\ req'[r].barred = Barred(n)
  BY <1>6
<1>b. req'[r].revoked = (s \in revocations)
  BY <1>6, SMTT(30)
<1>10. SpendInv(r)' /\ SpendKept(r)
  BY <1>a, <1>7, <1>9, Zenon DEF SpendInv, SpendKept, BeforeSpending, AfterSpending, Deciding
<1>11. UNCHANGED tables
  BY DEF Arrive
<1>12. SubjectInv(r)'
  BY <1>a, <1>b, <1>7, <1>11, SameTables, Zenon DEF SubjectInv
<1>13. NodeInv(r)'
  BY <1>5, <1>a, <1>7, <1>11, SameTables DEF NodeInv
<1>14. BlobInv(r)'
  BY <1>3, <1>4, <1>a, <1>7, <1>11, SameTables DEF BlobInv, Genuine
<1> QED
  BY <1>7, <1>8, <1>a, <1>10, <1>12, <1>13, <1>14 DEF Handled, HandlerInv

--------------------------------------------------------------------------------
(* The handler's statements; all of them leave the tables alone *)

\* Wrap resolves the version it was asked for, or the active one.
LEMMA KeyRefStep ==
    ASSUME TablesInv, req \in [Requests -> Handlers], NEW r \in Requests, HandlerInv(r), WrapKeyRef(r)
    PROVE  Handled(r) /\ SpendKept(r)
<1>0. /\ UNCHANGED tables /\ req[r].pc = "keyref" /\ req[r].op = "wrap" /\ req[r].outcome = "none"
      /\ req[r].subject \in Subjects /\ ~req[r].spent /\ "subject" \in Pcs
  BY DEF WrapKeyRef, At, HandlerInv, SpendInv, SubjectInv, BlobInv, Deciding, BeforeSpending, InFlight,
     Statements, Pcs
<1>1. CASE Deny(r)
  BY <1>1, DeniedHandler DEF HandlerInv
<1>2. ASSUME NEW ref \in 0..MaxKeyVersion,
             req' = [req EXCEPT ![r].pc = "subject", ![r].ref = ref]
      PROVE  Handled(r) /\ SpendKept(r)
  <2>1. req'[r] = [req[r] EXCEPT !.pc = "subject", !.ref = ref]
    BY <1>2
  <2>2. req[r] \in Handlers
    OBVIOUS
  <2>3. req'[r] \in Handlers
    BY <1>0, <2>1, <2>2, Zenon DEF Handlers
  <2>4. /\ req'[r].pc = "subject" /\ req'[r].op = req[r].op /\ req'[r].subject = req[r].subject
        /\ req'[r].node = req[r].node /\ req'[r].chal = req[r].chal /\ req'[r].blob = req[r].blob
        /\ req'[r].spent = req[r].spent /\ req'[r].outcome = req[r].outcome
        /\ req'[r].revoked = req[r].revoked /\ req'[r].barred = req[r].barred
    BY <2>1, <2>2 DEF Handlers
  <2>5. SpendInv(r)' /\ SpendKept(r)
    BY <1>0, <2>4 DEF HandlerInv, SpendInv, SpendKept, BeforeSpending, AfterSpending, Deciding
  <2>6. SubjectInv(r)'
    BY <1>0, <2>4, SameTables DEF HandlerInv, SubjectInv, Operations
  <2>7. NodeInv(r)'
    BY <1>0, <2>4, SameTables DEF HandlerInv, NodeInv
  <2>8. BlobInv(r)'
    BY <1>0, <2>4, SameTables DEF HandlerInv, BlobInv, Genuine
  <2> QED
    BY <2>3, <2>5, <2>6, <2>7, <2>8 DEF Handled, HandlerInv
<1>3. CASE Goto(r, "subject")
  <2>1. req' = [req EXCEPT ![r].pc = "subject", ![r].ref = req[r].ref]
    BY <1>3, Zenon DEF Goto, Handlers
  <2>2. req[r].ref \in 0..MaxKeyVersion
    BY DEF Handlers
  <2> QED
    BY <1>2, <2>1, <2>2, Zenon
<1>4. CASE KeyringLoads /\ req' = [req EXCEPT ![r].pc = "subject", ![r].ref = ActiveVersion]
  <2>1. ActiveVersion \in Active
    BY <1>4 DEF KeyringLoads, ActiveVersion
  <2>2. ActiveVersion \in 0..MaxKeyVersion
    BY <2>1, MaxKeyVersionAssumption DEF Active, Versions
  <2> QED
    BY <1>2, <1>4, <2>2, Zenon
<1> QED
  BY <1>1, <1>3, <1>4 DEF WrapKeyRef

\* The policy's check of the subject lets no revoked subject through.
LEMMA SubjectCheckStep ==
    ASSUME TablesInv, req \in [Requests -> Handlers], NEW r \in Requests, HandlerInv(r), EvaluateSubject(r)
    PROVE  Handled(r) /\ SpendKept(r)
<1>0. UNCHANGED tables /\ req[r].pc = "subject" /\ "node" \in Pcs
  BY DEF EvaluateSubject, At, Pcs, InFlight, Statements
<1>1. CASE Deny(r)
  BY <1>1, DeniedHandler DEF HandlerInv
<1>2. CASE subjects[req[r].subject] = "allowed" /\ Goto(r, "node")
  <2>1. ~req[r].revoked /\ req[r].subject \in Subjects /\ req[r].op \in Operations
    BY <1>0, <1>2 DEF HandlerInv, SubjectInv, TablesInv, RevokedInv, InFlight, Statements
  <2>2. Moved(r, "node")
    BY <1>0, <1>2, MovedHandler
  <2>3. SpendInv(r)'
    BY <1>0, <2>2 DEF Moved, HandlerInv, SpendInv, BeforeSpending, AfterSpending, Deciding
  <2>4. SubjectInv(r)'
    BY <2>1, <2>2 DEF Moved, SubjectInv
  <2>5. NodeInv(r)' /\ BlobInv(r)'
    BY <1>0, <2>2, SameTables DEF Moved, HandlerInv, NodeInv, BlobInv, Genuine
  <2> QED
    BY <2>2, <2>3, <2>4, <2>5 DEF Moved, Handled, HandlerInv
<1> QED
  BY <1>1, <1>2 DEF EvaluateSubject

\* The policy's check of the node lets through only a node whose evidence rests
\* on an enrollment.
LEMMA NodeCheckStep ==
    ASSUME TablesInv, req \in [Requests -> Handlers], NEW r \in Requests, HandlerInv(r), EvaluateNodeEvidence(r)
    PROVE  Handled(r) /\ SpendKept(r)
<1>0. UNCHANGED tables /\ req[r].pc = "node" /\ "challenge" \in Pcs
  BY DEF EvaluateNodeEvidence, At, Pcs, InFlight, Statements
<1>1. CASE Deny(r)
  BY <1>1, DeniedHandler DEF HandlerInv
<1>2. CASE NodeAccepted(req[r].node, req[r].uid) /\ Goto(r, "challenge")
  <2>2. Moved(r, "challenge")
    BY <1>0, <1>2, MovedHandler
  <2>3. SpendInv(r)'
    BY <1>0, <2>2 DEF Moved, HandlerInv, SpendInv, BeforeSpending, AfterSpending, Deciding
  <2>4. SubjectInv(r)'
    BY <1>0, <2>2, SameTables DEF Moved, HandlerInv, SubjectInv, InFlight, Statements
  <2>5. BlobInv(r)'
    BY <1>0, <2>2, SameTables DEF Moved, HandlerInv, BlobInv, Genuine
  <2>6. ~AllowFakeLocal /\ req[r].barred >= 0 => enrollment[req[r].node].rev > req[r].barred
    <3> SUFFICES ASSUME ~AllowFakeLocal, req[r].barred >= 0 PROVE enrollment[req[r].node].rev > req[r].barred
      OBVIOUS
    <3>1. /\ req[r].node \in Nodes /\ enrollment[req[r].node].rev >= req[r].barred
          /\ enrollment[req[r].node].rev = req[r].barred => ~enrollment[req[r].node].active
      BY DEF HandlerInv, NodeInv
    <3>2. enrollment[req[r].node].active
      BY <1>2, <3>1, EvidenceAssumption DEF NodeAccepted, Fresh, TablesInv, EvidenceInv
    <3>3. enrollment[req[r].node].rev \in Int /\ req[r].barred \in Int
      BY <3>1 DEF TablesInv, TableTypes, EnrollmentRows, Handlers
    <3> QED
      BY <3>1, <3>2, <3>3
  <2>7. NodeInv(r)'
    BY <1>0, <2>2, <2>6, SameTables DEF Moved, HandlerInv, NodeInv
  <2> QED
    BY <2>2, <2>3, <2>4, <2>5, <2>7 DEF Moved, Handled, HandlerInv
<1> QED
  BY <1>1, <1>2 DEF EvaluateNodeEvidence

\* A challenge that cannot be spent denies the request.
LEMMA RefusedChallengeStep ==
    ASSUME req \in [Requests -> Handlers], NEW r \in Requests, HandlerInv(r), ConsumeChallenge(r), ~Spendable(r)
    PROVE  Handled(r) /\ SpendKept(r) /\ UNCHANGED challenges
<1>1. Deny(r) /\ UNCHANGED challenges
  BY DEF ConsumeChallenge
<1> QED
  BY <1>1, DeniedHandler DEF HandlerInv

\* A challenge that can is spent by this request.
LEMMA SpendStep ==
    ASSUME req \in [Requests -> Handlers], NEW r \in Requests, HandlerInv(r), ConsumeChallenge(r), Spendable(r)
    PROVE  /\ Handled(r) /\ ~req[r].spent /\ req'[r].spent
           /\ req'[r].chal = req[r].chal /\ req'[r].subject = req[r].subject /\ req'[r].op = req[r].op
           /\ challenges' = [challenges EXCEPT ![req[r].chal].status = "spent"]
           /\ req[r].chal \in Challenges
<1>0. /\ UNCHANGED tables /\ req[r].pc = "challenge" /\ "key" \in Pcs
      /\ challenges' = [challenges EXCEPT ![req[r].chal].status = "spent"]
      /\ req' = [req EXCEPT ![r].pc = "key", ![r].spent = TRUE]
  BY DEF ConsumeChallenge, At, Pcs, InFlight, Statements
<1>1. req'[r] = [req[r] EXCEPT !.pc = "key", !.spent = TRUE] /\ req[r] \in Handlers
  BY <1>0
<1>2. req'[r] \in Handlers
  BY <1>0, <1>1, ZenonT(30) DEF Handlers
<1>3. /\ req'[r].pc = "key" /\ req'[r].spent /\ req'[r].chal = req[r].chal
      /\ req'[r].op = req[r].op /\ req'[r].subject = req[r].subject /\ req'[r].node = req[r].node
      /\ req'[r].ref = req[r].ref /\ req'[r].blob = req[r].blob
      /\ req'[r].outcome = req[r].outcome /\ req'[r].revoked = req[r].revoked
      /\ req'[r].barred = req[r].barred
  BY <1>1 DEF Handlers
<1>4. req[r].chal \in Challenges
  BY DEF Spendable, Handlers
<1>5. SpendInv(r)' /\ ~req[r].spent
  BY <1>0, <1>3, <1>4 DEF HandlerInv, SpendInv, BeforeSpending, AfterSpending, Deciding
<1>6. SubjectInv(r)'
  BY <1>0, <1>3, SameTables DEF HandlerInv, SubjectInv, InFlight, Statements
<1>7. NodeInv(r)'
  BY <1>0, <1>3, SameTables DEF HandlerInv, NodeInv
<1>8. BlobInv(r)'
  BY <1>0, <1>3, SameTables DEF HandlerInv, BlobInv, Genuine
<1> QED
  BY <1>0, <1>2, <1>3, <1>4, <1>5, <1>6, <1>7, <1>8 DEF Handled, HandlerInv

\* The key's status is checked.
LEMMA KeyCheckStep ==
    ASSUME req \in [Requests -> Handlers], NEW r \in Requests, HandlerInv(r), EvaluateKey(r)
    PROVE  Handled(r) /\ SpendKept(r)
<1>0. UNCHANGED tables /\ req[r].pc = "key" /\ "use" \in Pcs
  BY DEF EvaluateKey, At, Pcs, InFlight, Statements
<1>1. CASE Deny(r)
  BY <1>1, DeniedHandler DEF HandlerInv
<1>2. CASE KeyAccepted(req[r].op, req[r].ref) /\ Goto(r, "use")
  <2>1. req[r].ref \in Usable
    BY <1>0, <1>2 DEF KeyAccepted, Usable, UsableStatuses, Present, HandlerInv, SubjectInv, Operations,
       InFlight, Statements
  <2>2. Moved(r, "use")
    BY <1>0, <1>2, MovedHandler
  <2>3. SpendInv(r)'
    BY <1>0, <2>2 DEF Moved, HandlerInv, SpendInv, BeforeSpending, AfterSpending, Deciding
  <2>4. SubjectInv(r)'
    BY <1>0, <2>2, SameTables DEF Moved, HandlerInv, SubjectInv, InFlight, Statements
  <2>5. NodeInv(r)'
    BY <1>0, <2>2, SameTables DEF Moved, HandlerInv, NodeInv
  <2>6. BlobInv(r)'
    BY <1>0, <2>1, <2>2, SameTables DEF Moved, HandlerInv, BlobInv, Genuine
  <2> QED
    BY <2>2, <2>3, <2>4, <2>5, <2>6 DEF Moved, Handled, HandlerInv
<1> QED
  BY <1>1, <1>2 DEF EvaluateKey

\* The keyring is loaded again and used.
LEMMA UseStep ==
    ASSUME TablesInv, req \in [Requests -> Handlers], NEW r \in Requests, HandlerInv(r), UseKeyring(r)
    PROVE  Handled(r) /\ SpendKept(r)
<1>0. /\ UNCHANGED tables /\ req[r].pc = "use" /\ "audit" \in Pcs /\ req[r].ref \in Usable /\ req[r].spent
      /\ req[r] \in Handlers
  BY DEF UseKeyring, At, Pcs, InFlight, HandlerInv, BlobInv, SpendInv, AfterSpending
<1>1. CASE req' = [req EXCEPT ![r] = [Kept(r) EXCEPT !.pc = "reply", !.outcome = "deny"]]
  <2>1. req'[r] = [Kept(r) EXCEPT !.pc = "reply", !.outcome = "deny"]
    BY <1>1
  <2> QED
    BY <1>0, <2>1, ClosedHandler, Zenon DEF Handled, HandlerInv
<1>2. ASSUME NEW blob \in Blobs, blob = NoBlob \/ Genuine(blob),
             req[r].op = "unwrap" /\ blob # NoBlob => blob.version = req[r].ref,
             req[r].op = "wrap" => Genuine(blob) /\ blob.version >= req[r].ref,
             req'[r] = [req[r] EXCEPT !.pc = "audit", !.outcome = "allow", !.blob = blob]
      PROVE  Handled(r) /\ SpendKept(r)
  <2>1. req'[r] \in Handlers
    BY <1>0, <1>2, ZenonT(60) DEF Handlers
  <2>2. /\ req'[r].pc = "audit" /\ req'[r].outcome = "allow" /\ req'[r].blob = blob
        /\ req'[r].spent = req[r].spent /\ req'[r].chal = req[r].chal /\ req'[r].op = req[r].op
        /\ req'[r].subject = req[r].subject /\ req'[r].node = req[r].node /\ req'[r].ref = req[r].ref
        /\ req'[r].revoked = req[r].revoked /\ req'[r].barred = req[r].barred
    BY <1>0, <1>2, ZenonT(30) DEF Handlers
  <2>3. SpendInv(r)' /\ SpendKept(r)
    BY <1>0, <2>2 DEF HandlerInv, SpendInv, SpendKept, BeforeSpending, AfterSpending, Deciding
  <2>4. SubjectInv(r)'
    BY <1>0, <2>2, SameTables DEF HandlerInv, SubjectInv, InFlight, Statements
  <2>5. NodeInv(r)'
    BY <1>0, <2>2, SameTables DEF HandlerInv, NodeInv
  <2>6. BlobInv(r)'
    BY <1>0, <1>2, <2>2, SameTables DEF BlobInv, Genuine
  <2> QED
    BY <2>1, <2>3, <2>4, <2>5, <2>6 DEF Handled, HandlerInv
<1>3. CASE /\ KeyringLoads /\ req[r].op = "wrap"
           /\ req' = [req EXCEPT ![r].pc = "audit", ![r].outcome = "allow",
                  ![r].blob = [version |-> WrapVersion(r), material |-> keyMaterial[WrapVersion(r)]]]
  <2> DEFINE v == WrapVersion(r)
             blob == [version |-> v, material |-> keyMaterial[v]]
  <2>1. v \in Active
    BY <1>3 DEF KeyringLoads, WrapVersion, ActiveVersion
  <2>2. v \in Usable /\ v \in 0..MaxKeyVersion /\ keyMaterial[v] \in Materials
    BY <2>1, MaxKeyVersionAssumption DEF Active, Usable, UsableStatuses, Versions, TablesInv, TableTypes
  <2>3. req[r].ref <= v /\ req[r].ref \in Nat
    BY <1>0, <2>1 DEF TablesInv, KeysInv, Handlers
  <2>4. req'[r] = [req[r] EXCEPT !.pc = "audit", !.outcome = "allow", !.blob = blob]
    BY <1>3
  <2> HIDE DEF v
  <2>5. blob \in Blobs /\ Genuine(blob) /\ blob.version >= req[r].ref
    BY <2>2, <2>3 DEF Blobs, Genuine
  <2> QED
    BY <1>2, <1>3, <2>4, <2>5, Zenon
<1>4. CASE req[r].op = "unwrap" /\ req' = [req EXCEPT ![r].pc = "audit", ![r].outcome = "allow"]
  <2>1. req'[r] = [req[r] EXCEPT !.pc = "audit", !.outcome = "allow", !.blob = req[r].blob]
    BY <1>0, <1>4, ZenonT(30) DEF Handlers
  <2>2. req[r].blob \in Blobs
    BY <1>0 DEF Handlers
  <2> QED
    BY <1>2, <1>4, <2>1, <2>2, Zenon DEF HandlerInv, BlobInv
<1> QED
  BY <1>1, <1>3, <1>4 DEF UseKeyring

\* The decision is audited, or not, and the call answered.
LEMMA AnswerStep ==
    ASSUME req \in [Requests -> Handlers], NEW r \in Requests, HandlerInv(r), AuditDecision(r) \/ Reply(r)
    PROVE  Handled(r) /\ SpendKept(r)
<1>0. UNCHANGED tables /\ req[r].pc \in {"audit", "reply"} /\ {"reply", "done"} \subseteq Pcs /\ req[r] \in Handlers
  BY DEF AuditDecision, Reply, At, Pcs, InFlight
<1>1. ASSUME NEW pc \in {"reply", "done"}, Moved(r, pc) PROVE Handled(r) /\ SpendKept(r)
  <2>1. SpendInv(r)'
    BY <1>0, <1>1 DEF Moved, HandlerInv, SpendInv, BeforeSpending, AfterSpending, Deciding
  <2>2. SubjectInv(r)'
    BY <1>0, <1>1, SameTables DEF Moved, HandlerInv, SubjectInv, InFlight, Statements
  <2>3. NodeInv(r)'
    BY <1>0, <1>1, SameTables, ZenonT(30) DEF Moved, HandlerInv, NodeInv
  <2>4. BlobInv(r)'
    BY <1>0, <1>1, SameTables, Zenon DEF Moved, HandlerInv, BlobInv, Genuine
  <2> QED
    BY <1>1, <2>1, <2>2, <2>3, <2>4 DEF Moved, Handled, HandlerInv
<1>2. CASE Reply(r)
  BY <1>0, <1>1, <1>2, MovedHandler DEF Reply
<1>3. CASE AuditDecision(r)
  <2>1. PICK taken \in BOOLEAN : req' = [req EXCEPT ![r].pc = "reply", ![r].audited = taken]
    BY <1>3, Zenon DEF AuditDecision
  <2>2. req'[r] = [req[r] EXCEPT !.pc = "reply", !.audited = taken]
    BY <2>1
  <2>3. req'[r] \in Handlers
    BY <1>0, <2>2, ZenonT(30) DEF Handlers
  <2>4. Moved(r, "reply")
    BY <1>0, <2>2, <2>3 DEF Moved, SpendKept, Handlers
  <2> QED
    BY <1>1, <2>4
<1> QED
  BY <1>2, <1>3

HandlersInv == req \in [Requests -> Handlers] /\ \A r \in Requests : HandlerInv(r)

\* A step of one handler.
LEMMA RequestStep ==
    ASSUME TablesInv, HandlersInv, NEW r \in Requests,
           Arrive(r) \/ Reject(r) \/ StatementFails(r) \/ Handle(r)
    PROVE  /\ Handled(r) /\ UNCHANGED tables
           /\ DOMAIN req' = Requests /\ \A q \in Requests : q # r => req'[q] = req[q]
           /\ \/ SpendKept(r) /\ UNCHANGED challenges
              \/ ConsumeChallenge(r) /\ Spendable(r)
<1>0. req \in [Requests -> Handlers] /\ HandlerInv(r) /\ SpendInv(r)
  BY DEF HandlersInv, HandlerInv
<1>1. UNCHANGED tables /\ (UNCHANGED challenges \/ ConsumeChallenge(r))
  BY Zenon DEF Arrive, Reject, StatementFails, Handle, WrapKeyRef, EvaluateSubject, EvaluateNodeEvidence,
     ConsumeChallenge, EvaluateKey, UseKeyring, AuditDecision, Reply
<1>2. \E rec : req' = [req EXCEPT ![r] = rec]
  <2>1. \A pc : Goto(r, pc) => req' = [req EXCEPT ![r] = [req[r] EXCEPT !.pc = pc]]
    BY DEF Goto
  <2>2. Deny(r) => \E rec : req' = [req EXCEPT ![r] = rec]
    BY Zenon DEF Deny
  <2>3. CASE Arrive(r)
    BY <2>3, Zenon DEF Arrive
  <2>4. CASE \/ Reject(r) \/ StatementFails(r) \/ EvaluateSubject(r) \/ EvaluateNodeEvidence(r)
             \/ EvaluateKey(r) \/ Reply(r)
    BY <2>1, <2>2, <2>4 DEF Reject, StatementFails, EvaluateSubject, EvaluateNodeEvidence, EvaluateKey, Reply
  <2>5. CASE WrapKeyRef(r)
    BY <2>1, <2>2, <2>5 DEF WrapKeyRef
  <2>6. CASE ConsumeChallenge(r)
    BY <2>2, <2>6 DEF ConsumeChallenge
  <2>7. CASE UseKeyring(r)
    BY <2>7 DEF UseKeyring
  <2>8. CASE AuditDecision(r)
    BY <2>8, Zenon DEF AuditDecision
  <2> QED
    BY <2>3, <2>4, <2>5, <2>6, <2>7, <2>8 DEF Handle
<1>3. DOMAIN req' = Requests /\ \A q \in Requests : q # r => req'[q] = req[q]
  BY <1>0, <1>2
<1>4. CASE Arrive(r)
  BY <1>0, <1>1, <1>3, <1>4, ArriveStep, Zenon DEF HandlersInv, Arrive
<1>5. CASE Reject(r) \/ StatementFails(r)
  BY <1>0, <1>1, <1>3, <1>5, DeniedHandler DEF Reject, StatementFails
<1>6. CASE ConsumeChallenge(r)
  BY <1>0, <1>1, <1>3, <1>6, RefusedChallengeStep, SpendStep, Zenon
<1>7. CASE WrapKeyRef(r) \/ EvaluateSubject(r) \/ EvaluateNodeEvidence(r) \/ EvaluateKey(r) \/ UseKeyring(r)
           \/ AuditDecision(r) \/ Reply(r)
  <2>1. UNCHANGED challenges
    BY <1>7 DEF WrapKeyRef, EvaluateSubject, EvaluateNodeEvidence, EvaluateKey, UseKeyring, AuditDecision, Reply
  <2>2. Handled(r) /\ SpendKept(r)
    BY <1>0, <1>7, KeyRefStep, SubjectCheckStep, NodeCheckStep, KeyCheckStep, UseStep, AnswerStep
  <2> QED
    BY <1>1, <1>3, <2>1, <2>2
<1> QED
  BY <1>4, <1>5, <1>6, <1>7, Zenon DEF Handle

\* The broker stops: every handler in flight is lost.
LEMMA StopStep ==
    ASSUME HandlersInv, TableTypes, TableTypes', TablesKept, StopBroker
    PROVE  HandlersInv' /\ \A r \in Requests : SpendKept(r)
<1>1. req' = [r \in Requests |->
                IF req[r].pc \in InFlight THEN [Kept(r) EXCEPT !.pc = "lost"] ELSE req[r]]
  BY DEF StopBroker
<1>2. ASSUME NEW r \in Requests PROVE req'[r] \in Handlers /\ HandlerInv(r)' /\ SpendKept(r)
  <2>0. req[r] \in Handlers /\ HandlerInv(r) /\ SpendInv(r)
    BY DEF HandlersInv, HandlerInv
  <2>1. CASE req'[r] = [Kept(r) EXCEPT !.pc = "lost"]
    BY <2>0, <2>1, ClosedHandler, Zenon
  <2>2. CASE req'[r] = req[r]
    BY <2>0, <2>2, RestingHandler DEF SpendKept
  <2> QED
    BY <1>1, <2>1, <2>2
<1>3. req' \in [Requests -> Handlers]
  BY <1>1, <1>2
<1> QED
  BY <1>2, <1>3 DEF HandlersInv

--------------------------------------------------------------------------------
(* Challenges *)

ChallengeRows ==
    [status : {"absent", "open", "spent"}, subject : Subjects \union {"none"},
     op : Operations \union {"none"}, expires : 0..(MaxTime + ChallengeTTL)]

Spenders(c) == {r \in Requests : req[r].spent /\ req[r].chal = c}

SpentOnce(c) ==
    IF challenges[c].status = "spent"
    THEN \E r \in Spenders(c) : /\ Spenders(c) = {r}
                                /\ challenges[c].subject = req[r].subject
                                /\ challenges[c].op = req[r].op
    ELSE Spenders(c) = {}

ChallengesInv == challenges \in [Challenges -> ChallengeRows] /\ \A c \in Challenges : SpentOnce(c)

\* Handlers that keep what they spent keep a challenge that is spent, or not.
LEMMA RestingChallenge ==
    ASSUME NEW c \in Challenges, SpentOnce(c), \A r \in Requests : SpendKept(r) /\ (req[r].spent \in BOOLEAN),
           challenges'[c].status = "spent" <=> challenges[c].status = "spent",
           challenges[c].status = "spent" => challenges'[c] = challenges[c],
           \A r \in Requests : req'[r].spent \in BOOLEAN
    PROVE  SpentOnce(c)'
<1>1. Spenders(c)' = Spenders(c)
  BY DEF Spenders, SpendKept
<1>2. CASE challenges[c].status = "spent"
  <2>1. PICK r \in Spenders(c) : /\ Spenders(c) = {r} /\ challenges[c].subject = req[r].subject
                                 /\ challenges[c].op = req[r].op
    BY <1>2 DEF SpentOnce
  <2>2. r \in Requests /\ req[r].spent
    BY DEF Spenders
  <2>3. req'[r].subject = req[r].subject /\ req'[r].op = req[r].op
    BY <2>2 DEF SpendKept
  <2> QED
    BY <1>1, <1>2, <2>1, <2>3 DEF SpentOnce
<1>3. CASE challenges[c].status # "spent"
  BY <1>1, <1>3 DEF SpentOnce
<1> QED
  BY <1>2, <1>3

\* Every step keeps handlers and challenges.
LEMMA ServiceStep ==
    ASSUME TablesInv, HandlersInv, ChallengesInv, ServiceNext \/ UNCHANGED serviceVars
    PROVE  HandlersInv' /\ ChallengesInv'
<1>0. TableTypes /\ TableTypes' /\ TablesKept
  BY TablesStep DEF TablesInv
<1>1. ASSUME \A r \in Requests : SpendKept(r), HandlersInv', UNCHANGED challenges PROVE ChallengesInv'
  <2>1. \A r \in Requests : req[r].spent \in BOOLEAN /\ req'[r].spent \in BOOLEAN
    BY <1>1 DEF HandlersInv, Handlers
  <2>2. \A c \in Challenges : SpentOnce(c)'
    BY <1>1, <2>1, RestingChallenge DEF ChallengesInv
  <2> QED
    BY <1>1, <2>2 DEF ChallengesInv
<1>2. ASSUME UNCHANGED req PROVE HandlersInv' /\ \A r \in Requests : SpendKept(r)
  BY <1>0, <1>2, RestingHandler DEF HandlersInv, SpendKept
<1>3. CASE StartBroker \/ SubjectsMove \/ KeysMove \/ EvidenceMoves \/ UNCHANGED serviceVars
  <2>1. UNCHANGED <<req, challenges>>
    BY <1>3 DEF StartBroker, SubjectsMove, KeysMove, EvidenceMoves, serviceVars
  <2> QED
    BY <1>1, <1>2, <2>1
<1>4. CASE StopBroker
  <2>1. UNCHANGED challenges
    BY <1>4 DEF StopBroker
  <2> QED
    BY <1>0, <1>1, <1>4, <2>1, StopStep
<1>5. CASE Challenge
  <2>1. PICK k \in Challenges, s \in Subjects, op \in Operations :
            /\ challenges[k].status = "absent"
            /\ challenges' = [challenges EXCEPT ![k] =
                                [status |-> "open", subject |-> s, op |-> op, expires |-> Expiry]]
    BY <1>5, Zenon DEF Challenge
  <2>2. Expiry \in 0..(MaxTime + ChallengeTTL)
    BY <1>0, ServiceAssumption, EvidenceAssumption DEF Expiry, TableTypes
  <2>3. challenges' \in [Challenges -> ChallengeRows]
    BY <2>1, <2>2 DEF ChallengesInv, ChallengeRows
  <2>4. UNCHANGED req
    BY <1>5 DEF Challenge
  <2>5. HandlersInv' /\ \A r \in Requests : SpendKept(r)
    BY <1>2, <2>4
  <2>6. \A r \in Requests : req[r].spent \in BOOLEAN /\ req'[r].spent \in BOOLEAN
    BY <2>5 DEF HandlersInv, Handlers
  <2>7. ASSUME NEW c \in Challenges PROVE SpentOnce(c)'
    <3>1. /\ challenges'[c].status = "spent" <=> challenges[c].status = "spent"
          /\ challenges[c].status = "spent" => challenges'[c] = challenges[c]
      BY <2>1 DEF ChallengesInv
    <3> QED
      BY <2>5, <2>6, <3>1, RestingChallenge DEF ChallengesInv
  <2> QED
    BY <2>3, <2>5, <2>7 DEF ChallengesInv
<1>6. ASSUME NEW r \in Requests, Arrive(r) \/ Reject(r) \/ StatementFails(r) \/ Handle(r)
      PROVE  HandlersInv' /\ ChallengesInv'
  <2>1. /\ Handled(r)
        /\ DOMAIN req' = Requests /\ \A q \in Requests : q # r => req'[q] = req[q]
        /\ \/ SpendKept(r) /\ UNCHANGED challenges
           \/ ConsumeChallenge(r) /\ Spendable(r)
    BY <1>6, RequestStep
  <2>2. \A q \in Requests : req'[q] \in Handlers /\ HandlerInv(q)'
    BY <1>0, <2>1, RestingHandler DEF Handled, HandlersInv
  <2>3. HandlersInv'
    <3>1. req' = [q \in Requests |-> req'[q]]
      BY <1>6, <2>1, Zenon DEF HandlersInv, Arrive, Reject, StatementFails, Handle, WrapKeyRef, EvaluateSubject,
         EvaluateNodeEvidence, ConsumeChallenge, EvaluateKey, UseKeyring, AuditDecision, Reply, Goto, Deny
    <3> QED
      BY <2>2, <3>1 DEF HandlersInv
  <2>4. CASE SpendKept(r) /\ UNCHANGED challenges
    BY <1>1, <2>1, <2>3, <2>4 DEF SpendKept
  <2>5. CASE ConsumeChallenge(r) /\ Spendable(r)
    <3>0. PICK k \in Challenges : k = req[r].chal
      BY <2>5, SpendStep, Zenon DEF HandlersInv
    <3>1. /\ ~req[r].spent /\ req'[r].spent
          /\ req'[r].chal = k /\ req'[r].subject = req[r].subject /\ req'[r].op = req[r].op
          /\ challenges' = [challenges EXCEPT ![k].status = "spent"]
      BY <2>5, <3>0, SpendStep DEF HandlersInv
    <3>2. challenges[k].status = "open" /\ challenges[k].subject = req[r].subject /\ challenges[k].op = req[r].op
      BY <2>5, <3>0 DEF Spendable
    <3>3. /\ challenges' \in [Challenges -> ChallengeRows] /\ challenges'[k].status = "spent"
          /\ challenges'[k].subject = challenges[k].subject /\ challenges'[k].op = challenges[k].op
          /\ \A c \in Challenges : c # k => challenges'[c] = challenges[c]
      BY <3>1 DEF ChallengesInv, ChallengeRows
    <3>4. Spenders(k) = {}
      BY <3>1, <3>2 DEF ChallengesInv, SpentOnce
    <3>5. Spenders(k)' = {r}
      BY <2>1, <3>1, <3>4 DEF Spenders
    <3>6. SpentOnce(k)'
      BY <3>1, <3>2, <3>3, <3>5 DEF SpentOnce
    <3>7. ASSUME NEW c \in Challenges, c # k PROVE SpentOnce(c)'
      <4>1. Spenders(c)' = Spenders(c) /\ r \notin Spenders(c)
        BY <2>1, <3>1, <3>7 DEF Spenders
      <4>2. \A q \in Spenders(c) : req'[q] = req[q]
        BY <2>1, <4>1 DEF Spenders
      <4> QED
        BY <3>3, <3>7, <4>1, <4>2 DEF ChallengesInv, SpentOnce
    <3> QED
      BY <2>3, <3>3, <3>6, <3>7 DEF ChallengesInv
  <2> QED
    BY <2>1, <2>3, <2>4, <2>5
<1> QED
  BY <1>3, <1>4, <1>5, <1>6 DEF ServiceNext

--------------------------------------------------------------------------------
(* The theorems *)

\* The inductive invariant of the whole service.
ServiceInv == TablesInv /\ HandlersInv /\ ChallengesInv

\* The invariant is inductive.
LEMMA ServiceInductive == ServiceSpec => []ServiceInv
<1>1. ServiceInit => ServiceInv
  <2> SUFFICES ASSUME ServiceInit PROVE TablesInv /\ HandlersInv /\ ChallengesInv
    BY DEF ServiceInv
  <2>1. NoEvidence \in EvidenceRows /\ NotEnrolled \in EnrollmentRows /\ "none" \in Materials /\ 0 \in 0..MaxTime
    BY EvidenceAssumption, NoMaterialAssumption DEF NoEvidence, NotEnrolled, EvidenceRows, EnrollmentRows, Times
  <2>2. TableTypes
    BY <2>1, Zenon DEF ServiceInit, LifecycleInit, EvidenceInit, SubjectInit, TableTypes, KeyStatuses
  <2>3. KeysInv /\ RevokedInv /\ EvidenceInv
    BY DEF ServiceInit, LifecycleInit, EvidenceInit, SubjectInit, KeysInv, RevokedInv, EvidenceInv,
       Present, Active, Usable, UsableStatuses, NoEvidence
  <2>4. NewRequest \in Handlers
    <3>1. NoBlob \in Blobs
      BY MaxKeyVersionAssumption, NoMaterialAssumption DEF NoBlob, Blobs
    <3> QED
      BY <3>1, MaxKeyVersionAssumption, EvidenceAssumption DEF NewRequest, Handlers, Pcs
  <2>5. HandlersInv
    <3>1. req \in [Requests -> Handlers]
      BY <2>4 DEF ServiceInit
    <3>a. /\ NewRequest.pc = "new" /\ NewRequest.op = "none" /\ NewRequest.outcome = "none"
          /\ NewRequest.spent = FALSE /\ NewRequest.revoked = FALSE
          /\ NewRequest.blob = NoBlob /\ NewRequest.barred = -1
      BY DEF NewRequest
    <3>2. \A r \in Requests : req[r] = NewRequest
      BY DEF ServiceInit
    <3>3. \A r \in Requests : SpendInv(r) /\ SubjectInv(r)
      BY <3>a, <3>2 DEF SpendInv, SubjectInv, BeforeSpending, AfterSpending, Deciding, InFlight, Statements
    <3>4. \A r \in Requests : NodeInv(r) /\ BlobInv(r)
      BY <3>a, <3>2 DEF NodeInv, BlobInv
    <3> QED
      BY <3>1, <3>3, <3>4 DEF HandlersInv, HandlerInv
  <2>6. ChallengesInv
    <3>1. NoChallenge \in ChallengeRows
      BY ServiceAssumption, EvidenceAssumption DEF NoChallenge, ChallengeRows
    <3>2. \A c \in Challenges : Spenders(c) = {}
      BY DEF ServiceInit, NewRequest, Spenders
    <3> QED
      BY <3>1, <3>2 DEF ServiceInit, NoChallenge, ChallengesInv, SpentOnce
  <2> QED
    BY <2>2, <2>3, <2>5, <2>6 DEF TablesInv
<1>2. ServiceInv /\ [ServiceNext]_serviceVars => ServiceInv'
  BY TablesStep, ServiceStep DEF ServiceInv
<1> QED
  BY <1>1, <1>2, PTL DEF ServiceSpec

\* Tables and handlers keep their types in every execution of the service.
THEOREM ServiceTypeCorrect == ServiceSpec => []ServiceTypeOK
<1>1. ServiceInv => ServiceTypeOK
  BY DEF ServiceInv, TablesInv, TableTypes, HandlersInv, Handlers, Blobs, ChallengesInv, ChallengeRows, ServiceTypeOK
<1> QED
  BY <1>1, ServiceInductive, PTL

\* Every key that Wrap or Unwrap releases costs a challenge of its own.
THEOREM ChallengesSpentOnce == ServiceSpec => []ChallengeSingleUse
<1>1. ServiceInv => ChallengeSingleUse
  BY Zenon DEF ServiceInv, HandlersInv, HandlerInv, SpendInv, ChallengesInv, SpentOnce, Spenders, ChallengeSingleUse
<1> QED
  BY <1>1, ServiceInductive, PTL

\* The policy never allows a request that arrived after its subject was revoked.
THEOREM RevokedSubjectsDenied == ServiceSpec => []RevokedSubjectsStayOut
<1>1. ServiceInv => RevokedSubjectsStayOut
  BY DEF ServiceInv, HandlersInv, HandlerInv, SubjectInv, RevokedSubjectsStayOut
<1> QED
  BY <1>1, ServiceInductive, PTL

\* Without fake-local evidence, the policy never allows a request from a node
\* that was not enrolled when it arrived and has not been enrolled since.
THEOREM RevokedNodesDenied == ServiceSpec => []RevokedNodesStayOut
<1>1. ServiceInv => RevokedNodesStayOut
  BY DEF ServiceInv, HandlersInv, HandlerInv, NodeInv, RevokedNodesStayOut
<1> QED
  BY <1>1, ServiceInductive, PTL

\* What Wrap returned can be unwrapped after any rotations.
THEOREM ClientBlobsUnwrappable == ServiceSpec => []ClientBlobsStayUnwrappable
<1>1. ServiceInv => ClientBlobsStayUnwrappable
  BY DEF ServiceInv, HandlersInv, HandlerInv, BlobInv, Genuine, ClientBlobs, At, ClientBlobsStayUnwrappable
<1> QED
  BY <1>1, ServiceInductive, PTL

\* The keyring that is loaded after the policy's decision still serves it.
THEOREM DecisionsHold == ServiceSpec => []DecisionHoldsAtUse
<1>1. ServiceInv => DecisionHoldsAtUse
  <2> SUFFICES ASSUME ServiceInv, NEW r \in Requests
               PROVE  /\ At(r, "use") => KeyringLoads
                      /\ At(r, "use") /\ req[r].op = "unwrap" =>
                            req[r].ref \in Usable /\ (req[r].blob # NoBlob => Decrypts(r))
                      /\ req[r].op = "wrap" /\ req[r].outcome = "allow" => req[r].blob.version >= req[r].ref
    BY DEF DecisionHoldsAtUse
  <2>0. KeysInv /\ BlobInv(r)
    BY DEF ServiceInv, TablesInv, HandlersInv, HandlerInv
  <2>1. At(r, "use") => KeyringLoads
    <3> SUFFICES ASSUME req[r].pc = "use" PROVE KeyringLoads
      BY DEF At
    <3>1. Active # {} /\ \A a, b \in Active : a <= b
      BY <2>0 DEF BlobInv, KeysInv, Usable, Present, Active, UsableStatuses
    <3>2. PICK a \in Active : TRUE
      BY <3>1
    <3>3. Active = {a}
      BY <3>1, <3>2, MaxKeyVersionAssumption DEF Active, Versions
    <3> QED
      BY <3>2, <3>3 DEF KeyringLoads
  <2> QED
    BY <2>0, <2>1 DEF BlobInv, Genuine, Decrypts, At
<1> QED
  BY <1>1, ServiceInductive, PTL

--------------------------------------------------------------------------------
(* Passing the checks *)

\* The handler has passed the check of its subject; of its node.
PassedSubject(r) == req[r].pc \in {"node", "challenge", "key", "use"} \/ req[r].outcome = "allow"
PassedNode(r) == req[r].pc \in {"challenge", "key", "use"} \/ req[r].outcome = "allow"

\* What one step of a handler adds to what it has passed.
Passes(r) ==
    PassedSubject(r)' =>
        /\ req'[r].subject = req[r].subject /\ req'[r].node = req[r].node
        /\ PassedSubject(r) \/ (At(r, "subject") /\ subjects[req[r].subject] = "allowed")
        /\ PassedNode(r)' => PassedNode(r) \/ (At(r, "node") /\ NodeAccepted(req[r].node, req[r].uid))

\* A handler that is denied or lost has passed nothing.
LEMMA ClosedPasses ==
    ASSUME NEW r \in Requests, req \in [Requests -> Handlers],
           \/ \E pc \in {"audit", "reply"} : req'[r] = [Kept(r) EXCEPT !.pc = pc, !.outcome = "deny"]
           \/ req'[r] = [Kept(r) EXCEPT !.pc = "lost"]
    PROVE  ~PassedSubject(r)'
<1>1. Kept(r) \in Handlers /\ Kept(r).outcome = "none"
  BY KeptHandler
<1>2. req'[r].pc \in {"audit", "reply", "lost"} /\ req'[r].outcome \in {"none", "deny"}
  BY <1>1, ZenonT(30) DEF Handlers
<1> QED
  BY <1>2 DEF PassedSubject

\* A handler passes a check in the step that makes it, or has passed it.
LEMMA HandlerPasses ==
    ASSUME TablesInv, HandlersInv, NEW r \in Requests, Arrive(r) \/ Reject(r) \/ StatementFails(r) \/ Handle(r)
    PROVE  Passes(r)
<1>0. /\ req \in [Requests -> Handlers] /\ req[r].outcome \in {"none", "allow", "deny"}
      /\ req[r].pc \in Deciding => req[r].outcome = "none"
  BY DEF HandlersInv, HandlerInv, SpendInv, Handlers
<1>1. Deny(r) => ~PassedSubject(r)'
  <2>1. Deny(r) => req'[r] = [Kept(r) EXCEPT !.pc = "audit", !.outcome = "deny"]
    BY <1>0 DEF Deny
  <2> QED
    BY <1>0, <2>1, ClosedPasses, Zenon
<1>2. \A pc \in Pcs : Goto(r, pc) => Moved(r, pc)
  BY <1>0, MovedHandler
<1>3. CASE Arrive(r)
  <2>1. req'[r].pc \in {"keyref", "subject"} /\ req'[r].outcome = "none"
    BY <1>0, <1>3, ArriveStep DEF HandlersInv
  <2> QED
    BY <2>1 DEF Passes, PassedSubject
<1>4. CASE Reject(r) \/ StatementFails(r)
  BY <1>1, <1>4 DEF Reject, StatementFails, Passes
<1>5. CASE WrapKeyRef(r)
  <2>1. CASE Deny(r)
    BY <1>1, <2>1 DEF Passes
  <2>2. CASE Goto(r, "subject") \/ req' = [req EXCEPT ![r].pc = "subject", ![r].ref = ActiveVersion]
    <3>1. req'[r].pc = "subject" /\ req'[r].outcome = req[r].outcome
      BY <1>0, <2>2 DEF Goto, Handlers
    <3>2. req[r].outcome = "none"
      BY <1>0, <1>5 DEF WrapKeyRef, At, Deciding, BeforeSpending
    <3> QED
      BY <3>1, <3>2 DEF Passes, PassedSubject
  <2> QED
    BY <1>5, <2>1, <2>2 DEF WrapKeyRef
<1>6. CASE EvaluateSubject(r)
  <2>1. CASE Deny(r)
    BY <1>1, <2>1 DEF Passes
  <2>2. CASE Goto(r, "node") /\ subjects[req[r].subject] = "allowed"
    <3>1. Moved(r, "node")
      BY <1>2, <2>2 DEF Pcs, InFlight, Statements
    <3>2. At(r, "subject") /\ req[r].outcome = "none"
      BY <1>0, <1>6, Zenon DEF EvaluateSubject, At, Deciding, BeforeSpending
    <3> QED
      BY <2>2, <3>1, <3>2 DEF Passes, PassedNode, Moved
  <2> QED
    BY <1>6, <2>1, <2>2 DEF EvaluateSubject
<1>7. CASE EvaluateNodeEvidence(r)
  <2>1. CASE Deny(r)
    BY <1>1, <2>1 DEF Passes
  <2>2. CASE Goto(r, "challenge") /\ NodeAccepted(req[r].node, req[r].uid)
    <3>1. Moved(r, "challenge")
      BY <1>2, <2>2 DEF Pcs, InFlight, Statements
    <3> QED
      BY <1>7, <2>2, <3>1 DEF EvaluateNodeEvidence, At, Passes, PassedSubject, Moved
  <2> QED
    BY <1>7, <2>1, <2>2 DEF EvaluateNodeEvidence
<1>8. CASE ConsumeChallenge(r)
  <2>1. CASE Deny(r)
    BY <1>1, <2>1 DEF Passes
  <2>2. CASE req' = [req EXCEPT ![r].pc = "key", ![r].spent = TRUE]
    <3>1. req'[r].subject = req[r].subject /\ req'[r].node = req[r].node
      BY <1>0, <2>2 DEF Handlers
    <3> QED
      BY <1>8, <3>1 DEF ConsumeChallenge, At, Passes, PassedSubject, PassedNode
  <2> QED
    BY <1>8, <2>1, <2>2 DEF ConsumeChallenge
<1>9. CASE EvaluateKey(r)
  <2>1. CASE Deny(r)
    BY <1>1, <2>1 DEF Passes
  <2>2. CASE Goto(r, "use")
    <3>1. Moved(r, "use")
      BY <1>2, <2>2 DEF Pcs, InFlight
    <3> QED
      BY <1>9, <3>1 DEF EvaluateKey, At, Passes, PassedSubject, PassedNode, Moved
  <2> QED
    BY <1>9, <2>1, <2>2 DEF EvaluateKey
<1>10. CASE UseKeyring(r)
  <2>1. CASE req' = [req EXCEPT ![r] = [Kept(r) EXCEPT !.pc = "reply", !.outcome = "deny"]]
    <3>1. req'[r] = [Kept(r) EXCEPT !.pc = "reply", !.outcome = "deny"]
      BY <1>0, <2>1
    <3> QED
      BY <1>0, <3>1, ClosedPasses, Zenon DEF Passes
  <2>2. CASE req' = [req EXCEPT ![r].pc = "audit", ![r].outcome = "allow",
                                ![r].blob = [version |-> WrapVersion(r), material |-> keyMaterial[WrapVersion(r)]]]
    <3>1. req'[r].subject = req[r].subject /\ req'[r].node = req[r].node
      BY <1>0, <2>2 DEF Handlers
    <3> QED
      BY <1>10, <3>1 DEF UseKeyring, At, Passes, PassedSubject, PassedNode
  <2>3. CASE req' = [req EXCEPT ![r].pc = "audit", ![r].outcome = "allow"]
    <3>1. req'[r].subject = req[r].subject /\ req'[r].node = req[r].node
      BY <1>0, <2>3 DEF Handlers
    <3> QED
      BY <1>10, <3>1 DEF UseKeyring, At, Passes, PassedSubject, PassedNode
  <2> QED
    BY <1>10, <2>1, <2>2, <2>3 DEF UseKeyring
<1>11. CASE AuditDecision(r) \/ Reply(r)
  <2>1. /\ req'[r].pc \in {"reply", "done"} /\ req'[r].outcome = req[r].outcome
        /\ req'[r].subject = req[r].subject /\ req'[r].node = req[r].node
    BY <1>0, <1>11 DEF AuditDecision, Reply, Goto, Handlers
  <2> QED
    BY <2>1 DEF Passes, PassedSubject, PassedNode
<1> QED
  BY <1>3, <1>4, <1>5, <1>6, <1>7, <1>8, <1>9, <1>10, <1>11 DEF Handle

\* The same of every step of the service and every handler.
LEMMA EveryHandlerPasses ==
    ASSUME TablesInv, HandlersInv, ServiceNext \/ UNCHANGED serviceVars, NEW r \in Requests
    PROVE  Passes(r)
<1>0. req \in [Requests -> Handlers]
  BY DEF HandlersInv
<1>1. req'[r] = req[r] => Passes(r)
  BY DEF Passes, PassedSubject, PassedNode
<1>2. CASE StartBroker \/ SubjectsMove \/ KeysMove \/ EvidenceMoves \/ Challenge \/ UNCHANGED serviceVars
  BY <1>1, <1>2 DEF StartBroker, SubjectsMove, KeysMove, EvidenceMoves, Challenge, serviceVars
<1>3. CASE StopBroker
  <2>1. req'[r] = req[r] \/ req'[r] = [Kept(r) EXCEPT !.pc = "lost"]
    BY <1>3 DEF StopBroker
  <2> QED
    BY <1>0, <1>1, <2>1, ClosedPasses, Zenon DEF Passes
<1>4. ASSUME NEW q \in Requests, Arrive(q) \/ Reject(q) \/ StatementFails(q) \/ Handle(q)
      PROVE  Passes(r)
  <2>1. r # q => req'[r] = req[r]
    BY <1>4, RequestStep
  <2> QED
    BY <1>0, <1>1, <1>4, <2>1, HandlerPasses
<1> QED
  BY <1>2, <1>3, <1>4 DEF ServiceNext

\* Who goes past the check of the subject has passed it or is allowed now.
LEMMA SubjectPassed ==
    ASSUME ServiceInv, ServiceNext \/ UNCHANGED serviceVars, NEW r \in Requests, PassedSubject(r)'
    PROVE  /\ req'[r].subject = req[r].subject
           /\ PassedSubject(r) \/ (req[r].subject \in Subjects /\ subjects[req[r].subject] = "allowed")
<1>1. Passes(r)
  BY EveryHandlerPasses DEF ServiceInv
<1>2. At(r, "subject") => req[r].subject \in Subjects
  BY DEF At, ServiceInv, HandlersInv, HandlerInv, SubjectInv, InFlight, Statements
<1> QED
  BY <1>1, <1>2 DEF Passes

\* Accepted without fake-local, a node has TPM evidence and is enrolled.
LEMMA AcceptedNode ==
    ASSUME ServiceInv, ~AllowFakeLocal, NEW r \in Requests, req[r].node # "none",
           NodeAccepted(req[r].node, req[r].uid)
    PROVE  /\ req[r].node \in Nodes
           /\ evidence[req[r].node].provider = "generic-tpm2-quote"
           /\ enrollment[req[r].node].active
<1>1. req[r].node \in Nodes
  BY DEF ServiceInv, HandlersInv, Handlers
<1>2. evidence[req[r].node].provider # "none"
  BY DEF NodeAccepted, Fresh
<1> QED
  BY <1>1, <1>2 DEF ServiceInv, TablesInv, EvidenceInv

\* Who goes past the check of the node does so on TPM evidence with its UID.
LEMMA NodePassed ==
    ASSUME ServiceInv, ServiceNext \/ UNCHANGED serviceVars, NEW r \in Requests,
           At(r, "node"), req'[r].pc = "challenge", req[r].node # "none", ~AllowFakeLocal
    PROVE  /\ req[r].node \in Nodes
           /\ evidence[req[r].node].provider = "generic-tpm2-quote"
           /\ req[r].uid = NoUid \/ evidence[req[r].node].uid = NoUid \/ evidence[req[r].node].uid = req[r].uid
<1>1. Passes(r) /\ PassedSubject(r)' /\ PassedNode(r)'
  BY EveryHandlerPasses DEF ServiceInv, PassedSubject, PassedNode
<1>2. ~PassedNode(r)
  BY DEF ServiceInv, HandlersInv, HandlerInv, SpendInv, Deciding, BeforeSpending, PassedNode, At
<1>3. NodeAccepted(req[r].node, req[r].uid)
  BY <1>1, <1>2 DEF Passes
<1> QED
  BY <1>3, AcceptedNode DEF NodeAccepted

\* An active enrollment has a revision: the first one is 1.  So has the node of
\* a request that is past the check of its node.
NumberedInv ==
    /\ \A n \in Nodes : enrollment[n].active => enrollment[n].rev >= 1
    /\ \A r \in Requests :
          PassedNode(r) /\ req[r].node # "none" /\ ~AllowFakeLocal => enrollment[req[r].node].rev >= 1

\* A step keeps the nodes of requests enrolled at some time.
LEMMA NumberedStep ==
    ASSUME ServiceInv, NumberedInv, ServiceNext \/ UNCHANGED serviceVars
    PROVE  NumberedInv'
<1>1. TableTypes /\ TableTypes' /\ EnrollmentsKept
  BY TablesStep DEF ServiceInv, TablesInv, TablesKept
<1>2. \A n \in Nodes : enrollment[n].rev \in Nat /\ enrollment'[n].rev \in Nat
  BY <1>1, EvidenceAssumption DEF TableTypes, EnrollmentRows
<1>3. \A n \in Nodes : enrollment[n].rev >= 1 => enrollment'[n].rev >= 1
  BY <1>1, <1>2 DEF EnrollmentsKept
<1>4. \A n \in Nodes : enrollment'[n].active => enrollment'[n].rev >= 1
  BY <1>1, <1>2 DEF EnrollmentsKept, NumberedInv
<1>5. ASSUME NEW r \in Requests, PassedNode(r)', req'[r].node # "none", ~AllowFakeLocal
      PROVE  enrollment'[req'[r].node].rev >= 1
  <2>1. Passes(r) /\ PassedSubject(r)'
    BY <1>5, EveryHandlerPasses DEF ServiceInv, PassedNode, PassedSubject
  <2>2. PICK n \in Nodes : n = req[r].node /\ n = req'[r].node
    BY <1>5, <2>1 DEF Passes, ServiceInv, HandlersInv, Handlers
  <2>3. CASE PassedNode(r)
    BY <1>3, <1>5, <2>2, <2>3, Zenon DEF NumberedInv
  <2>4. CASE NodeAccepted(req[r].node, req[r].uid)
    BY <1>3, <1>5, <2>2, <2>4, AcceptedNode, Zenon DEF NumberedInv
  <2> QED
    BY <1>5, <2>1, <2>3, <2>4 DEF Passes
<1> QED
  BY <1>4, <1>5 DEF NumberedInv

\* Nodes of requests past the check of their node have a revision throughout.
LEMMA NumberedInductive == ServiceSpec => []NumberedInv
<1>1. ServiceInit => NumberedInv
  <2>1. ServiceInit => /\ \A n \in Nodes : enrollment[n].active = FALSE
                       /\ \A r \in Requests : req[r].pc = "new" /\ req[r].outcome = "none"
    BY DEF ServiceInit, EvidenceInit, NotEnrolled, NewRequest
  <2> QED
    BY <2>1 DEF NumberedInv, PassedNode
<1>2. ServiceInv /\ NumberedInv /\ [ServiceNext]_serviceVars => NumberedInv'
  BY NumberedStep
<1> QED
  BY <1>1, <1>2, ServiceInductive, PTL DEF ServiceSpec

\* The node of a release without fake-local was enrolled, and once more if the
\* request came from a barred node.
LEMMA ReleasedNode ==
    ASSUME ServiceInv, NumberedInv, NEW r \in Requests, req[r].outcome = "allow",
           ~AllowFakeLocal, req[r].node # "none"
    PROVE  /\ req[r].node \in Nodes /\ enrollment[req[r].node].rev \in Nat /\ req[r].barred \in Int
           /\ enrollment[req[r].node].rev >= 1 /\ enrollment[req[r].node].rev > req[r].barred
<1>1. PICK n \in Nodes : n = req[r].node
  BY DEF ServiceInv, HandlersInv, Handlers
<1>2. req[r].barred \in -1..MaxRevision
  BY DEF ServiceInv, HandlersInv, Handlers
<1>3. enrollment[n].rev \in Nat
  BY EvidenceAssumption DEF ServiceInv, TablesInv, TableTypes, EnrollmentRows
<1>4. enrollment[n].rev >= 1
  BY <1>1 DEF NumberedInv, PassedNode
<1>5. req[r].barred >= 0 => enrollment[n].rev > req[r].barred
  BY <1>1 DEF ServiceInv, HandlersInv, HandlerInv, NodeInv
<1> QED
  BY <1>1, <1>2, <1>3, <1>4, <1>5, EvidenceAssumption
================================================================================
