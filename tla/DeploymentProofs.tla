---------------------------- MODULE DeploymentProofs ----------------------------
(***************************************************************************)
(* Proofs about the whole deployment: seen through its own variables every   *)
(* component behaves as it was specified alone, so that what was proved of    *)
(* the components holds of the whole, and releases can be traced.            *)
(***************************************************************************)
EXTENDS Deployment, UnsealServiceProofs

--------------------------------------------------------------------------------
(* What one part's step leaves to the others *)

\* The handlers of the unseal service leave every table alone.
LEMMA UnsealKeepsTables == UnsealStep => UNCHANGED tables
  BY Zenon DEF UnsealStep, Challenge, Arrive, Reject, StatementFails, Handle, WrapKeyRef, EvaluateSubject,
     EvaluateNodeEvidence, ConsumeChallenge, EvaluateKey, UseKeyring, AuditDecision, Reply

\* The enroll and revoke commands read the clock and leave it alone.
LEMMA EnrollingKeepsTime == EnrollingStep => now' = now
  BY Zenon DEF EnrollingStep, Enrolling!EnrollRequest, Enrolling!ShellStep, Enrolling!IssueRead,
     Enrolling!IssueSubject, Enrolling!IssueRequestRow, Enrolling!IssueGrantRow, Enrolling!IssueFile,
     Enrolling!IssueAudit, Enrolling!ApplyRead, Enrolling!ApplySelect, Enrolling!ApplyUpdate,
     Enrolling!ApplySubject, Enrolling!ApplyTrust, Enrolling!ApplyAudit, Enrolling!Revoke,
     Enrolling!RevokeAudit, Enrolling!CommandFails

\* So do the handlers of the admin and enrollment services.
LEMMA PublishingKeepsTime == PublishingStep => now' = now
  BY Zenon DEF PublishingStep, Publishing!ListNodeEvidence, Publishing!PublisherStep, Publishing!AdminStep,
     Publishing!ChallengeNodeEvidence, Publishing!PublishNodeEvidence, Publishing!ReadPublishers,
     Publishing!CreateChallenge, Publishing!VerifySubmission, Publishing!ConsumeChallenge,
     Publishing!PruneBeforePut, Publishing!PutEvidence, Publishing!PublisherFails, Publishing!AdminRequest,
     Publishing!AuditAllow, Publishing!EnrollNodeEvidence, Publishing!RevokeNodeEvidence, Publishing!AdminFails,
     Publishing!tables, Publishing!evidenceVars

\* Every step is one of KeyRotation's, or leaves all it knows alone.
LEMMA RotationSeen == DeploymentNext => Rotation!KeyNext \/ UNCHANGED Rotation!keyVars
  BY UnsealKeepsTables DEF DeploymentNext, Start, Stop, StopBroker, RotationStep, PublishingStep, EnrollingStep,
     TimePasses, UnsealStep, tables, lifecycleVars, rotationVars, Rotation!keyVars, Rotation!dbVars, Rotation!KeyNext

\* Every step is one of NodeEvidence's, or leaves all it knows alone.
LEMMA PublishingSeen == DeploymentNext => Publishing!NodeNext \/ UNCHANGED Publishing!nodeVars
  BY UnsealKeepsTables, EnrollingKeepsTime DEF DeploymentNext, Start, Stop, RotationStep, PublishingStep,
     EnrollingStep, TimePasses, UnsealStep, tables, evidenceVars, publishingVars, Publishing!nodeVars,
     Publishing!evidenceVars, Publishing!NodeNext

\* Every step is one of Enrollment's, or leaves all it knows alone.
LEMMA EnrollingSeen == DeploymentNext => Enrolling!EnrollNext \/ UNCHANGED Enrolling!enrollVars
<1>1. TimePasses => Enrolling!Tick
  BY DEF TimePasses, Publishing!TimePasses, Publishing!Tick, Enrolling!Tick, subjectVars, enrollingVars,
     Enrolling!subjectVars, Enrolling!fileVars
<1> QED
  BY <1>1, UnsealKeepsTables, PublishingKeepsTime DEF DeploymentNext, Start, Stop, StopBroker, RotationStep,
     PublishingStep, EnrollingStep, TimePasses, UnsealStep, tables, evidenceVars, subjectVars, enrollingVars,
     Enrolling!enrollVars, Enrolling!subjectVars, Enrolling!fileVars, Enrolling!EnrollNext

--------------------------------------------------------------------------------
(* The components in the deployment *)

\* The key commands behave as KeyRotation specifies them.
THEOREM DeploymentRotates == DeploymentSpec => Rotation!KeySpec
<1>1. DeploymentInit => Rotation!KeyInit
  BY DEF DeploymentInit
<1>2. [DeploymentNext]_deploymentVars => [Rotation!KeyNext]_(Rotation!keyVars)
  BY RotationSeen DEF deploymentVars, serviceVars, tables, lifecycleVars, rotationVars, Rotation!keyVars, Rotation!dbVars
<1> QED
  BY <1>1, <1>2, PTL DEF DeploymentSpec, Rotation!KeySpec

\* The node evidence handlers behave as NodeEvidence specifies them.
THEOREM DeploymentPublishes == DeploymentSpec => Publishing!NodeSpec
<1>1. DeploymentInit => Publishing!NodeInit
  BY DEF DeploymentInit
<1>2. [DeploymentNext]_deploymentVars => [Publishing!NodeNext]_(Publishing!nodeVars)
  BY PublishingSeen DEF deploymentVars, serviceVars, tables, evidenceVars, publishingVars, Publishing!nodeVars,
     Publishing!evidenceVars
<1> QED
  BY <1>1, <1>2, PTL DEF DeploymentSpec, Publishing!NodeSpec

\* The enrollment commands behave as Enrollment specifies them.
THEOREM DeploymentEnrolls == DeploymentSpec => Enrolling!EnrollSpec
<1>1. DeploymentInit => Enrolling!EnrollInit
  BY DEF DeploymentInit
<1>2. [DeploymentNext]_deploymentVars => [Enrolling!EnrollNext]_(Enrolling!enrollVars)
  BY EnrollingSeen DEF deploymentVars, serviceVars, tables, evidenceVars, subjectVars, enrollingVars, Enrolling!enrollVars,
     Enrolling!subjectVars, Enrolling!fileVars
<1> QED
  BY <1>1, <1>2, PTL DEF DeploymentSpec, Enrolling!EnrollSpec

\* What the component modules assume of the constants that they have beyond
\* UnsealService's.
Settings ==
    /\ {"init", "dev"} \union OpIds \subseteq Keys
    /\ Retention \in Nat /\ MaxAudits \in Nat /\ "none" \notin NodeChallenges
    /\ RequestTTL \in Nat /\ GrantTTL \in Nat
    /\ "none" \notin Subjects \union RequestIds \union GrantIds

\* The components' invariants hold in the deployment.
ComponentsInv ==
    /\ Rotation!KeyInv
    /\ Publishing!NodeInv
    /\ Publishing!EnrollmentChangesAudited
    /\ Enrolling!EnrollInv
    /\ Enrolling!AdmissionsAreAccounted

\* What was proved of the components alone holds of them together.
LEMMA ComponentsHold == ASSUME Settings PROVE DeploymentSpec => []ComponentsInv
<1>1. Rotation!KeySpec => [](Rotation!KeyInv /\ Rotation!VerifyInv)
  BY Rotation!Invariance, MaxKeyVersionAssumption, NoMaterialAssumption DEF Settings, Keys, Rotation!Keys
<1>2. Publishing!NodeSpec => []Publishing!NodeInv
  BY Publishing!NodeInductive, EvidenceAssumption, ServiceAssumption DEF Settings
<1>3. Publishing!NodeSpec => []Publishing!EnrollmentChangesAudited
  BY Publishing!ChangesAudited, EvidenceAssumption, ServiceAssumption DEF Settings
<1>4. Enrolling!EnrollSpec => []Enrolling!EnrollInv
  BY Enrolling!EnrollInductive, EvidenceAssumption, SubjectAssumption DEF Settings
<1>5. Enrolling!EnrollSpec => []Enrolling!AdmissionsAreAccounted
  BY Enrolling!AdmissionsAccounted, EvidenceAssumption, SubjectAssumption DEF Settings
<1> QED
  BY <1>1, <1>2, <1>3, <1>4, <1>5, DeploymentRotates, DeploymentPublishes, DeploymentEnrolls, PTL DEF ComponentsInv

--------------------------------------------------------------------------------
(* The unseal service in the deployment *)

\* rotate and init commands move the keys as the service expects.
LEMMA RotationMovesKeys ==
    ASSUME Settings, Rotation!KeyInv, Rotation!KeyNext
    PROVE  LifecycleNext \/ UNCHANGED lifecycleVars
<1>1. Rotation!LifecycleNext \/ UNCHANGED Rotation!lifecycleVars
  BY Rotation!TableStep, MaxKeyVersionAssumption, NoMaterialAssumption DEF Settings, Keys, Rotation!Keys
<1>2. Rotation!LifecycleNext => LifecycleNext
  BY Zenon DEF LifecycleNext, CreateKey, AddPendingKey, PromoteKey, Present, Active, Versions, Keys,
     Rotation!LifecycleNext, Rotation!CreateKey, Rotation!AddPendingKey, Rotation!PromoteKey,
     Rotation!Present, Rotation!Active, Rotation!Versions, Rotation!Keys
<1> QED
  BY <1>1, <1>2 DEF lifecycleVars, Rotation!lifecycleVars

\* Handlers and time move enrollments and evidence as the service expects.
LEMMA PublishingMovesEvidence ==
    ASSUME Settings, Publishing!NodeInv, Publishing!NodeNext
    PROVE  EvidenceNext \/ UNCHANGED evidenceVars
<1>1. Publishing!EvidenceNext \/ UNCHANGED Publishing!evidenceVars
  BY Publishing!NodeStepRefines, EvidenceAssumption, ServiceAssumption DEF Settings
<1>2. Publishing!EvidenceNext => EvidenceNext
  BY Zenon DEF EvidenceNext, Tick, EnrollNode, RevokeNode, PutTpmEvidence, PutFakeEvidence, PruneEvidence,
     NoEvidence, NoUid, Times, Fresh,
     Publishing!EvidenceNext, Publishing!Tick, Publishing!EnrollNode, Publishing!RevokeNode,
     Publishing!PutTpmEvidence, Publishing!PutFakeEvidence, Publishing!PruneEvidence,
     Publishing!NoEvidence, Publishing!NoUid, Publishing!Times, Publishing!Fresh
<1> QED
  BY <1>1, <1>2 DEF evidenceVars, Publishing!evidenceVars

\* enroll and revoke commands move the subjects as the service expects.
LEMMA EnrollingMovesSubjects ==
    ASSUME Settings, Enrolling!EnrollInv, EnrollingStep
    PROVE  \/ UNCHANGED subjectVars
           \/ \E s \in Subjects : (ClusterExists /\ InsertSubject(s)) \/ RevokeSubject(s)
<1>1. CASE Enrolling!EnrollRequest
  BY <1>1 DEF Enrolling!EnrollRequest, Enrolling!subjectVars, subjectVars
<1>2. ASSUME NEW p \in Enrollers, Enrolling!ShellStep(p)
      PROVE  \/ UNCHANGED subjectVars
             \/ \E s \in Subjects : (ClusterExists /\ InsertSubject(s)) \/ RevokeSubject(s)
  <2>1. \/ UNCHANGED Enrolling!subjectVars
        \/ cmd[p].subject \in Subjects /\ Enrolling!InsertSubject(cmd[p].subject)
        \/ \E s \in Subjects : Enrolling!RevokeSubject(s)
    BY <1>2, Enrolling!ShellsMoveSubjects, EvidenceAssumption, SubjectAssumption DEF Settings, Enrolling!EnrollInv
  <2>2. CASE UNCHANGED Enrolling!subjectVars
    BY <2>2 DEF Enrolling!subjectVars, subjectVars
  <2>3. CASE cmd[p].subject \in Subjects /\ Enrolling!InsertSubject(cmd[p].subject)
    <3>1. InsertSubject(cmd[p].subject)
      BY <2>3 DEF Enrolling!InsertSubject, Enrolling!Admitted, InsertSubject, Admitted
    <3>2. ClusterExists \/ UNCHANGED subjectVars
      BY <3>1 DEF EnrollingStep, InsertSubject, subjectVars
    <3> QED
      BY <2>3, <3>1, <3>2
  <2>4. CASE \E s \in Subjects : Enrolling!RevokeSubject(s)
    BY <2>4, Zenon DEF Enrolling!RevokeSubject, RevokeSubject
  <2> QED
    BY <2>1, <2>2, <2>3, <2>4
<1> QED
  BY <1>1, <1>2 DEF EnrollingStep

\* A broker start founds the cluster when there is none, and seeds.
LEMMA StartRefines ==
    ASSUME Settings, ComponentsInv, Start
    PROVE  StartBroker
<1>1. CASE DevSubjects = {}
  <2>1. subjects \in [Subjects -> {"absent", "allowed", "revoked"}]
    BY DEF ComponentsInv, Enrolling!EnrollInv, Enrolling!EnrollTypeOK
  <2>2. subjects = SeedSubjects
    BY <1>1, <2>1 DEF SeedSubjects
  <2> QED
    BY <1>1, <2>2 DEF Start, StartBroker, subjectVars, unsealVars
<1>2. CASE DevSubjects # {}
  <2>1. subjects' = SeedSubjects /\ UNCHANGED revocations
    BY <1>2 DEF Start, Enrolling!BrokerStart, Enrolling!SeedSubjects, SeedSubjects
  <2>2. Rotation!ConfigureDevelopment
    BY <1>2 DEF Start, Rotation!BrokerStart
  <2>3. IF Present = {} THEN CreateKey ELSE UNCHANGED lifecycleVars
    <3>1. CASE Present = {}
      <4>1. ~(1 \in Rotation!Present \/ Rotation!Active # {})
        BY <3>1 DEF Present, Versions, Rotation!Present, Rotation!Active, Rotation!Versions
      <4>2. "dev" \in Keys
        BY DEF Settings
      <4> QED
        BY <2>2, <3>1, <4>1, <4>2 DEF Rotation!ConfigureDevelopment, CreateKey
    <3>2. CASE Present # {}
      <4>1. Rotation!Active # {}
        BY <3>2 DEF ComponentsInv, Rotation!KeyInv, Rotation!TableInv, Present, Versions, Rotation!Present,
           Rotation!Versions
      <4> QED
        BY <2>2, <3>2, <4>1 DEF Rotation!ConfigureDevelopment, lifecycleVars
    <3> QED
      BY <3>1, <3>2
  <2> QED
    BY <1>2, <2>1, <2>3 DEF Start, StartBroker, unsealVars
<1> QED
  BY <1>1, <1>2

\* Every step is one that UnsealService allows, or invisible to it.
LEMMA ServiceSeen ==
    ASSUME Settings, ComponentsInv, DeploymentNext
    PROVE  ServiceNext \/ UNCHANGED serviceVars
<1>1. CASE Start \/ Stop \/ UnsealStep
  BY <1>1, StartRefines DEF Stop, UnsealStep, ServiceNext
<1>2. CASE RotationStep
  BY <1>2, RotationMovesKeys DEF RotationStep, Rotation!KeyNext, ComponentsInv, ServiceNext, KeysMove, serviceVars,
     tables, unsealVars
<1>3. CASE PublishingStep \/ TimePasses
  BY <1>3, PublishingMovesEvidence DEF PublishingStep, TimePasses, Publishing!NodeNext, ComponentsInv, ServiceNext,
     EvidenceMoves, serviceVars, tables, unsealVars
<1>4. CASE EnrollingStep
  BY <1>4, EnrollingMovesSubjects, EnrollingKeepsTime DEF EnrollingStep, ComponentsInv, ServiceNext, SubjectsMove,
     evidenceVars, serviceVars, tables, unsealVars
<1> QED
  BY <1>1, <1>2, <1>3, <1>4 DEF DeploymentNext

\* The deployment implements UnsealService: what the commands and the other
\* handlers do to the tables is never more than the service was proved
\* against.
THEOREM DeploymentUnseals == ASSUME Settings PROVE DeploymentSpec => ImplementsUnsealService
<1>1. DeploymentInit => ServiceInit
  BY DEF DeploymentInit
<1>2. ComponentsInv /\ [DeploymentNext]_deploymentVars => [ServiceNext]_serviceVars
  BY ServiceSeen DEF deploymentVars
<1> QED
  BY <1>1, <1>2, ComponentsHold, PTL DEF DeploymentSpec, ServiceSpec, ImplementsUnsealService

--------------------------------------------------------------------------------
(* Releases have a trail *)

\* What holds throughout in the deployment; who is past the check of the
\* subject was seeded, asked for admission or had a grant used up.
TrailInv ==
    /\ ComponentsInv /\ ServiceInv /\ NumberedInv
    /\ \A r \in Requests : PassedSubject(r) => req[r].subject \in Accounted

\* Request files and uses of grants stay, whatever step is taken.
LEMMA AccountsKept ==
    ASSUME Settings, ComponentsInv, [DeploymentNext]_deploymentVars
    PROVE  Accounted \subseteq Accounted'
<1>1. CASE Enrolling!EnrollNext
  <2>1. Enrolling!Requested \subseteq Enrolling!Requested'
    BY <1>1, Enrolling!RequestsStay, EvidenceAssumption, SubjectAssumption
       DEF Settings, ComponentsInv, Enrolling!EnrollInv
  <2>2. Enrolling!AppliedFor \subseteq Enrolling!AppliedFor'
    BY <1>1, Enrolling!UsesStay, EvidenceAssumption, SubjectAssumption DEF Settings, ComponentsInv
  <2> QED
    BY <2>1, <2>2 DEF Accounted
<1>2. CASE UNCHANGED <<requests, applied>>
  BY <1>2 DEF Accounted, Enrolling!Requested, Enrolling!AppliedFor
<1> QED
  BY <1>1, <1>2, EnrollingSeen DEF deploymentVars, enrollingVars, Enrolling!enrollVars, Enrolling!fileVars

\* The invariant holds throughout.
LEMMA TrailInductive == ASSUME Settings PROVE DeploymentSpec => []TrailInv
<1> DEFINE Known == ComponentsInv /\ ServiceInv /\ NumberedInv
           Asked == \A r \in Requests : PassedSubject(r) => req[r].subject \in Accounted
<1>1. DeploymentSpec => []Known
  BY ComponentsHold, DeploymentUnseals, ServiceInductive, NumberedInductive, PTL DEF ImplementsUnsealService
<1>2. DeploymentInit => Asked
  BY DEF DeploymentInit, ServiceInit, NewRequest, PassedSubject
<1>3. ASSUME Known, Asked, [DeploymentNext]_deploymentVars, NEW r \in Requests, PassedSubject(r)'
      PROVE  req'[r].subject \in Accounted'
  <2>1. ServiceNext \/ UNCHANGED serviceVars
    BY <1>3, ServiceSeen DEF deploymentVars
  <2>2. /\ req'[r].subject = req[r].subject
        /\ PassedSubject(r) \/ (req[r].subject \in Subjects /\ subjects[req[r].subject] = "allowed")
    BY <1>3, <2>1, SubjectPassed
  <2>3. req[r].subject \in Accounted
    BY <1>3, <2>2 DEF ComponentsInv, Enrolling!AdmissionsAreAccounted, Accounted
  <2> QED
    BY <1>3, <2>2, <2>3, AccountsKept
<1>4. Known /\ Asked /\ [DeploymentNext]_deploymentVars => Asked'
  BY <1>3
<1>5. Known /\ Asked => TrailInv
  BY DEF TrailInv
<1> HIDE DEF Known, Asked
<1> QED
  BY <1>1, <1>2, <1>4, <1>5, PTL DEF DeploymentSpec

\* Every release has its trail, whatever commands, handlers and restarts ran
\* between the checks of the request and the use of the key.
THEOREM ReleasesTraced == ASSUME Settings PROVE DeploymentSpec => []ReleasesHaveTrail
<1>1. ASSUME TrailInv, NEW r \in Requests, req[r].outcome = "allow", ~AllowFakeLocal, req[r].node # "none",
             NEW s \in Publishing!Sinks
      PROVE  allowed[s][req[r].node] >= 1 /\ allowed[s][req[r].node] > req[r].barred
  <2>1. /\ req[r].node \in Nodes /\ enrollment[req[r].node].rev \in Nat /\ req[r].barred \in Int
        /\ enrollment[req[r].node].rev >= 1 /\ enrollment[req[r].node].rev > req[r].barred
    BY <1>1, ReleasedNode DEF TrailInv
  <2>2. allowed[s][req[r].node] \in Nat /\ enrollment[req[r].node].rev <= allowed[s][req[r].node]
    BY <1>1, <2>1 DEF TrailInv, ComponentsInv, Publishing!NodeInv, Publishing!AuditInv, Settings,
       Publishing!EnrollmentChangesAudited
  <2> QED
    BY <2>1, <2>2
<1>2. TrailInv => ReleasesHaveTrail
  BY <1>1 DEF TrailInv, PassedSubject, ReleasesHaveTrail
<1> QED
  BY <1>2, TrailInductive, PTL

\* A request that passes the check of its node does so on the enrollment in
\* force, whatever was enrolled, revoked, published or pruned since it came.
THEOREM NodeChecksRest == ASSUME Settings PROVE DeploymentSpec => NodeCheckRestsOnEnrollment
<1>1. ASSUME TrailInv, [DeploymentNext]_deploymentVars, NEW r \in Requests,
             At(r, "node"), req'[r].pc = "challenge", req[r].node # "none", ~AllowFakeLocal
      PROVE  /\ req[r].node \in Nodes /\ evidence[req[r].node].provider = "generic-tpm2-quote"
             /\ req[r].uid = NoUid \/ evidence[req[r].node].uid = NoUid \/ evidence[req[r].node].uid = req[r].uid
  <2>1. ServiceNext \/ UNCHANGED serviceVars
    BY <1>1, ServiceSeen DEF TrailInv, deploymentVars
  <2> QED
    BY <1>1, <2>1, NodePassed DEF TrailInv
<1>2. ASSUME TrailInv, [DeploymentNext]_deploymentVars PROVE \A r \in Requests : PassesOnEnrollment(r)
  BY <1>1, <1>2, Zenon DEF PassesOnEnrollment, TrailInv, ComponentsInv, Publishing!NodeInv,
     Publishing!EvidenceRestsOnEnrollment, Publishing!EnrollmentChangesAudited
<1>3. TrailInv /\ [DeploymentNext]_deploymentVars => [\A r \in Requests : PassesOnEnrollment(r)]_deploymentVars
  BY <1>2
<1> QED
  BY <1>3, TrailInductive, PTL DEF DeploymentSpec, NodeCheckRestsOnEnrollment
================================================================================
