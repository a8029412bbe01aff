------------------------------- MODULE Deployment -------------------------------
(***************************************************************************)
(* The broker with everything that writes its database: UnsealService's      *)
(* handlers beside the rotate and init commands (KeyRotation), the node      *)
(* evidence handlers (NodeEvidence) and the enroll and revoke commands       *)
(* (Enrollment), over one set of tables and one clock.                       *)
(*                                                                         *)
(* UnsealService lets its tables move as their abstract specifications       *)
(* allow.  Here the commands and handlers move them, so that a release can   *)
(* be traced to what operators, administrators and publishers did.  The      *)
(* instances are of the proof modules, whose results DeploymentProofs uses.   *)
(* recover, which founds a cluster on a database without one, is left out.    *)
(***************************************************************************)
EXTENDS UnsealService

CONSTANTS
    Rotators,       \* shells that run rotate commands
    OpIds,          \* rotation operation identifiers
    Enrollers,      \* shells that run enroll and revoke commands
    RequestIds,     \* enrollment request identifiers
    GrantIds,       \* enrollment grant identifiers
    RequestTTL,     \* -ttl of enroll request
    GrantTTL,       \* -ttl of enroll issue
    Policies,       \* TPM policies an enrollment can carry
    Certs,          \* publisher client certificates
    NodeChallenges, \* node evidence challenge identifiers
    Publishers,     \* concurrent publisher calls
    Admins,         \* concurrent administrator calls
    Retention,      \* node_evidence.retention
    MaxAudits       \* bound on the ALLOW events per node

VARIABLES
    rotations, verified, auditLog, stored, known, cli,
    policy, publishers, nodeChallenges, source, pub, admin, allowed,
    requests, requestRows, grants, grantFiles, trust, log, applied, cmd

Rotation == INSTANCE KeyRotationProofs WITH Operators <- Rotators

Publishing == INSTANCE NodeEvidenceProofs
              WITH Challenges <- NodeChallenges, challenges <- nodeChallenges

Enrolling == INSTANCE EnrollmentProofs WITH Operators <- Enrollers

\* What only the commands of one kind, or the handlers of one service, touch.
rotationVars == <<rotations, verified, auditLog, stored, known, cli>>
publishingVars == <<policy, publishers, nodeChallenges, source, pub, admin, allowed>>
enrollingVars == <<requests, requestRows, grants, grantFiles, trust, log, applied, cmd>>
unsealVars == <<challenges, req>>

deploymentVars == <<serviceVars, rotationVars, publishingVars, enrollingVars>>

DeploymentInit ==
    /\ ServiceInit
    /\ Rotation!KeyInit
    /\ Publishing!NodeInit
    /\ Enrolling!EnrollInit

--------------------------------------------------------------------------------
(* The broker process *)

\* NewRuntime: ConfigureDevelopment runs when development subjects are
\* configured, in one transaction.
Start ==
    /\ ~up
    /\ up' = TRUE
    /\ IF DevSubjects # {}
       THEN Rotation!BrokerStart /\ Enrolling!BrokerStart
       ELSE UNCHANGED <<lifecycleVars, rotationVars, subjectVars, enrollingVars>>
    /\ UNCHANGED <<evidenceVars, publishingVars, unsealVars>>

\* The process ends: no handler of any service answers any more.
Stop ==
    /\ StopBroker
    /\ Publishing!StopBroker
    /\ UNCHANGED <<rotationVars, enrollingVars>>

--------------------------------------------------------------------------------
(* One part moves *)

\* init, the rotate commands, and OpenBao's own rewrites.
RotationStep ==
    /\ \/ Rotation!BootstrapKeyring
       \/ Rotation!OpenBaoSeals
       \/ \E p \in Rotators :
             Rotation!RotateCommand(p) \/ Rotation!RotateStep(p) \/ Rotation!CommandFails(p)
    /\ UNCHANGED <<evidenceVars, subjectVars, up, publishingVars, enrollingVars, unsealVars>>

\* Handlers of the admin and enrollment services, which the broker serves.
\* Their rows refer to the cluster's, and without one no insert succeeds.
PublishingStep ==
    /\ up
    /\ \/ Publishing!ListNodeEvidence
       \/ \E p \in Publishers : Publishing!PublisherStep(p)
       \/ \E a \in Admins : Publishing!AdminStep(a)
    /\ ClusterExists \/ UNCHANGED <<enrollment, evidence, nodeChallenges>>
    /\ UNCHANGED <<lifecycleVars, subjectVars, up, rotationVars, enrollingVars, unsealVars>>

\* The enroll and revoke commands, whose rows refer to the cluster's as well:
\* the row of the subject comes first.
EnrollingStep ==
    /\ \/ Enrolling!EnrollRequest
       \/ \E p \in Enrollers : Enrolling!ShellStep(p)
    /\ ClusterExists \/ UNCHANGED subjects
    /\ UNCHANGED <<lifecycleVars, enrollment, evidence, up, rotationVars, publishingVars, unsealVars>>

\* One clock for broker and shells, which share the host of the database.
TimePasses ==
    /\ Publishing!TimePasses
    /\ UNCHANGED <<lifecycleVars, subjectVars, up, rotationVars, enrollingVars, unsealVars>>

\* Handlers of the unseal service.
UnsealStep ==
    /\ \/ Challenge
       \/ \E r \in Requests : Arrive(r) \/ Reject(r) \/ StatementFails(r) \/ Handle(r)
    /\ UNCHANGED <<rotationVars, publishingVars, enrollingVars>>

DeploymentNext ==
    Start \/ Stop \/ RotationStep \/ PublishingStep \/ EnrollingStep \/ TimePasses \/ UnsealStep

DeploymentSpec == DeploymentInit /\ [][DeploymentNext]_deploymentVars

--------------------------------------------------------------------------------
(* Properties *)

\* Who may have a row in subjects, as far as files and grants show.
Accounted == DevSubjects \union Enrolling!Requested \union Enrolling!AppliedFor

\* Every release of a key has a paper trail.  Its subject is a development
\* subject, was named in a request file, or is the one for which a grant was used
\* up: apply takes the subject from its file.  If the workload ran on a node, and
\* without fake-local evidence, both audit sinks hold an event for the node's
\* enrollment, and one more if the node was barred when the request arrived.
ReleasesHaveTrail ==
    \A r \in Requests : req[r].outcome = "allow" =>
        /\ req[r].subject \in Accounted
        /\ ~AllowFakeLocal /\ req[r].node # "none" =>
              \A s \in Publishing!Sinks :
                  allowed[s][req[r].node] >= 1 /\ allowed[s][req[r].node] > req[r].barred

\* When a request passes the check of its node's evidence, the enrollment in
\* force stands behind it: it is active, the quote satisfied its policy, its
\* certificate sent it, its UID is the workload's where both are known, and
\* both audit sinks have its event.
PassesOnEnrollment(r) ==
    LET n == req[r].node IN
    (At(r, "node") /\ req'[r].pc = "challenge" /\ n # "none" /\ ~AllowFakeLocal) =>
        /\ enrollment[n].active
        /\ evidence[n].rev = enrollment[n].rev
        /\ source[n].policy = policy[n]
        /\ source[n].cert \in publishers[n]
        /\ req[r].uid = NoUid \/ enrollment[n].uid = NoUid \/ enrollment[n].uid = req[r].uid
        /\ \A s \in Publishing!Sinks : enrollment[n].rev <= allowed[s][n]

NodeCheckRestsOnEnrollment == [][\A r \in Requests : PassesOnEnrollment(r)]_deploymentVars

\* The unseal service is the one that UnsealService specifies.
ImplementsUnsealService == ServiceSpec
================================================================================
