----------------------------- MODULE UnsealService -----------------------------
(***************************************************************************)
(* The broker's UnsealService: challenges, Wrap and Unwrap, and the policy  *)
(* evaluation behind them, with every request a gRPC handler of its own.    *)
(*                                                                         *)
(* A handler reads the subject, the node evidence, the challenge and the    *)
(* key in separate statements, and loads the keyring once more before it    *)
(* uses a key.  Between two of them other handlers run, the CLI adds or     *)
(* revokes subjects and rotates keys, enrollments change, time passes, a    *)
(* statement fails or the broker stops.  The tables of keys, evidence and   *)
(* subjects move as KeyLifecycle, EvidenceTable and SubjectTable promise.   *)
(***************************************************************************)
EXTENDS KeyLifecycle, EvidenceTable, SubjectTable

CONSTANTS
    Challenges,     \* challenge identifiers (randomID("chal"))
    Requests,       \* Wrap and Unwrap calls
    ChallengeTTL,   \* challenge_ttl
    Faults          \* whether statements and audit sinks may fail

ASSUME ServiceAssumption ==
    /\ ChallengeTTL \in Nat
    /\ Faults \in BOOLEAN
    /\ "none" \notin Challenges

VARIABLES
    up,           \* whether bao-unseald serves
    challenges,   \* challenges: scope, expiry and consumed_at
    req           \* the Wrap and Unwrap handlers

tables == <<lifecycleVars, evidenceVars, subjectVars, up>>
serviceVars == <<tables, challenges, req>>

Operations == {"wrap", "unwrap"}

NoBlob == [version |-> 0, material |-> "none"]
NoChallenge == [status |-> "absent", subject |-> "none", op |-> "none", expires |-> 0]

\* A handler: pc is the statement it runs next, spent tells that its consume
\* transaction committed, barred and revoked remember what the tables said
\* when the request arrived.
NewRequest ==
    [pc |-> "new", op |-> "none", subject |-> "none", node |-> "none", uid |-> NoUid,
     chal |-> "none", ref |-> 0, blob |-> NoBlob, spent |-> FALSE,
     outcome |-> "none", audited |-> FALSE, revoked |-> FALSE, barred |-> -1]

Statements == {"keyref", "subject", "node", "challenge", "key"}
InFlight == Statements \union {"use", "audit", "reply"}
Pcs == InFlight \union {"new", "done", "lost"}

\* What is remembered of a request that is not allowed: the challenge it spent.
Kept(r) ==
    IF req[r].spent
    THEN [NewRequest EXCEPT !.op = req[r].op, !.subject = req[r].subject,
                            !.chal = req[r].chal, !.spent = TRUE]
    ELSE NewRequest

ServiceInit ==
    /\ LifecycleInit
    /\ EvidenceInit
    /\ SubjectInit
    /\ up = FALSE
    /\ challenges = [c \in Challenges |-> NoChallenge]
    /\ req = [r \in Requests |-> NewRequest]

--------------------------------------------------------------------------------
(* The broker process *)

\* NewRuntime: with development subjects the first key is created as well,
\* when the cluster has none.
StartBroker ==
    /\ ~up
    /\ up' = TRUE
    /\ subjects' = SeedSubjects
    /\ IF DevSubjects # {} /\ Present = {}
       THEN CreateKey
       ELSE UNCHANGED lifecycleVars
    /\ UNCHANGED <<evidenceVars, revocations, challenges, req>>

\* The process ends, in order or not: handlers in flight never answer.
StopBroker ==
    /\ up
    /\ up' = FALSE
    /\ req' = [r \in Requests |->
                 IF req[r].pc \in InFlight THEN [Kept(r) EXCEPT !.pc = "lost"] ELSE req[r]]
    /\ UNCHANGED <<lifecycleVars, evidenceVars, subjectVars, challenges>>

--------------------------------------------------------------------------------
(* Writers outside the service *)

\* Subjects and challenges refer to the cluster's row, which the transaction
\* that creates the first key inserts.
ClusterExists == Present # {}

\* enroll issue, enroll apply and recover enroll admit a subject; revoke ends
\* its admission.
SubjectsMove ==
    /\ \E s \in Subjects : (ClusterExists /\ InsertSubject(s)) \/ RevokeSubject(s)
    /\ UNCHANGED <<lifecycleVars, evidenceVars, up, challenges, req>>

\* rotate and init commands.
KeysMove ==
    /\ LifecycleNext
    /\ UNCHANGED <<evidenceVars, subjectVars, up, challenges, req>>

\* Time, enrollments and node evidence.
EvidenceMoves ==
    /\ EvidenceNext
    /\ UNCHANGED <<lifecycleVars, subjectVars, up, challenges, req>>

--------------------------------------------------------------------------------
(* Challenge *)

\* Slip: one unit too long.
ExpiryLate == now + ChallengeTTL + 1

Expiry == now + ChallengeTTL

\* The Challenge handler: a row for whatever subject and operation the caller
\* names, expiring after the TTL.
Challenge ==
    /\ up
    /\ ClusterExists
    /\ \E c \in Challenges, s \in Subjects, op \in Operations :
          /\ challenges[c].status = "absent"
          /\ challenges' = [challenges EXCEPT ![c] =
                               [status |-> "open", subject |-> s, op |-> op,
                                expires |-> Expiry]]
    /\ UNCHANGED <<tables, req>>

--------------------------------------------------------------------------------
(* Wrap and Unwrap up to the policy decision *)

At(r, pc) == req[r].pc = pc
Goto(r, pc) == req' = [req EXCEPT ![r].pc = pc]
Deny(r) == req' = [req EXCEPT ![r] = [Kept(r) EXCEPT !.pc = "audit", !.outcome = "deny"]]

\* Blobs that clients received from a Wrap.
ClientBlobs == {req[r].blob : r \in {q \in Requests :
                   At(q, "done") /\ req[q].op = "wrap" /\ req[q].outcome = "allow"}}

\* A revoked or never enrolled node, by its enrollment revision.
Barred(n) == IF n # "none" /\ ~enrollment[n].active THEN enrollment[n].rev ELSE -1

\* What a verified request carries.  A Wrap names a version or asks for the
\* active one (0); an Unwrap brings a blob a client received, or one that
\* names a version and was not wrapped like this (damaged, another AAD).
Calls(op) ==
    IF op = "wrap"
    THEN [ref : Versions \union {0}, blob : {NoBlob}]
    ELSE [ref : Versions, blob : {NoBlob}]
            \union {[ref |-> b.version, blob |-> b] : b \in ClientBlobs}

\* evidenceSubject: the verifier yields a subject and, with Kubernetes
\* evidence, the node the workload runs on.
Arrive(r) ==
    /\ up
    /\ At(r, "new")
    /\ \E op \in Operations, s \in Subjects, n \in Nodes \union {"none"},
          u \in Uids \union {NoUid}, c \in Challenges \union {"none"} :
       \E call \in Calls(op) :
          /\ n = "none" => u = NoUid
          /\ req' = [req EXCEPT ![r] =
                [NewRequest EXCEPT !.pc = IF op = "wrap" THEN "keyref" ELSE "subject",
                    !.op = op, !.subject = s, !.node = n, !.uid = u, !.chal = c,
                    !.ref = call.ref, !.blob = call.blob,
                    !.revoked = (s \in revocations), !.barred = Barred(n)]]
    /\ UNCHANGED <<tables, challenges>>

\* Evidence that fails verification, or a blob without a valid key reference.
Reject(r) ==
    /\ up
    /\ At(r, "new")
    /\ Deny(r)
    /\ UNCHANGED <<tables, challenges>>

\* LoadKeyring: NewRing insists on exactly one active version.
KeyringLoads == \E a \in Active : Active = {a}
ActiveVersion == CHOOSE a \in Active : TRUE

\* wrapKeyRef
WrapKeyRef(r) ==
    /\ At(r, "keyref")
    /\ \/ /\ req[r].ref # 0
          /\ Goto(r, "subject")
       \/ /\ req[r].ref = 0
          /\ KeyringLoads
          /\ req' = [req EXCEPT ![r].pc = "subject", ![r].ref = ActiveVersion]
       \/ /\ req[r].ref = 0
          /\ ~KeyringLoads
          /\ Deny(r)
    /\ UNCHANGED <<tables, challenges>>

EvaluateSubject(r) ==
    /\ At(r, "subject")
    /\ IF subjects[req[r].subject] = "allowed" THEN Goto(r, "node") ELSE Deny(r)
    /\ UNCHANGED <<tables, challenges>>

\* evaluateNodeEvidence: no node, or fresh evidence whose UID, where both
\* sides have one, is the workload's.
NodeAccepted(n, u) ==
    \/ n = "none"
    \/ /\ Fresh(n)
       /\ u = NoUid \/ evidence[n].uid = NoUid \/ evidence[n].uid = u

EvaluateNodeEvidence(r) ==
    /\ At(r, "node")
    /\ IF NodeAccepted(req[r].node, req[r].uid) THEN Goto(r, "challenge") ELSE Deny(r)
    /\ UNCHANGED <<tables, challenges>>

\* Slip: the row is not checked for consumed_at.
SpendableAgain(r) ==
    LET c == req[r].chal IN
    /\ c # "none"
    /\ challenges[c].status # "absent"
    /\ challenges[c].subject = req[r].subject
    /\ challenges[c].op = req[r].op
    /\ now < challenges[c].expires

\* The checks of the consume transaction.
Spendable(r) ==
    LET c == req[r].chal IN
    /\ c # "none"
    /\ challenges[c].status = "open"
    /\ challenges[c].subject = req[r].subject
    /\ challenges[c].op = req[r].op
    /\ now < challenges[c].expires

\* Slip: the handler waits for a challenge it can spend.
ConsumeChallengeWaiting(r) ==
    /\ At(r, "challenge")
    /\ Spendable(r)
    /\ challenges' = [challenges EXCEPT ![req[r].chal].status = "spent"]
    /\ req' = [req EXCEPT ![r].pc = "key", ![r].spent = TRUE]
    /\ UNCHANGED tables

\* ConsumeChallenge; a commit that is reported as failed but took effect is
\* this step followed by StatementFails.
ConsumeChallenge(r) ==
    /\ At(r, "challenge")
    /\ \/ /\ ~Spendable(r)
          /\ Deny(r)
          /\ UNCHANGED challenges
       \/ /\ Spendable(r)
          /\ challenges' = [challenges EXCEPT ![req[r].chal].status = "spent"]
          /\ req' = [req EXCEPT ![r].pc = "key", ![r].spent = TRUE]
    /\ UNCHANGED tables

\* Slip: Unwrap accepts any version that has a row.
KeyAcceptedPending(op, v) == v \in Present

\* The status check of evaluate.
KeyAccepted(op, v) ==
    /\ v \in Present
    /\ op = "wrap" => keyStatus[v] = "active"
    /\ op = "unwrap" => keyStatus[v] \in UsableStatuses

EvaluateKey(r) ==
    /\ At(r, "key")
    /\ IF KeyAccepted(req[r].op, req[r].ref) THEN Goto(r, "use") ELSE Deny(r)
    /\ UNCHANGED <<tables, challenges>>

\* Any lookup up to the decision can fail, which denies the request.
StatementFails(r) ==
    /\ Faults
    /\ req[r].pc \in Statements
    /\ Deny(r)
    /\ UNCHANGED <<tables, challenges>>

--------------------------------------------------------------------------------
(* The key is used, the decision audited, the call answered *)

\* Slip: the newest version is used, pending or not.
WrapVersionNewest(r) == CHOOSE v \in Present : \A u \in Present : u <= v

\* Encrypt takes the active version of the keyring loaded now.
WrapVersion(r) == ActiveVersion

\* Decrypt: the ring's version of the blob's reference, if it may decrypt and
\* the ciphertext authenticates under its key.
Decrypts(r) ==
    /\ req[r].ref \in Usable
    /\ keyMaterial[req[r].ref] = req[r].blob.material

\* A keyring that does not load, or a failing Encrypt or Decrypt, answers
\* deny and returns before the audit.
UseKeyring(r) ==
    /\ At(r, "use")
    /\ \/ /\ KeyringLoads
          /\ req[r].op = "wrap"
          /\ LET v == WrapVersion(r) IN
             req' = [req EXCEPT ![r].pc = "audit", ![r].outcome = "allow",
                                ![r].blob = [version |-> v, material |-> keyMaterial[v]]]
       \/ /\ KeyringLoads
          /\ req[r].op = "unwrap"
          /\ Decrypts(r)
          /\ req' = [req EXCEPT ![r].pc = "audit", ![r].outcome = "allow"]
       \/ /\ Faults \/ ~KeyringLoads \/ (req[r].op = "unwrap" /\ ~Decrypts(r))
          /\ req' = [req EXCEPT ![r] = [Kept(r) EXCEPT !.pc = "reply", !.outcome = "deny"]]
    /\ UNCHANGED <<tables, challenges>>

\* auditDecision writes to SQLite and to the file and ignores failures; the
\* event is taken by at least one of them, or by none.
AuditDecision(r) ==
    /\ At(r, "audit")
    /\ \E taken \in BOOLEAN :
          /\ Faults \/ taken
          /\ req' = [req EXCEPT ![r].pc = "reply", ![r].audited = taken]
    /\ UNCHANGED <<tables, challenges>>

Reply(r) ==
    /\ At(r, "reply")
    /\ Goto(r, "done")
    /\ UNCHANGED <<tables, challenges>>

Handle(r) ==
    \/ WrapKeyRef(r) \/ EvaluateSubject(r) \/ EvaluateNodeEvidence(r)
    \/ ConsumeChallenge(r) \/ EvaluateKey(r) \/ UseKeyring(r)
    \/ AuditDecision(r) \/ Reply(r)

ServiceNext ==
    \/ StartBroker \/ StopBroker
    \/ SubjectsMove \/ KeysMove \/ EvidenceMoves \/ Challenge
    \/ \E r \in Requests : Arrive(r) \/ Reject(r) \/ StatementFails(r) \/ Handle(r)

ServiceSpec == ServiceInit /\ [][ServiceNext]_serviceVars

\* A handler that is scheduled runs to its end: Go runs every runnable
\* goroutine, and a store call on a locked database returns an error.
FairServiceSpec == ServiceSpec /\ \A r \in Requests : WF_serviceVars(Handle(r))

--------------------------------------------------------------------------------
(* Properties *)

\* Every table and every handler has a value the code can produce.
ServiceTypeOK ==
    /\ keyStatus \in [Versions -> KeyStatuses]
    /\ keyMaterial \in [Versions -> Materials]
    /\ now \in 0..MaxTime
    /\ enrollment \in [Nodes -> EnrollmentRows]
    /\ evidence \in [Nodes -> EvidenceRows]
    /\ up \in BOOLEAN
    /\ subjects \in [Subjects -> {"absent", "allowed", "revoked"}]
    /\ revocations \subseteq Subjects
    /\ challenges \in [Challenges ->
          [status : {"absent", "open", "spent"}, subject : Subjects \union {"none"},
           op : Operations \union {"none"}, expires : 0..(MaxTime + ChallengeTTL)]]
    /\ req \in [Requests ->
          [pc : Pcs, op : Operations \union {"none"}, subject : Subjects \union {"none"},
           node : Nodes \union {"none"}, uid : Uids \union {NoUid},
           chal : Challenges \union {"none"}, ref : 0..MaxKeyVersion,
           blob : [version : 0..MaxKeyVersion, material : Materials],
           spent : BOOLEAN, outcome : {"none", "allow", "deny"},
           audited : BOOLEAN, revoked : BOOLEAN, barred : -1..MaxRevision]]

\* Every release of a key spends a challenge, and a challenge is spent by
\* exactly one request, of the subject and operation it was issued for,
\* whatever requests race for it and however often the broker restarts.
ChallengeSingleUse ==
    /\ \A r \in Requests : req[r].outcome = "allow" => req[r].spent
    /\ \A c \in Challenges :
        LET spenders == {r \in Requests : req[r].spent /\ req[r].chal = c} IN
        IF challenges[c].status = "spent"
        THEN \E r \in spenders : /\ spenders = {r}
                                 /\ challenges[c].subject = req[r].subject
                                 /\ challenges[c].op = req[r].op
        ELSE spenders = {}

\* A request that arrives after its subject was ever revoked is not allowed,
\* whatever restarts that seed development subjects and enrollment grants for
\* the subject came in between.  The runbook answers `subject is revoked` with
\* "Re-enroll or intentionally keep the subject denied."
\* (docs/operations/kubernetes-profile-runbook.md:46); by the code the first of
\* the two has no effect, which is what this property says.
RevokedSubjectsStayOut ==
    \A r \in Requests : req[r].revoked => req[r].outcome # "allow"

\* A request from a workload on a node without active enrollment is allowed
\* only if the node was enrolled (again) after the request arrived; without
\* fake-local evidence there is no other way in.
RevokedNodesStayOut ==
    \A r \in Requests :
        (~AllowFakeLocal /\ req[r].outcome = "allow" /\ req[r].barred >= 0) =>
            enrollment[req[r].node].rev > req[r].barred

\* A blob that a client received can be unwrapped under the key that wrapped
\* it, whatever rotations happen between decision, Encrypt and later calls.
ClientBlobsStayUnwrappable ==
    \A b \in ClientBlobs :
        /\ b.version \in Usable
        /\ keyMaterial[b.version] = b.material

\* A rotation between the policy decision and the use of the key does no harm:
\* an Unwrap finds the version it was allowed to use still usable, and a Wrap
\* uses that version or a newer one.
DecisionHoldsAtUse ==
    \A r \in Requests :
        /\ At(r, "use") => KeyringLoads
        /\ At(r, "use") /\ req[r].op = "unwrap" =>
              req[r].ref \in Usable /\ (req[r].blob # NoBlob => Decrypts(r))
        /\ req[r].op = "wrap" /\ req[r].outcome = "allow" => req[r].blob.version >= req[r].ref

\* Every request is answered, or its broker stops.
RequestsAreAnswered ==
    \A r \in Requests : (req[r].pc \in InFlight) ~> (req[r].pc \in {"done", "lost"})

\* The threat model's "Audit every key release decision": an answered request
\* left an audit event.
EveryDecisionAudited ==
    \A r \in Requests : At(r, "done") => req[r].audited
================================================================================
