# A TLA+ model of openbao-attested-unseal

This directory holds TLA+ modules that model the broker `bao-unseald`, the
`bao-unsealctl` commands that work on its database, the KMS plugin inside
OpenBao, and the node agent. TLC checks small instances; TLAPS proves the safety
properties of the key lifecycle, enrollment, Wrap and Unwrap, node evidence,
recovery, the plugin and the agent's loop for every instance, that the
detailed models implement the abstract ones, and that the broker with all the
commands and handlers that write its database keeps the promises of each part.

Run a model with `tlc -config MCKeyRotation.cfg MCKeyRotation` and the proofs
with `tlapm KeyRotationProofs.tla`, and so on for the other proof modules.

## The system

OpenBao's auto-unseal plugin asks the broker to *wrap* and *unwrap* its stored
key. The broker answers only if the caller's attested subject is admitted, the
node it runs on has fresh verified evidence, the request brings an unspent
challenge, and the key version named is in a state that permits the operation.
Everything the broker knows is in one SQLite database; the command line tool
opens the same file directly.

| Part | State | Operations | What makes it hard |
|---|---|---|---|
| Wrapping keys and rotation (`internal/broker/sqlite.go`, `internal/baounsealctl/command.go`) | `key_versions`, `rotation_operations`, `rotation_verifications`, OpenBao's stored blob | `init`, development seeding, `rotate start / activate / openbao-root / verify-restart` | each command is several transactions and an HTTP call; commands run next to each other and can be killed anywhere; lost answers are retried |
| UnsealService (`internal/broker/service.go`, `policy.go`) | `challenges`, `subjects`; reads keys and evidence | `Challenge`, `Wrap`, `Unwrap`, `Status` | subject, node, challenge and key are separate statements; the keyring is loaded again after the decision |
| Node evidence (`admin.go`, `enrollment_service.go`, `node_evidence_*.go`) | `node_evidence_enrollments`, `node_evidence_publishers`, `node_evidence`, `challenges` | challenge, publish, list, enroll, revoke | the enrollment can change between any two statements of a publish; audit precedes the mutation |
| Broker process (`server.go`) | whether it serves | start with development seeding, stop | seeding repeats on every start, handlers are lost on stop |
| Audit sinks (`audit.go`, `audit_events`) | events | append | two sinks, each may fail; best effort in one service, mandatory in another |
| Keyring (`internal/keyring`, `internal/keyprotection`) | none of its own | load, encrypt, decrypt | refuses a table without exactly one active version |
| Subject enrollment (`internal/enrollment`, `command.go`) | `subjects`, `enrollment_requests`, `enrollment_grants`, request, grant and trust files | `enroll request / issue / apply`, `revoke` | no transaction spans a command; statements of several shells interleave |
| Init and recovery (`internal/recovery`, `command.go`) | `recovery_packages`, package and session files, printed shares | `init`, `recover begin / enroll / finish` | files, shares and databases of several machines that get lost or mixed up |
| KMS plugin (`internal/kmsplugin`) | configuration, backend, its connection, the lock | `SetConfig`, `Init`, `Encrypt`, `Decrypt`, `KeyId`, `Finalize` | calls in flight against `Finalize`; network calls under the lock; restarts |
| Local TPM state (`internal/tpm/state.go`, `seal.go`, `command.go`) | sealed objects and metadata files, PCRs | `tpm provision`, load | files written in place one after the other, read one by one at the same time |
| Node agent (`internal/baounsealagent`, `internal/nodeagent`) | failure count, timer | publish once, publish loop | failed, late and abandoned publishes against the evidence lifetime; clock skew |
| Kubernetes verifier (`internal/attestation/providers/kubernetes`) | none; reads the cluster | TokenReview, pod lookup | the pod changes between the two calls |
| TPM quotes (`internal/tpm/quote.go`, `pcr.go`, `policy.go`) | none; reads the PCRs | collect, verify, evaluate | quote and PCR values are read apart; selections have several spellings |

`PROJECT.json` lists every part with its status, and the hazards with the line
at which each bites.

## Modules

```
what the tables promise         KeyLifecycle   EvidenceTable   SubjectTable
the code that writes them       KeyRotation    NodeEvidence    Enrollment
the service that reads them     UnsealService (extends all three promises)
all of these together           Deployment (extends UnsealService)
custody of the first key        Recovery, Shamir
the plugin's promise            SealWrapper
the plugin                      KmsPlugin (extends LocalTpm, KubernetesWorkload)
the node agent                  AgentEvidence (extends NodeAgent, TpmQuote)
proofs                          KeyRotationProofs, EnrollmentProofs,
                                UnsealServiceProofs, NodeEvidenceProofs,
                                RecoveryProofs, KmsPluginProofs,
                                NodeAgentProofs, DeploymentProofs
```

The writers are shown to implement the promise (`ImplementsKeyLifecycle`,
`ImplementsEvidenceTable`, `ImplementsSubjectTable`), and the reader is checked
against the promise, so a state space holds one side's interleavings at a time.
A table's promise and its implementation share their variables: the refinement
mapping is the identity. KmsPlugin maps its state to SealWrapper's with
`INSTANCE SealWrapper WITH`: the promise sees a backend without its ring, a call
only while a backend serves it, and nothing of the lock.

**KeyLifecycle** is the abstract specification of one `key_versions` table:
create version 1, add a pending version, promote it.

**KeyRotation** is the code behind it. `keyStatus` and `keyMaterial` are the
columns of `key_versions` (`"absent"` is a missing row), `rotations` and
`verified` the two rotation tables, `auditLog` the rotation events, `stored`
the version and key under which OpenBao's blob is wrapped, `known` the
operation identifiers that an operator has seen, and `cli[p]` the command that
shell `p` runs. A transaction is one action. `NextRotationKeyRef`,
`StartRotation` and `StartAudit` are the three steps of `rotate start`;
`ActivateRotation`, `ActivateAudit` those of `rotate activate`; `RootCheck` to
`RootRecord` and `RestartCheck` to `RestartAudit` those of the other two.
`CommandFails` is any error and any kill between two steps. `RootCall` models
OpenBao, which is external: the rewrite may happen and its answer get lost.

**EvidenceTable** is the abstract specification of the enrollment and evidence
tables and the clock: TPM evidence is written only under an active enrollment,
with its revision and UID, for at most the TTL, and disappears when the
enrollment is replaced or revoked.

**NodeEvidence** is the code behind it. `pub[p]` is a `ChallengeNodeEvidence` or
`PublishNodeEvidence` handler with its locals, `admin[a]` an
`EnrollNodeEvidence` or `RevokeNodeEvidence` handler. A publish is
`PublishNodeEvidence` (the enrollment row), `ReadPublishers` (the certificates),
`VerifySubmission` (nonce and quote), `ConsumeChallenge`, `PruneBeforePut` and
`PutEvidence`. `source` remembers which policy and certificate stood behind a
stored row, `allowed` counts the ALLOW events in each sink.

**UnsealService** has a handler `req[r]` per Wrap or Unwrap call, whose `pc`
names the next statement: `keyref`, `subject`, `node`, `challenge`, `key`, then
`use` (load the keyring, encrypt or decrypt), `audit` and `reply`. `StartBroker`
seeds, `StopBroker` loses the handlers. `KeysMove`, `EvidenceMoves` and
`SubjectsMove` are the steps of the three abstract tables. `spent`, `revoked`,
`barred` and `revocations` are history.

**SubjectTable** is the abstract specification of the `subjects` table: a subject
is admitted once and revoked for good, whoever inserts it again. `InsertSubject` is
`INSERT OR IGNORE` and no statement clears `revoked`.

**Enrollment** is the code behind it. `requests`, `grantFiles` and `trust` are the
files, `requestRows` and `grants` the tables, `log` the audit events, and `cmd[p]`
the command of shell `p` with the clock reading it took at its start.
`IssueRead` to `IssueAudit` are the steps of `enroll issue`, which admits the
subject first; `ApplyRead` to `ApplyAudit` those of `enroll apply`, where
`ConsumeEnrollmentGrant` is a SELECT (`ApplySelect`) and an UPDATE
(`ApplyUpdate`). A grant exists twice, as row and as file: `apply` verifies the file,
looks up consumption and expiry of the row with the file's identifier, and takes the
subject from the file (`command.go:530-558`). The signature is made with a key drawn
for the one grant and checked with the public half in the same file, so it shows that
a file is whole and not which row it belongs to. `GrantDocuments` are therefore all
well-formed files for grants that were handed out. `applied` is history: the subjects
of the commands that used a grant up.

**Deployment** puts the writers beside the reader. It extends UnsealService and
instantiates KeyRotation, NodeEvidence and Enrollment over the same tables, the
same clock and the same broker process. `Start` is `NewRuntime`, whose development
seeding writes the first key and the subjects in one transaction; `Stop` loses the
handlers of all services; the other actions are a step of one part (`RotationStep`,
`PublishingStep`, `EnrollingStep`, `UnsealStep`) or of the clock. The rows of
subjects, challenges, enrollments and evidence refer to the cluster's row, so these
tables stay as they are until a cluster exists. `recover` is left to Recovery. Two
properties are stated here, because they need the writers: `ReleasesHaveTrail` (every
release goes back to a request file, a used grant or the development configuration,
and to an audited enrollment of the node) and `NodeCheckRestsOnEnrollment` (what stands behind
the evidence at the moment the check of the node passes).

**Recovery** follows one key through `init` and `recover` on several databases.
`keys[s]` is the `key_versions` table of database `s` with key and `policy_id` of
each version, `lineage[s]` its
`recovery_packages` row, `secret`, `escrow` and `session` what exists of a
package: the key, the metadata file and printed shares, the session file's expiry.
`InitCreate` to `InitPrint` are the steps of `init`, `BeginRead` and `BeginWrite`,
`RecoverRead` to `RecoverSubject` and `Finish` those of the three `recover`
commands. A command that rejects its input (shares, session, target request) is
the same as `CommandFails` here; audit events are left out. Rotation is reduced
to its effect on the table; `LoseState` loses a host. `opened` and `restored` are
history. The `policy_id` is authenticated with each blob (`internal/keyring/metadata.go:45`,
`wrap.go:60`) and is not part of the package: it is `-policy-id` of `init`, and again of
`recover enroll`. `Opens` therefore compares it too. KeyRotation and UnsealService
leave it out, because within one database a version's `policy_id` never changes.

**Shamir** is the arithmetic of the shares: GF(256) multiplication and inversion,
the polynomial, interpolation at zero, and the checks of `Recover` on a set of
shares. MCRecovery checks it against its purpose next to the ceremonies.

**NodeAgent** is the agent's loop against the admin service. Times are relative and
count down with `Tick`: `left` until the attempt's context ends, `wait` until the
next attempt, `challenge` until the attempt's challenge expires, `row` until the
row that the handler is about to store expires, `life` until the stored evidence
does (0 is stale or missing). `pc` is where the loop stands, `failures` the count
that `-max-failures` bounds, `late` the handlers of attempts that the agent gave
up, `up` whether broker and TPM serve it, `skew` the difference of the clocks.
`unbroken` remembers that the running loop has stored evidence that nobody removed.
`RequestChallenge`, `CollectNodeEvidence`, `SubmitNodeEvidence` and `WriteEvent`
are the steps of an iteration; `LatePut` is a handler that outlives its call.

**TpmQuote** has no state: `CollectQuote` (the quote first, the PCR values
later), `VerifyQuote` and `EvaluatePolicy` as operators over selections, PCR
values, keys and nonces. A digest or signature is the tuple of what it covers. The
enrolled policy is the operator's own spelling (`EnrolledPCRPolicy`): `Validate`
normalises it for the check and throws the result away
(`internal/tpm/policy.go:110-118`), and the comparison with a quote is of the stored
spelling (`policy.go:132-141`).
**AgentEvidence** puts the two together: what the broker decides about a quote
whenever it handles an attempt of the agent.

**LocalTpm** is the state directory: `sealed[v]` and `meta[v]` are the two files of
version `v` (`None` is missing, `Torn` truncated), `boot` the PCRs, `prov[s]` a
`tpm provision` command. `WriteSealed` and `WriteMetadata` have two steps each,
because the file is truncated before it is written. `StatusEdited` is an operator
who edits a status by hand, the only way to make a version decrypt-only, pending or
retired. `policies` and `withdrawn` are history: the policy ids that a version was
provisioned with, and the versions that were edited to a status that is not usable.

**KubernetesWorkload** has the pod that bears the name (`pod`), the pod in which the
plugin's process runs (`self`), and the broker's checks of a token as operators.

**KmsPlugin** has one record per goroutine of OpenBao, `call[c]`: its operation, its
next step, and the backend that it builds, uses or closes. `AcquireLock` to
`NameKey` are `SetConfig` and `Init` under `Wrapper.mu`; `CurrentBackend` reads
under the lock, and `Challenge` to `Answer` (broker) or `UseRing` (local TPM)
run without it; `Trace` takes it once more. `Finalize` swaps the backend out and
`CloseBackend` closes it later. `ReviewToken` and `VerifyPodBinding` are the two
API calls of the broker's verifier; its policy is an arbitrary verdict here.
`ListVersion` skips pending and retired versions and fails if none is left; `Opens`
asks for a usable status, the key and the `policy_id` of the blob.
`ProcessRestarts` and `MachineReboots` lose the process. `blobs` is history.

**SealWrapper** is what OpenBao may rely on: one backend in force, under the stored
configuration, replaced only after it was closed, and each call served by the
backend that was in force when it began.

The `MC` modules add symmetry sets and constants with structure.
Operators whose comment starts with "Slip:" are plausible mistakes that no
action uses; substituting one for the definition that follows it breaks the
property `PROJECT.json` pairs it with.

## What TLC checks

| Run | Question | Properties |
|---|---|---|
| rotation | two shells, two operations, every interleaving and failure, up to the version limit | `KeyTypeOK`, `KeyringAlwaysLoads`, `StartedRotationCanActivate`, `StoredKeyStaysUnwrappable`, `RootVerificationMeansRewritten`, `VerificationsInOrder`, `ImplementsKeyLifecycle` |
| unseal_keys | two calls race for two challenges while keys rotate through three versions, with faults and restarts | `ServiceTypeOK`, `ChallengeSingleUse`, `ClientBlobsStayUnwrappable`, `DecisionHoldsAtUse` |
| unseal_policy | subjects, enrollments, evidence and time change under two calls | `RevokedSubjectsStayOut`, `RevokedNodesStayOut` |
| unseal_answered | faults and restarts, with fair handlers | `RequestsAreAnswered` |
| publish | a publish and two administrators with failing audit sinks | `NodeTypeOK`, `EnrollmentChangesAudited`, `EvidenceRestsOnEnrollment` |
| evidence_expiry | two publishes, a running clock, pruning, fake-local evidence | `PublishChallengeSingleUse`, `ImplementsEvidenceTable` |
| enroll | two shells, a request that is granted twice, files of any subject and expiry, a development subject, expiry exactly and past | `GrantSingleUse`, `TrustRestsOnGrant`, `EventsAreTrue`, `AdmissionsAreAccounted`, `ImplementsSubjectTable` |
| recovery | two shells, two packages, two databases, two policy ids, losses, rotations, expiring sessions; and the arithmetic of their shares | `RecoveryTypeOK`, `RestoreFollowsOpenedSession`, `FirstKeyIsRecoverable`, `SharesRecoverTheSecret`, `OneShareTellsNothing` |
| agent | the publish loop, a broker that comes and goes, late handlers, clock skew; and the quotes it carries | `AgentTypeOK`, `FreshWhileTolerable`, `EvidenceRecovers`, `StoredRowsRestOnGenuineQuotes`, `HealthyNodesPublish` |
| plugin | two goroutines in the wrapper, a pod that moves, a state directory that is provisioned under two policy ids and edited while it is read, reboots and restarts | `PluginTypeOK`, `ConnectionsOwned`, `VerifiedNodeHostsCaller`, `WrappedStaysReadable`, `ImplementsSealWrapper`, `CallsReturn` |

All of these hold. Deployment has no run. The smallest instance in which the
workload of a node obtains a key (one node, one call, one publisher, one
administrator, keys and a subject from the development configuration) has about five
million states; its properties held there, but a run with a second actor of any kind
is out of reach, and one without tells little. It is proved instead.

Two runs show a disagreement between a document and the code:

- **runbook** (`RunbookOrderAccepted`): the Kubernetes runbook runs
  `rotate openbao-root` between `rotate start` and `rotate activate`
  (`docs/operations/kubernetes-profile-runbook.md:190-205`). The command refuses
  an operation that is not activated (`internal/baounsealctl/command.go:894`).
- **unseal_audit** (`EveryDecisionAudited`): the threat model says "Audit every
  key release decision." (`docs/security/threat-model.md:533`). A Wrap or Unwrap
  that fails after the policy decision is denied without an event
  (`internal/broker/service.go:226-237, 343-354`), with both sinks working.

A third disagreement is the other side of properties that hold. For the symptom
`subject is revoked` the runbook says "Re-enroll or intentionally keep the subject
denied." (`docs/operations/kubernetes-profile-runbook.md:46`). Re-enrolling has no
effect: `enroll issue` and `enroll apply` succeed, use their grant up and write trust
state and events, while `INSERT OR IGNORE` leaves the revoked row as it is
(`internal/broker/sqlite.go:564-576`), and no command restores a subject.
`ImplementsSubjectTable` shows it of the commands (a move from "revoked" to "allowed"
is no step of SubjectTable) and `RevokedSubjectsStayOut` of the service. Both state
what the code does; an operator who follows the runbook finds the subject still denied.

The models also reach states that no property excludes and an operator should
know of. `enroll issue` admits the subject before it writes the grant and the
event (`command.go:429`), so a failing command leaves an admitted subject without
an event. `init` commits the key before it prints the shares
(`command.go:140-196`); when the package file or the audit fails, the keyring
works and nobody holds shares. `rotate start` makes no recovery package
(`command.go:693`): recovery restores version 1, and only for what version 1
wrapped is `FirstKeyIsRecoverable` stated. The mitigations in
`docs/security/threat-model.md` ask for more in each of the three cases: "Log all
enrollment events." (:406), "Make recovery escrow mandatory for `create-key`."
(:419) and "create `K2`, escrow `K2`" before switching keys (:438). No run states
these three.

Two concern what a file carries and a table does not check. `enroll apply` does not
compare its file with the grant's row, although the threat model asks to "Bind grants
to cluster ID, key ID, node ID, policy mode, and request fingerprint." (:400-401). What
holds nevertheless is in `TrustRestsOnGrant` and `AdmissionsAreAccounted`: one grant
admits one subject, within the row's lifetime, to the reading of the clock at the
command's start. And `recover enroll` restores a key under its own `-policy-id`
(`command.go:1876, 2046`); with another one than `init` was given the key is right and
opens nothing that was wrapped before. `FirstKeyIsRecoverable` states both halves.

Five more concern nodes. A TPM policy whose PCRs are out of order, whose hash is
missing or in upper case passes validation and enrollment and refuses every healthy
node; `HealthyNodesPublish` says that a healthy node publishes exactly under a policy
in canonical spelling, the one that `NewPCRPolicy` builds. `tpm provision` repeated
for a version with another `-policy-id` (`command.go:1575, 1662`) makes older blobs of
that version unreadable; `WrappedStaysReadable` is stated for versions that were
provisioned under one. `tpm provision` checks the package's cluster only if
`-cluster-id` is given (`command.go:1570`); without it, a run with another
cluster's package that is interrupted between the two files leaves the other key
under the old metadata. `WrappedStaysReadable` is stated for operators who give
it. `tpm provision` writes every version as active (`command.go:1660`), so a
second version makes the plugin refuse the state directory until somebody edits
the metadata of the first; `docs/reference/local-tpm.md:93` describes the result
and no command produces it. The agent compares `-interval` with the lifetime that
it requests (`internal/baounsealagent/run.go:80`), and the broker may grant less:
`FreshWhileTolerable` needs the granted lifetime to exceed the interval by the
margin that `AgentAssumption` states.

### Bounds

Two handlers or shells are enough for every pairwise race, and three versions
for a rotation on top of a rotation (a version that is two generations old). Two
challenges let one request spend its own while another is contended. The
limits of the code (`math.MaxUint32` versions, `math.MaxInt64` revisions) are the
constants `MaxKeyVersion` and `MaxRevision`, small enough to be reached.
`MaxTime` bounds the clock: with TTL 1, two ticks pass an expiry, one expires
exactly. `MaxAudits` bounds the ALLOW events; it is not below `MaxRevision`
except where one event suffices (evidence_expiry). Symmetry is used for
interchangeable identifiers, and not in the runs with liveness (unseal_answered,
agent, plugin). The development subject of the enroll run can be admitted by a
broker start as well as by a grant; one request identifier is enough, because a request
can be granted twice and `apply` does not look at it. In the
recovery run two databases allow a restored copy next to the original, two
packages a mix-up, two policy ids a restored copy that differs; two keys are two
clusters or a rotation of one, and `MaxVersions` allows
one rotation of a keyring. Its shares are those of every package with up to
three shares, two secret bytes and two sample coefficients, in lists of up to
three with damaged, foreign and repeated shares among them; that one share tells
nothing is checked for every byte as the secret.

In the agent run `BrokerTTL` caps the requested lifetime, and the granted 17 ticks
are one more than `Tolerated` failures can take; three failures end the loop. The
skews are a clock that is behind, right, and so far ahead that every challenge
looks expired. Two PCRs, two measurements, two keys and two nonces are enough for
any one of them to be wrong. In the plugin run two goroutines meet in one
deployment with a broker; the other deployments (other configurations, attestation
without Kubernetes, local TPM) have one. Two provisioning commands are two
versions or one version twice, under two policy ids; `MaxEdits` allows one edit of a
status, which is what a second version needs. The local configuration leaves
`key_version` open: naming one only narrows which rings are accepted. Two UIDs are
a pod that is recreated under its name, two boot states a change of the PCRs.

Deadlock is checked in every run
but recovery, where operators may stop: every package and key of the instance
can be used up by failed commands.

### Fairness

`FairServiceSpec` assumes weak fairness of each handler's own steps: Go
schedules every runnable goroutine, a statement on a locked database fails
instead of waiting (no busy timeout is set), and audit writes are ordinary file
and database writes. Nothing is assumed of clients, administrators, time or
broker restarts.

`FairAgentSpec` assumes weak fairness of the loop's steps and of the clock: a
timer that is due fires. Nobody has to restart an agent that gave up;
`EvidenceRecovers` names that, and a broker that serves, as its premises.

`FairPluginSpec` assumes weak fairness of each goroutine's steps without the lock
and strong fairness of those that take it, because a `sync.RWMutex` blocks new
readers once a writer waits and hands over to them when it leaves. A broker call
is assumed to end. The plugin sets no deadline of its own, so this rests on the
context of OpenBao's caller and on the connection's failure.

## What is proved

`KeyRotationProofs` proves for any `Operators`, `OpIds`, `MaxKeyVersion` and
`Materials` that satisfy the assumptions in `KeyLifecycle` and `KeyRotation`
(a positive version limit; the keys of `init`, of the development configuration
and of each operation are keys):

- `TypeCorrect`: `KeySpec => []KeyTypeOK`
- `KeyringLoads`: `KeySpec => []KeyringAlwaysLoads`
- `RotationResumable`: `KeySpec => []StartedRotationCanActivate`
- `StoredKeyUnwrappable`: `KeySpec => []StoredKeyStaysUnwrappable`
- `VerificationsOrdered`: `KeySpec => []VerificationsInOrder`
- `RootVerificationTrue`: `KeySpec => []RootVerificationMeansRewritten`
- `LifecycleRefinement`: `KeySpec => ImplementsKeyLifecycle`

None of these is inductive alone. That a keyring always loads depends on the
started operation naming exactly the active and the pending row, which depends
on versions having no gaps (the next version is `MAX + 1`) and on nobody else
holding the identifier that a command is about to insert. `TableInv` ties
`key_versions` to `rotation_operations`; `CommandInv` ties running commands to
operations; `VerifyInv` records what the steps a command has already taken
guarantee for the next one, for instance that at `rootRecord` the stored blob is
already at the operation's version. `FirstKey`, `NewRotation` and `Activation`
show what each of the three table transactions does; `TableStep`, `TypeStep`,
`CommandStep`, `StoredStep`, `ActivatedStep`, `VerificationStep` and
`ProgressStep` take the invariant across every action.

`EnrollmentProofs` proves for any operators, requests, grants, subjects, clock
bound and lifetimes that satisfy `EnrollmentAssumption` and `SubjectAssumption`
(lifetimes are numbers, "none" is no name, development subjects are subjects):

- `EnrollTypeCorrect`: `EnrollSpec => []EnrollTypeOK` (no run checks it besides)
- `GrantsUsedOnce`: `EnrollSpec => []GrantSingleUse`
- `TrustIsFounded`: `EnrollSpec => []TrustRestsOnGrant`
- `EventsTrue`: `EnrollSpec => []EventsAreTrue`
- `AdmissionsAccounted`: `EnrollSpec => []AdmissionsAreAccounted`
- `SubjectTableRefinement`: `EnrollSpec => ImplementsSubjectTable`

The commands hold no lock between their statements, so what a later statement
relies on has to survive all other commands. `Earned` lists it per statement: at
`applyUpdate` the clock value read earlier is before the row's expiry, after it the
grant was used up for the subject that the command carries, at `applyTrust`
the subject has a row, at `applyAudit` the trust state is written. `Reserved`
says that an identifier belongs to one command until its row is stored.
`RowsInv` and `RevokedInv` relate the tables to each other and to the history of
revocations. `UpdateEffect` shows that the conditional UPDATE either uses an open
grant up or changes nothing, which is all that single use rests on. For
`AdmissionsAccounted` request files stay (`RequestsStay`) and so do uses of grants
(`UsesStay`); the subject of a running issue is one that a request file named, that of
an apply past its UPDATE is the one for which the grant was used up.

`UnsealServiceProofs` proves for any requests, challenges, subjects, nodes, key
versions and lifetimes that satisfy the assumptions of `UnsealService` and of the
three table modules:

- `ServiceTypeCorrect`: `ServiceSpec => []ServiceTypeOK`
- `ChallengesSpentOnce`: `ServiceSpec => []ChallengeSingleUse`
- `RevokedSubjectsDenied`: `ServiceSpec => []RevokedSubjectsStayOut`
- `RevokedNodesDenied`: `ServiceSpec => []RevokedNodesStayOut`
- `ClientBlobsUnwrappable`: `ServiceSpec => []ClientBlobsStayUnwrappable`
- `DecisionsHold`: `ServiceSpec => []DecisionHoldsAtUse`

The service sees its tables only through `KeyLifecycle`, `EvidenceTable` and
`SubjectTable`. `LifecycleRefinement`, `NodeEvidenceRefines` and
`SubjectTableRefinement` prove that the writers keep to those promises. `ServiceInv` has three parts.
`TablesInv` is about the tables alone: an active version exists once there are
keys, none that can be used is newer, a pending one is newer than all others
(`KeysInv`), and without fake-local evidence every row is a verified TPM quote that
rests on an active enrollment (`EvidenceInv`). `HandlersInv` says of each handler what its earlier
statements established and no step of another can undo: whether it has spent its
challenge (`SpendInv`), that its subject was not revoked on arrival
(`SubjectInv`), that its node was enrolled or has been since (`NodeInv`), and that
its version can be used and its blob has that version's key (`BlobInv`).
`ChallengesInv` counts the spenders of each challenge. `TablesKept` is the bridge:
usable versions stay usable with their keys, revocations stay, an enrollment
changes only with its revision. `TablesStep` proves it of every step,
`RestingHandler` concludes that a handler that does not move keeps its invariant,
and one lemma per statement deals with the handler that does. The last section
says what a handler has passed once it is beyond a statement (`SubjectPassed`,
`NodePassed`, `ReleasedNode`); DeploymentProofs builds on it.

`NodeEvidenceProofs` proves for any nodes, UIDs, policies, certificates,
challenges, publishers and administrators that satisfy `NodeEvidenceAssumption`
and `EvidenceAssumption` (lifetimes and limits are numbers, "none" names nothing):

- `NodeTypes`: `NodeSpec => []NodeTypeOK`
- `EvidenceRests`: `NodeSpec => []EvidenceRestsOnEnrollment`
- `ChallengesSingleUse`: `NodeSpec => []PublishChallengeSingleUse`
- `ChangesAudited`: `NodeSpec => []EnrollmentChangesAudited`
- `NodeEvidenceRefines`: `NodeSpec => ImplementsEvidenceTable`

A publish stores evidence on the strength of an enrollment, a certificate and a
quote that it looked at several statements earlier. `Backed` says when they still
count: as long as the enrollment has the revision that was read and is active,
its policy and certificates are those that were read, which is what the comparison
of revisions in `PutEvidence` relies on. It holds because an enrollment changes only
with its revision (`EnrollmentsKept`). For the audit the property is too weak to
be inductive: two administrators may each have written their event and not yet
changed the node. `AuditInv` adds them to the revision: the revision and the
number of handlers that are past a sink (`Announced`) are together at most the
number of events in that sink. `AuditWrites` and `AuditUsed` move a handler into
and out of that set.

`RecoveryProofs` proves for any shells, databases, packages, keys, clock bound and
session lifetime that satisfy `RecoveryAssumption`:

- `RecoveryTypes`: `RecoverySpec => []RecoveryTypeOK`
- `RestoreFollowsSession`: `RecoverySpec => []RestoreFollowsOpenedSession`
- `FirstKeyRecoverable`: `RecoverySpec => []FirstKeyIsRecoverable`

The invariant says that the first key of a database is the secret of the package
that its `recovery_packages` row names, whatever its `policy_id` (`Founding`), that what a running command
holds agrees with it (`Held`), and that a package which `init` has not committed
yet belongs to one command. `SecretsStep` proves that a secret is set once and
that opened packages stay opened; the other lemmas rest on it.

`KmsPluginProofs` proves for any finite set of goroutines and any configurations,
key versions, provisioning shells, boot states, nodes and number of pods that
satisfy `PluginAssumption`, `TpmAssumption` and `WorkloadAssumption` (the
markers for "nothing" and "truncated" are not values, versions are positive
numbers):

- `PluginTypes`: `PluginSpec => []PluginTypeOK`
- `ConnectionsAreOwned`: `PluginSpec => []ConnectionsOwned`
- `VerifiedNodeIsCallers`: `PluginSpec => []VerifiedNodeHostsCaller`
- `WrappedReadable`: `PluginSpec => []WrappedStaysReadable`, if
  `ExpectedCluster = Cluster`: operators run `tpm provision` with `-cluster-id`.
  The plugin run makes the same assumption.
  Versions that were edited to pending or retired, or provisioned under two policy
  ids, are exempt in the property itself.
- `PluginRefines`: `PluginSpec => ImplementsSealWrapper`

`PluginInv` has a part for each of the three modules. `WrapperInv`: a call between
`check` and `name` holds the lock; while it builds a backend none is in force and
no other call has a backend of the same identity (`Made`); every open connection
has an owner. That a fresh identity exists at all (`FreshId`) is a matter of
counting: while no backend is in force, the identities in use are those that calls
hold, and there are more identities than calls. `CoverInv`: every version that was ever used to
wrap, or that a call in flight may still wrap with, has a metadata file, and unless it
was withdrawn a
construction that has read the directory has it among the versions it loaded or
is about to load. This has to hold already while the directory is read file by
file next to `tpm provision`, so `Listed` states it for each step of the loading;
`KeysInv` adds that all keys are the cluster's, that a status which is not usable was
edited and that every policy id in a file, ring or blob was provisioned (`Recorded`). `PodInv` and `ClaimsInv`: a pod with
the UID of the process is the pod of the process, and claims that were accepted are
those of its token. For the refinement `Unserved` and `StillServed` show that the
steps of construction and of a call in progress are stutters of `SealWrapper`;
`StoreOpens`, `CurrentBegins` and `FinalizeCloses` are the steps that are not.

`NodeAgentProofs` proves for any interval, timeout, lifetimes, failure limit and
clock skew that satisfy `AgentAssumption`:

- `AgentTypeCorrect`: `AgentSpec => []AgentTypeOK`
- `EvidenceStaysFresh`: `AgentSpec => []FreshWhileTolerable`

The assumption that carries the second is
`(Tolerated + 1) * (Interval + Timeout) + 2 * Timeout < EvidenceTTL`: the tolerated
failures and one more attempt fit into the granted lifetime, with one timeout for
the age of a row when it is stored and one for a handler that stores an older row
late. The invariant `AgentInv` therefore bounds the age of three things at once:
the row in the current handler and in each abandoned one (`RowsYoung`), and the
stored evidence by the number of failures, the attempt's remaining time and the
remaining wait (`AgeBound`). `SpanStep` and `SpanTolerated` are the arithmetic,
`StepKeepsRows` and `StepKeepsAge` take the invariant across every action.

It also proves, for any lists of PCRs, platform PCRs, measured values, attestation
keys and nonces that satisfy `QuoteAssumption` (a platform has PCR 7, PCRs are
numbered 0 to 23):

- `QuotesAreGenuine`: `AcceptedQuotesAreGenuine`
- `HealthyNodesPass`: `HealthyNodesAreAccepted`
- `StoredRowsAreGenuine`: `AgentSpec => []StoredRowsRestOnGenuineQuotes`
- `HealthyNodesAlwaysPublish`: `AgentSpec => []HealthyNodesPublish`

Everything there turns on `Normalize`, which sorts the selected indexes: the agent may
list them in any order and must come to the selection and digest of a policy that is
written in canonical spelling, and to those of no other. `SortedListExists` and `SortedListUnique` show that a list
without duplicates has exactly one increasing arrangement, by the least counterexample
(`LeastElement`), the only form of induction that the provers take. `SortCanonical`
and `NormalizeCanonical` follow: selections of the same PCRs normalise alike.
`CollectedFacts` says what a collected quote covers, `VerifiedQuote` what the
verification has compared once it succeeds.

`DeploymentProofs` proves for every instance of Deployment:

- `DeploymentRotates`: `DeploymentSpec => Rotation!KeySpec`
- `DeploymentPublishes`: `DeploymentSpec => Publishing!NodeSpec`
- `DeploymentEnrolls`: `DeploymentSpec => Enrolling!EnrollSpec`
- `DeploymentUnseals`: `DeploymentSpec => ImplementsUnsealService`
- `ReleasesTraced`: `DeploymentSpec => []ReleasesHaveTrail`
- `NodeChecksRest`: `DeploymentSpec => NodeCheckRestsOnEnrollment`

The last three assume `Settings`: what KeyRotation, NodeEvidence and Enrollment
assume of the constants beyond UnsealService's own assumptions. It is a hypothesis
because an instance does not bring its assumptions along.

The first three say that a component is not disturbed by the others: seen through
its own variables, a step of the whole is a step of the component or nothing
(`RotationSeen`, `PublishingSeen`, `EnrollingSeen`). The theorems of each component
therefore hold of the deployment, and `ComponentsInv` collects the invariants that are
needed. The fourth discharges what UnsealService assumes. That service is specified
and proved against three abstract tables; `RotationMovesKeys`,
`PublishingMovesEvidence` and `EnrollingMovesSubjects` show that each concrete step
is a move of an abstract table or leaves it alone, and `StartRefines` that the
start, which writes two tables at once, is the service's own start. With it all of
`UnsealServiceProofs` holds with the real writers.

The other two relate parts that never see each other's state. For `ReleasesTraced`,
`TrailInv` follows a request: beyond the check of its subject the subject was
requested, configured or the subject of a used grant (`AdmissionsAccounted`, and
`AccountsKept`); beyond
the check of its node an enrollment revision exists that is higher than the one at
which the node was barred (`ReleasedNode`), and each revision has its event in each
sink (`ChangesAudited`). `NodeChecksRest` is an action property: the step that
accepts a node reads the evidence row, and by `EvidenceRests` and `ChangesAudited`
the row has behind it, at that moment, the enrollment's revision, policy,
certificate and UID and the events of both sinks.

Only model-checked are:

- `RequestsAreAnswered`, `EvidenceRecovers` and `CallsReturn`: liveness under
  fairness, which the prover does not reach.
- `SharesRecoverTheSecret` and `OneShareTellsNothing`: what Shamir's recursive
  definitions compute needs induction over data, which it does not reach either.

The two properties of the violation runs are false, so there is nothing to prove.

## Assumptions and abstractions

- SQLite transactions are serialisable and the store has one connection; a
  statement outside a transaction is a step of its own.
- The broker's clock does not run backwards.
- OpenBao rewrites its stored key one rewrite at a time; a rewrite is atomic.
- Random identifiers and generated keys do not collide.
- `recovery.Recover` yields the package's secret from enough genuine shares and
  refuses everything else (the checksum in the metadata); each package has its
  session file at the default path.
- One cluster and one `key_id`. Two `key_id`s with an active version each would
  make `NewRing` refuse the table; no command but a changed development
  configuration adds a second one.
- AES-GCM is equality of key and authenticated data: a blob decrypts exactly under the
  key that wrapped it and, where it can differ (Recovery, KmsPlugin), its `policy_id`.
- In UnsealService and NodeEvidence verified attestation evidence is an arbitrary
  subject, node and UID, and a TPM quote is the policy it satisfies. What the
  verifiers check is in KubernetesWorkload and TpmQuote. Signatures, hashes and
  TPM sealing are injective: they equal exactly what they were made from.
- The agent's clock differs from the broker's by a constant. A broker that serves
  the agent answers before the attempt's time is up.
- A file is truncated, then written whole. Of metadata only the status is
  edited by hand.
- Enrollments and evidence may change in UnsealService also while the broker is
  down, which only adds behaviours.
- DENY events, telemetry and the contents of events are left out, except for
  whether an event was taken where a property speaks of it.

## Not modelled

- Flag and configuration parsing, TLS and listeners: they decide once, before any
  of the state here exists. The settings that matter are constants.
- Telemetry, logging, exit codes, generated protocol code, the admin and
  enrollment clients: no state that a property here is about.
- The in-memory stores serve tests; the broker runs on SQLite.
- The bytes: JSON, PEM, AAD and the TPM's structures, key protection, creation of
  attestation keys, permissions of the state directory. The models tell apart what
  these encode, not how.
- Two `key_id`s in one keyring, and a pool of SQLite connections.
- `recover` next to the services: Deployment starts from an empty database and is
  founded by `init` or the development configuration.
