------------------------------ MODULE KeyRotation ------------------------------
(***************************************************************************)
(* The wrapping-key lifecycle of one (cluster_id, key_id): how the key      *)
(* versions and the rotation operations in the broker's SQLite state move   *)
(* when `bao-unsealctl init`, a broker start with development subjects and  *)
(* the `bao-unsealctl rotate` commands run against it.                      *)
(*                                                                         *)
(* Every rotate command is a process of its own, next to the broker, that   *)
(* runs several SQLite statements or transactions; between two of them any *)
(* other command may run and the process may fail or be killed.  A single   *)
(* transaction is one step (SQLite serialises writers and the store holds   *)
(* one connection).                                                         *)
(***************************************************************************)
EXTENDS KeyLifecycle, FiniteSets

CONSTANTS
    Operators,      \* concurrently usable shells that run rotate commands
    OpIds           \* rotation operation identifiers (randomID("rot"))

\* A version's payload is the key `init` generated, the key of the broker's
\* development configuration, or the key generated by the `rotate start` that
\* created the operation.
ASSUME MaterialsAssumption == {"init", "dev"} \union OpIds \subseteq Keys

\* rotation_operations.status; no code writes "cancelled".
RotationStatuses == {"absent", "started", "activated"}

\* Verifications that are ever recorded ("key-version" is reserved).
VerificationNames == {"openbao-root", "restart"}

\* Rotation audit events, named by their reason.
AuditReasons == {"started", "activated", "root-requested", "root-completed",
                 "root-failed", "restart-completed", "restart-failed"}

\* Where a command process is; "idle" is a shell without a running command.
CliPcs == {"idle", "start", "startAudit", "activateAudit", "rootAudit",
           "rootCall", "rootDone", "rootFailed", "rootRecord",
           "restartList", "restartCall", "restartDone", "restartAudit"}

VARIABLES
    rotations,    \* rotation_operations: status, from_version, to_version
    verified,     \* rotation_verifications: <<operation, name>>
    auditLog,     \* rotation audit events: <<operation, reason>>
    stored,       \* OpenBao's stored seal blob: key version and material
    known,        \* operation identifiers shown to an operator
    cli           \* the rotate command each shell runs

dbVars == <<keyStatus, keyMaterial, rotations, verified>>
keyVars == <<dbVars, auditLog, stored, known, cli>>

NoRotation == [status |-> "absent", from |-> 0, to |-> 0]
NoBlob == [version |-> 0, material |-> "none"]
Idle == [pc |-> "idle", op |-> "none", ref |-> 0, refused |-> FALSE]
Running(pc, op) == [pc |-> pc, op |-> op, ref |-> 0, refused |-> FALSE]
Refused(op) == [pc |-> "idle", op |-> op, ref |-> 0, refused |-> TRUE]

Started == {op \in OpIds : rotations[op].status = "started"}

KeyInit ==
    /\ LifecycleInit
    /\ rotations = [op \in OpIds |-> NoRotation]
    /\ verified = {}
    /\ auditLog = {}
    /\ stored = NoBlob
    /\ known = {}
    /\ cli = [p \in Operators |-> Idle]

--------------------------------------------------------------------------------
(* Creating version 1 *)

\* BootstrapKeyring (bao-unsealctl init): plain INSERTs, so the transaction
\* fails when the cluster already has rows.
BootstrapKeyring ==
    /\ Present = {}
    /\ keyStatus' = [keyStatus EXCEPT ![1] = "active"]
    /\ keyMaterial' = [keyMaterial EXCEPT ![1] = "init"]
    /\ UNCHANGED <<rotations, verified, auditLog, stored, known, cli>>

\* Slip: INSERT OR REPLACE instead of INSERT OR IGNORE.
ConfigureDevelopmentReplacing ==
    /\ keyStatus' = [v \in Versions |->
                       IF v = 1 THEN "active"
                       ELSE IF keyStatus[v] = "active" THEN "absent" ELSE keyStatus[v]]
    /\ keyMaterial' = [keyMaterial EXCEPT ![1] = "dev"]

\* ConfigureDevelopment, on every broker start with development subjects:
\* INSERT OR IGNORE of version 1 as active, which leaves an existing version 1
\* (primary key) and any other active version (unique index) alone.
ConfigureDevelopment ==
    IF 1 \in Present \/ Active # {}
    THEN UNCHANGED <<keyStatus, keyMaterial>>
    ELSE /\ keyStatus' = [keyStatus EXCEPT ![1] = "active"]
         /\ keyMaterial' = [keyMaterial EXCEPT ![1] = "dev"]

BrokerStart ==
    /\ ConfigureDevelopment
    /\ UNCHANGED <<rotations, verified, auditLog, stored, known, cli>>

--------------------------------------------------------------------------------
(* rotate start *)

MaxVersion == CHOOSE v \in Present : \A u \in Present : u <= v

\* nextRotationVersions: an active version to rotate from and room for one
\* more version; the new version is MAX(version) + 1.
CanRotate == Active # {} /\ MaxVersion < MaxKeyVersion

FromVersion == CHOOSE v \in Active : TRUE

\* Slip: the rows are counted from the active version on.
ToVersionCounted == FromVersion + Cardinality(Present)

ToVersion == MaxVersion + 1

\* The random identifier (and key) of a new operation is used by no other.
FreshOp(op) ==
    /\ rotations[op].status = "absent"
    /\ \A p \in Operators : cli[p].op # op

At(p, pc) == cli[p].pc = pc
Goto(p, pc) == cli' = [cli EXCEPT ![p].pc = pc]
Exit(p) == cli' = [cli EXCEPT ![p] = Idle]

\* startRotation up to NextRotationKeyRef, a read-only transaction: the
\* version the new key is protected for is fixed here.
NextRotationKeyRef(p) ==
    /\ At(p, "idle")
    /\ CanRotate
    /\ \E op \in OpIds :
          /\ FreshOp(op)
          /\ cli' = [cli EXCEPT ![p] = [pc |-> "start", op |-> op,
                                        ref |-> ToVersion, refused |-> FALSE]]
    /\ UNCHANGED <<dbVars, auditLog, stored, known>>

\* Slip: a rotation in progress is overlooked.
NoStartedRotationUnchecked == TRUE

\* ensureNoStartedRotation
NoStartedRotation == Started = {}

\* The StartRotation transaction.  With a rotation in progress the error
\* names the started operation; with a reference that is no longer the next
\* version (or no active key) the command just fails.
StartRotation(p) ==
    /\ At(p, "start")
    /\ \/ /\ ~NoStartedRotation
          /\ \E op \in Started : known' = known \union {op}
          /\ Exit(p)
          /\ UNCHANGED dbVars
       \/ /\ NoStartedRotation
          /\ ~(CanRotate /\ cli[p].ref = ToVersion)
          /\ Exit(p)
          /\ UNCHANGED <<dbVars, known>>
       \/ /\ NoStartedRotation
          /\ CanRotate
          /\ cli[p].ref = ToVersion
          /\ keyStatus' = [keyStatus EXCEPT ![ToVersion] = "pending"]
          /\ keyMaterial' = [keyMaterial EXCEPT ![ToVersion] = cli[p].op]
          /\ rotations' = [rotations EXCEPT ![cli[p].op] =
                              [status |-> "started", from |-> FromVersion, to |-> ToVersion]]
          /\ Goto(p, "startAudit")
          /\ UNCHANGED <<verified, known>>
    /\ UNCHANGED <<auditLog, stored>>

\* auditRotation; only after it does the command print the operation.
StartAudit(p) ==
    /\ At(p, "startAudit")
    /\ auditLog' = auditLog \union {<<cli[p].op, "started">>}
    /\ known' = known \union {cli[p].op}
    /\ Exit(p)
    /\ UNCHANGED <<dbVars, stored>>

--------------------------------------------------------------------------------
(* rotate activate *)

\* updateKeyStatus affects exactly one row, or the transaction rolls back.
CanActivate(r) ==
    /\ r.status = "started"
    /\ keyStatus[r.from] = "active"
    /\ keyStatus[r.to] = "pending"

\* Slip: the previous active version is not demoted.
PromoteOnly(r) == [keyStatus EXCEPT ![r.to] = "active"]

\* The two updateKeyStatus calls: demote, then promote.
PromoteAndDemote(r) == [keyStatus EXCEPT ![r.from] = "decrypt-only", ![r.to] = "active"]

\* The ActivateRotation transaction, idempotent once activated.
ActivateRotation(p) ==
    /\ At(p, "idle")
    /\ \E op \in known :
         LET r == rotations[op] IN
         /\ \/ /\ r.status = "activated"
               /\ UNCHANGED <<keyStatus, rotations>>
            \/ /\ CanActivate(r)
               /\ keyStatus' = PromoteAndDemote(r)
               /\ rotations' = [rotations EXCEPT ![op].status = "activated"]
         /\ cli' = [cli EXCEPT ![p] = Running("activateAudit", op)]
    /\ UNCHANGED <<keyMaterial, verified, auditLog, stored, known>>

ActivateAudit(p) ==
    /\ At(p, "activateAudit")
    /\ auditLog' = auditLog \union {<<cli[p].op, "activated">>}
    /\ Exit(p)
    /\ UNCHANGED <<dbVars, stored, known>>

--------------------------------------------------------------------------------
(* rotate openbao-root *)

\* Slip: a started rotation is enough.
RootAllowedEarly(op) == rotations[op].status # "absent"

\* rotateOpenBAORoot insists on an activated rotation.
RootAllowed(op) == rotations[op].status = "activated"

\* RotationOperation is read; anything but an activated rotation is refused.
RootCheck(p) ==
    /\ At(p, "idle")
    /\ \E op \in known :
         cli' = [cli EXCEPT ![p] = IF RootAllowed(op) THEN Running("rootAudit", op)
                                                      ELSE Refused(op)]
    /\ UNCHANGED <<dbVars, auditLog, stored, known>>

RootAudit(p) ==
    /\ At(p, "rootAudit")
    /\ auditLog' = auditLog \union {<<cli[p].op, "root-requested">>}
    /\ Goto(p, "rootCall")
    /\ UNCHANGED <<dbVars, stored, known>>

\* Slip: the newest version is used, pending or not.
WrapNewest ==
    /\ Present # {}
    /\ stored' = [version |-> MaxVersion, material |-> keyMaterial[MaxVersion]]

\* A blob wrapped now: by the active version, with its key.
WrapNow == \E v \in Active : stored' = [version |-> v, material |-> keyMaterial[v]]

\* callOpenBaoRotateRoot.  OpenBao rewrites its stored key through Wrap; the
\* answer can be lost (timeout) after the rewrite, or the call can fail.
RootCall(p) ==
    /\ At(p, "rootCall")
    /\ \/ WrapNow /\ Goto(p, "rootDone")
       \/ WrapNow /\ Goto(p, "rootFailed")
       \/ UNCHANGED stored /\ Goto(p, "rootFailed")
    /\ UNCHANGED <<dbVars, auditLog, known>>

\* The outcome is audited before the command records the verification.
RootOutcome(p) ==
    /\ \/ /\ At(p, "rootDone")
          /\ auditLog' = auditLog \union {<<cli[p].op, "root-completed">>}
          /\ Goto(p, "rootRecord")
       \/ /\ At(p, "rootFailed")
          /\ auditLog' = auditLog \union {<<cli[p].op, "root-failed">>}
          /\ Exit(p)
    /\ UNCHANGED <<dbVars, stored, known>>

\* RecordRotationVerification: an upsert for an existing operation.
RecordRotationVerification(op, name) ==
    /\ rotations[op].status # "absent"
    /\ verified' = verified \union {<<op, name>>}

RootRecord(p) ==
    /\ At(p, "rootRecord")
    /\ RecordRotationVerification(cli[p].op, "openbao-root")
    /\ Exit(p)
    /\ UNCHANGED <<keyStatus, keyMaterial, rotations, auditLog, stored, known>>

--------------------------------------------------------------------------------
(* rotate verify-restart *)

RestartCheck(p) ==
    /\ At(p, "idle")
    /\ \E op \in known :
         /\ rotations[op].status = "activated"
         /\ cli' = [cli EXCEPT ![p] = Running("restartList", op)]
    /\ UNCHANGED <<dbVars, auditLog, stored, known>>

\* Slip: the root verification is not looked for.
RestartAllowedAlways(op) == TRUE

\* hasRotationVerification(openbao-root)
RestartAllowed(op) == <<op, "openbao-root">> \in verified

\* RotationVerifications: openbao-root must be among them.
RestartList(p) ==
    /\ At(p, "restartList")
    /\ IF RestartAllowed(cli[p].op) THEN Goto(p, "restartCall") ELSE Exit(p)
    /\ UNCHANGED <<dbVars, auditLog, stored, known>>

\* callOpenBaoSealStatus: a failed call, an uninitialised or a sealed OpenBao
\* is audited (the result of that audit is ignored) and ends the command.
RestartCall(p) ==
    /\ At(p, "restartCall")
    /\ \/ /\ Goto(p, "restartDone")
          /\ UNCHANGED auditLog
       \/ /\ Exit(p)
          /\ \/ auditLog' = auditLog \union {<<cli[p].op, "restart-failed">>}
             \/ UNCHANGED auditLog
    /\ UNCHANGED <<dbVars, stored, known>>

RestartRecord(p) ==
    /\ At(p, "restartDone")
    /\ RecordRotationVerification(cli[p].op, "restart")
    /\ Goto(p, "restartAudit")
    /\ UNCHANGED <<keyStatus, keyMaterial, rotations, auditLog, stored, known>>

RestartAudit(p) ==
    /\ At(p, "restartAudit")
    /\ auditLog' = auditLog \union {<<cli[p].op, "restart-completed">>}
    /\ Exit(p)
    /\ UNCHANGED <<dbVars, stored, known>>

--------------------------------------------------------------------------------
(* The command's environment *)

\* Any statement may return an error and the process may be killed: the
\* command ends with the effects of its earlier steps only.
CommandFails(p) ==
    /\ cli[p].pc # "idle"
    /\ Exit(p)
    /\ UNCHANGED <<dbVars, auditLog, stored, known>>

\* OpenBao wraps its stored key without the CLI (operator init, or its own
\* root-key rotation).
OpenBaoSeals ==
    /\ WrapNow
    /\ UNCHANGED <<dbVars, auditLog, known, cli>>

RotateStep(p) ==
    \/ StartRotation(p) \/ StartAudit(p) \/ ActivateAudit(p)
    \/ RootAudit(p) \/ RootCall(p) \/ RootOutcome(p) \/ RootRecord(p)
    \/ RestartList(p) \/ RestartCall(p) \/ RestartRecord(p) \/ RestartAudit(p)

RotateCommand(p) ==
    NextRotationKeyRef(p) \/ ActivateRotation(p) \/ RootCheck(p) \/ RestartCheck(p)

KeyNext ==
    \/ BootstrapKeyring
    \/ BrokerStart
    \/ OpenBaoSeals
    \/ \E p \in Operators : RotateCommand(p) \/ RotateStep(p) \/ CommandFails(p)

KeySpec == KeyInit /\ [][KeyNext]_keyVars

--------------------------------------------------------------------------------
(* Properties *)

\* Every column and every command process has a value the code can produce.
KeyTypeOK ==
    /\ keyStatus \in [Versions -> KeyStatuses]
    /\ keyMaterial \in [Versions -> Materials]
    /\ rotations \in [OpIds -> [status : RotationStatuses,
                                from : 0..MaxKeyVersion, to : 0..MaxKeyVersion]]
    /\ verified \subseteq OpIds \X VerificationNames
    /\ auditLog \subseteq OpIds \X AuditReasons
    /\ stored \in [version : 0..MaxKeyVersion, material : Materials]
    /\ known \subseteq OpIds
    /\ cli \in [Operators -> [pc : CliPcs, op : OpIds \union {"none"},
                              ref : 0..MaxKeyVersion, refused : BOOLEAN]]

\* LoadKeyring needs exactly one active version among the rows (NewRing), so
\* whatever rotate commands and broker starts do, in any order and with any
\* failure between their statements, a bootstrapped keyring keeps exactly one,
\* and it is the newest version that was ever active.
KeyringAlwaysLoads ==
    Present # {} =>
        \E a \in Active : /\ Active = {a}
                          /\ \A v \in Usable : v <= a

\* A rotation in progress can always be activated: its from-version is still
\* the active one and its to-version still pending, and no second rotation is
\* in progress (StartRotation and ActivateRotation never roll back half way).
StartedRotationCanActivate ==
    \A op \in Started : CanActivate(rotations[op]) /\ Started = {op}

\* The blob OpenBao stored stays unwrappable by the key that wrapped it,
\* across rotations, broker restarts and failed commands.
StoredKeyStaysUnwrappable ==
    stored # NoBlob =>
        /\ keyStatus[stored.version] \in UsableStatuses
        /\ keyMaterial[stored.version] = stored.material

\* Once `rotate openbao-root` has recorded its verification for an operation,
\* OpenBao's stored key is wrapped under that operation's new version or a
\* newer one, although status check, rewrite and record are separate steps.
RootVerificationMeansRewritten ==
    \A op \in OpIds : <<op, "openbao-root">> \in verified =>
        stored.version >= rotations[op].to

\* Verifications are recorded only for activated rotations, the restart only
\* after the root rotation, and the root rotation only after both its request
\* and its completion were audited.
VerificationsInOrder ==
    \A op \in OpIds :
        /\ <<op, "restart">> \in verified => <<op, "openbao-root">> \in verified
        /\ <<op, "openbao-root">> \in verified =>
              /\ rotations[op].status = "activated"
              /\ {<<op, "root-requested">>, <<op, "root-completed">>} \subseteq auditLog

\* The key_versions table only moves as KeyLifecycle promises, whatever
\* interleaving of rotate commands, broker starts and failures produced it.
ImplementsKeyLifecycle == LifecycleSpec

\* The runbook's order (start, openbao-root, activate, verify-restart): an
\* openbao-root run on a rotation that is started is not refused.
RunbookOrderAccepted ==
    \A p \in Operators : cli[p].refused => rotations[cli[p].op].status # "started"
================================================================================
