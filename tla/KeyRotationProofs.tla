--------------------------- MODULE KeyRotationProofs ---------------------------
(***************************************************************************)
(* KeyRotation for any number of shells, operations and key versions.       *)
(*                                                                         *)
(* The promises about keys rest on TableInv, which ties the key_versions    *)
(* rows to the rotation_operations rows: versions are numbered without      *)
(* gaps, only the newest can be pending, and it is pending exactly while    *)
(* the one started operation promises it.                                   *)
(***************************************************************************)
EXTENDS KeyRotation, TLAPS

Pending == {v \in Versions : keyStatus[v] = "pending"}

TableInv ==
    /\ \E n \in 0..MaxKeyVersion : Present = 1..n
    /\ Present # {} => Active # {}
    /\ \A a \in Active, v \in Usable : v <= a
    /\ \A v \in Pending, u \in Present : u <= v
    /\ \A v \in Pending : \E op \in Started : rotations[op].to = v
    /\ \A op \in Started : /\ rotations[op].from \in Active
                           /\ rotations[op].to \in Pending
    /\ \A o1, o2 \in Started : o1 = o2

\* A running command works for an operation, and one that is about to start
\* an operation is the only one to know it.
CommandInv ==
    /\ \A p \in Operators : cli[p].pc # "idle" =>
          /\ cli[p].op \in OpIds
          /\ cli[p].pc = "start" <=> rotations[cli[p].op].status = "absent"
    /\ \A p, q \in Operators : cli[p].pc = "start" /\ cli[q].op = cli[p].op => q = p
    /\ \A op \in known : rotations[op].status # "absent"

KeyInv == KeyTypeOK /\ TableInv /\ CommandInv

\* What the statements a command has already run guarantee at the next one,
\* and with it what OpenBao's stored blob and the verifications mean.
ActivatedInv == \A op \in OpIds : rotations[op].status = "activated" => rotations[op].to \in Usable

StoredInv ==
    stored # NoBlob => stored.version \in Usable /\ keyMaterial[stored.version] = stored.material

Progress(pc, op) ==
    /\ pc \notin {"idle", "start", "startAudit"} => rotations[op].status = "activated"
    /\ pc \in {"rootCall", "rootDone", "rootRecord"} => <<op, "root-requested">> \in auditLog
    /\ pc = "rootRecord" => <<op, "root-completed">> \in auditLog
    /\ pc \in {"rootDone", "rootRecord"} => stored.version >= rotations[op].to
    /\ pc \in {"restartCall", "restartDone"} => <<op, "openbao-root">> \in verified

ProgressInv == \A p \in Operators : Progress(cli[p].pc, cli[p].op)

VerifyInv ==
    ActivatedInv /\ StoredInv /\ ProgressInv /\ VerificationsInOrder /\ RootVerificationMeansRewritten

USE MaxKeyVersionAssumption, NoMaterialAssumption, MaterialsAssumption

\* MAX(version) over rows numbered 1..n.
LEMMA MaxVersionIsLast ==
    ASSUME NEW n \in Versions, Present = 1..n
    PROVE  MaxVersion = n
<1>1. n \in Present /\ \A u \in Present : u <= n
  BY DEF Versions
<1> QED
  BY <1>1 DEF MaxVersion, Versions

\* The version a new rotation gets exists only once the rotation starts, and
\* it is newer than every other.
LEMMA NextVersionIsNew ==
    ASSUME TableInv, CanRotate
    PROVE  /\ ToVersion \in Versions
           /\ ToVersion \notin Present
           /\ Present \union {ToVersion} = 1..ToVersion
           /\ \A u \in Present : u < ToVersion
<1>1. PICK n \in 0..MaxKeyVersion : Present = 1..n
  BY DEF TableInv
<1>2. n \in Versions
  BY <1>1 DEF CanRotate, Versions, Active, Present
<1>3. MaxVersion = n
  BY <1>1, <1>2, MaxVersionIsLast
<1> QED
  BY <1>1, <1>2, <1>3 DEF ToVersion, CanRotate, Versions

\* The active version is the newest usable one, so there is only one.
LEMMA ActiveIsUnique ==
    ASSUME TableInv, NEW a \in Active
    PROVE  Active = {a}
BY DEF TableInv, Active, Usable, UsableStatuses, Versions

\* An empty database satisfies the invariant.
LEMMA InitKeyInv == KeyInit => KeyInv
<1> SUFFICES ASSUME KeyInit PROVE KeyInv
  OBVIOUS
<1> USE DEF KeyInit, LifecycleInit
<1>1. KeyTypeOK
  BY DEF KeyTypeOK, KeyStatuses, NoRotation, RotationStatuses, NoBlob, Idle, CliPcs, Versions, Keys
<1>2. Present = {} /\ Active = {} /\ Usable = {} /\ Pending = {} /\ Started = {}
  BY DEF Present, Active, Usable, UsableStatuses, Pending, Started, NoRotation
<1>3. TableInv
  <2>1. Present = 1..0 /\ 0 \in 0..MaxKeyVersion
    BY <1>2
  <2> QED
    BY <1>2, <2>1 DEF TableInv
<1>4. CommandInv
  BY DEF CommandInv, Idle
<1> QED
  BY <1>1, <1>3, <1>4 DEF KeyInv

\* What the first key, created by init or by a broker start, does to the rows.
LEMMA FirstKey ==
    ASSUME KeyTypeOK, TableInv, Present = {}, NEW m \in Keys,
           keyStatus' = [keyStatus EXCEPT ![1] = "active"],
           keyMaterial' = [keyMaterial EXCEPT ![1] = m],
           UNCHANGED rotations
    PROVE  /\ CreateKey
           /\ TableInv'
           /\ keyStatus' \in [Versions -> KeyStatuses]
           /\ keyMaterial' \in [Versions -> Materials]
<1>1. 1 \in Versions
  BY DEF Versions
<1>2. keyStatus' \in [Versions -> KeyStatuses] /\ keyMaterial' \in [Versions -> Materials]
  BY Zenon DEF KeyTypeOK, KeyStatuses, Keys
<1>3. \A v \in Versions : keyStatus[v] = "absent"
  BY DEF Present
<1>4. Present' = {1} /\ Active' = {1} /\ Usable' = {1} /\ Pending' = {}
  BY <1>1, <1>3 DEF KeyTypeOK, Present, Active, Usable, UsableStatuses, Pending
<1>5. Started = {}
  BY <1>3 DEF TableInv, Pending
<1>6. Started' = {}
  BY <1>5 DEF Started
<1>7. TableInv'
  <2>1. Present' = 1..1 /\ 1 \in 0..MaxKeyVersion
    BY <1>4
  <2> QED
    BY <1>4, <1>6, <2>1 DEF TableInv
<1> QED
  BY <1>2, <1>7, Zenon DEF CreateKey

\* What the StartRotation transaction does to the rows when it succeeds.
LEMMA NewRotation ==
    ASSUME KeyTypeOK, TableInv, NoStartedRotation, CanRotate,
           NEW op \in OpIds,
           keyStatus' = [keyStatus EXCEPT ![ToVersion] = "pending"],
           keyMaterial' = [keyMaterial EXCEPT ![ToVersion] = op],
           rotations' = [rotations EXCEPT ![op] =
                            [status |-> "started", from |-> FromVersion, to |-> ToVersion]]
    PROVE  /\ AddPendingKey
           /\ TableInv'
           /\ keyStatus' \in [Versions -> KeyStatuses]
           /\ keyMaterial' \in [Versions -> Materials]
           /\ rotations' \in [OpIds -> [status : RotationStatuses,
                                        from : 0..MaxKeyVersion, to : 0..MaxKeyVersion]]
<1> DEFINE t == ToVersion
<1>1. /\ t \in Versions /\ t \notin Present
      /\ Present \union {t} = 1..t
      /\ \A u \in Present : u < t
  BY NextVersionIsNew
<1> HIDE DEF t
<1>2. FromVersion \in Active /\ FromVersion \in Versions
  BY DEF CanRotate, FromVersion, Active
<1>3. Started = {} /\ Pending = {}
  BY DEF NoStartedRotation, TableInv
<1>4. keyStatus[t] = "absent"
  BY <1>1 DEF Present
<1>5. /\ keyStatus' \in [Versions -> KeyStatuses]
      /\ \A v \in Versions : keyStatus'[v] = IF v = t THEN "pending" ELSE keyStatus[v]
  BY <1>1 DEF KeyTypeOK, KeyStatuses, t
<1>6. keyMaterial' \in [Versions -> Materials]
  BY Zenon DEF KeyTypeOK, Keys
<1>7. /\ rotations' \in [OpIds -> [status : RotationStatuses,
                                   from : 0..MaxKeyVersion, to : 0..MaxKeyVersion]]
      /\ rotations'[op] = [status |-> "started", from |-> FromVersion, to |-> t]
      /\ \A o \in OpIds \ {op} : rotations'[o] = rotations[o]
  BY <1>1, <1>2 DEF KeyTypeOK, RotationStatuses, Versions, t
<1>8. Started' = {op}
  BY <1>3, <1>7 DEF Started
<1>9. /\ Present' = Present \union {t}
      /\ Active' = Active
      /\ Usable' = Usable
      /\ Pending' = {t}
  BY <1>1, <1>3, <1>4, <1>5 DEF Present, Active, Usable, UsableStatuses, Pending
<1>10. TableInv'
  <2>1. Present' = 1..t /\ t \in 0..MaxKeyVersion
    BY <1>1, <1>9 DEF Versions
  <2>2. \A u \in Present' : u <= t
    BY <2>1 DEF Versions
  <2> QED
    BY <1>1, <1>2, <1>7, <1>8, <1>9, <2>1, <2>2 DEF TableInv, CanRotate
<1>11. AddPendingKey
  <2>1. \A u \in Present : u < t /\ keyStatus[u] # "pending"
    BY <1>1, <1>3 DEF Pending, Present
  <2>2. op \in Keys
    OBVIOUS
  <2> QED
    BY <1>1, <2>1, <2>2, Zenon DEF AddPendingKey, CanRotate, t
<1> QED
  BY <1>5, <1>6, <1>7, <1>10, <1>11

\* What the ActivateRotation transaction does to the rows: the started
\* operation is the only one, so no version stays pending.
LEMMA Activation ==
    ASSUME KeyTypeOK, TableInv, NEW op \in OpIds,
           CanActivate(rotations[op]),
           keyStatus' = PromoteAndDemote(rotations[op]),
           rotations' = [rotations EXCEPT ![op].status = "activated"],
           UNCHANGED keyMaterial
    PROVE  /\ PromoteKey
           /\ TableInv'
           /\ keyStatus' \in [Versions -> KeyStatuses]
           /\ rotations' \in [OpIds -> [status : RotationStatuses,
                                        from : 0..MaxKeyVersion, to : 0..MaxKeyVersion]]
<1> DEFINE f == rotations[op].from
           t == rotations[op].to
<1>1. op \in Started
  BY DEF Started, CanActivate
<1>2. f \in Active /\ t \in Pending /\ Started = {op}
  BY <1>1 DEF TableInv
<1>3. f \in Versions /\ t \in Versions /\ keyStatus[f] = "active" /\ keyStatus[t] = "pending"
  BY <1>2 DEF Active, Pending
<1>4. Active = {f}
  BY <1>2, ActiveIsUnique
<1>5. Pending = {t}
  <2>1. \A v \in Pending : v <= t /\ t <= v
    BY <1>2 DEF TableInv, Pending, Present
  <2> QED
    BY <1>2, <2>1 DEF Pending, Versions
<1>6. /\ keyStatus' \in [Versions -> KeyStatuses]
      /\ \A v \in Versions : keyStatus'[v] = IF v = t THEN "active"
                                             ELSE IF v = f THEN "decrypt-only" ELSE keyStatus[v]
  BY <1>3 DEF PromoteAndDemote, KeyTypeOK, KeyStatuses
<1>7. /\ rotations' \in [OpIds -> [status : RotationStatuses,
                                   from : 0..MaxKeyVersion, to : 0..MaxKeyVersion]]
      /\ rotations'[op].status = "activated"
      /\ \A o \in OpIds \ {op} : rotations'[o] = rotations[o]
  BY DEF KeyTypeOK, RotationStatuses
<1>8. Started' = {}
  BY <1>2, <1>7 DEF Started
<1>9. /\ Present' = Present
      /\ Active' = {t}
      /\ Usable' \subseteq Present
      /\ Pending' = {}
  BY <1>3, <1>4, <1>5, <1>6 DEF Present, Active, Usable, UsableStatuses, Pending
<1>10. \A u \in Present : u <= t
  BY <1>2 DEF TableInv
<1>11. TableInv'
  BY <1>8, <1>9, <1>10 DEF TableInv
<1>12. PromoteKey
  BY <1>2, <1>3, Zenon DEF PromoteKey, PromoteAndDemote
<1> QED
  BY <1>6, <1>7, <1>11, <1>12

\* Every step of the commands, the broker and OpenBao moves the key table as
\* KeyLifecycle allows and keeps the two tables consistent.
LEMMA TableStep ==
    ASSUME KeyInv, [KeyNext]_keyVars
    PROVE  /\ TableInv'
           /\ [LifecycleNext]_lifecycleVars
           /\ keyStatus' \in [Versions -> KeyStatuses]
           /\ keyMaterial' \in [Versions -> Materials]
           /\ rotations' \in [OpIds -> [status : RotationStatuses,
                                        from : 0..MaxKeyVersion, to : 0..MaxKeyVersion]]
<1> DEFINE Goal == /\ TableInv'
                   /\ [LifecycleNext]_lifecycleVars
                   /\ keyStatus' \in [Versions -> KeyStatuses]
                   /\ keyMaterial' \in [Versions -> Materials]
                   /\ rotations' \in [OpIds -> [status : RotationStatuses,
                                         from : 0..MaxKeyVersion, to : 0..MaxKeyVersion]]
<1>0. KeyTypeOK /\ TableInv /\ CommandInv
  BY DEF KeyInv
<1>1. ASSUME UNCHANGED <<keyStatus, keyMaterial, rotations>> PROVE Goal
  <2>1. TableInv'
    BY <1>0, <1>1 DEF TableInv, Present, Active, Usable, Pending, Started
  <2> QED
    BY <1>0, <1>1, <2>1 DEF KeyTypeOK, lifecycleVars
<1>2. CASE BootstrapKeyring
  <2>1. "init" \in Keys
    OBVIOUS
  <2> QED
    BY <1>0, <1>2, <2>1, FirstKey, Zenon DEF BootstrapKeyring, LifecycleNext, KeyTypeOK
<1>3. CASE BrokerStart
  <2>1. CASE 1 \in Present \/ Active # {}
    BY <1>1, <1>3, <2>1 DEF BrokerStart, ConfigureDevelopment
  <2>2. CASE ~(1 \in Present \/ Active # {})
    <3>1. Present = {} /\ "dev" \in Keys
      BY <1>0, <2>2 DEF TableInv
    <3>2. /\ keyStatus' = [keyStatus EXCEPT ![1] = "active"]
          /\ keyMaterial' = [keyMaterial EXCEPT ![1] = "dev"]
          /\ UNCHANGED rotations
      BY <1>3, <2>2 DEF BrokerStart, ConfigureDevelopment
    <3> QED
      BY <1>0, <3>1, <3>2, FirstKey, Zenon DEF LifecycleNext, KeyTypeOK
  <2> QED
    BY <2>1, <2>2
<1>4. ASSUME NEW p \in Operators, StartRotation(p) PROVE Goal
  <2>1. CASE UNCHANGED dbVars
    BY <1>1, <2>1 DEF dbVars
  <2>2. CASE ~UNCHANGED dbVars
    <3>1. /\ NoStartedRotation /\ CanRotate /\ cli[p].pc = "start"
          /\ keyStatus' = [keyStatus EXCEPT ![ToVersion] = "pending"]
          /\ keyMaterial' = [keyMaterial EXCEPT ![ToVersion] = cli[p].op]
          /\ rotations' = [rotations EXCEPT ![cli[p].op] =
                              [status |-> "started", from |-> FromVersion, to |-> ToVersion]]
      BY <1>4, <2>2 DEF StartRotation, At
    <3>2. cli[p].op \in OpIds
      BY <1>0, <3>1 DEF CommandInv
    <3> QED
      BY <1>0, <3>1, <3>2, NewRotation, Zenon DEF LifecycleNext
  <2> QED
    BY <2>1, <2>2
<1>5. ASSUME NEW p \in Operators, ActivateRotation(p) PROVE Goal
  <2>1. PICK op \in known :
          \/ UNCHANGED <<keyStatus, rotations>>
          \/ /\ CanActivate(rotations[op])
             /\ keyStatus' = PromoteAndDemote(rotations[op])
             /\ rotations' = [rotations EXCEPT ![op].status = "activated"]
    BY <1>5 DEF ActivateRotation
  <2>2. op \in OpIds /\ UNCHANGED keyMaterial
    BY <1>0, <1>5 DEF KeyTypeOK, ActivateRotation
  <2> QED
    BY <1>0, <1>1, <2>1, <2>2, Activation DEF LifecycleNext, KeyTypeOK
<1>6. CASE UNCHANGED keyVars
  BY <1>1, <1>6 DEF keyVars, dbVars
<1>7. CASE OpenBaoSeals
  BY <1>1, <1>7 DEF OpenBaoSeals, dbVars
<1>8. ASSUME NEW p \in Operators,
             NextRotationKeyRef(p) \/ RootCheck(p) \/ RestartCheck(p) \/ CommandFails(p)
      PROVE  Goal
  BY <1>1, <1>8 DEF NextRotationKeyRef, RootCheck, RestartCheck, CommandFails, dbVars
<1>9. ASSUME NEW p \in Operators, RotateStep(p), ~StartRotation(p) PROVE Goal
  BY <1>1, <1>9 DEF RotateStep, StartAudit, ActivateAudit, RootAudit, RootCall, RootOutcome,
                    RootRecord, RestartList, RestartCall, RestartRecord, RestartAudit, dbVars
<1> QED
  BY <1>2, <1>3, <1>4, <1>5, <1>6, <1>7, <1>8, <1>9 DEF KeyNext, RotateCommand

\* Every step keeps a value the code can produce in every column and command.
LEMMA TypeStep ==
    ASSUME KeyInv, [KeyNext]_keyVars
    PROVE  KeyTypeOK'
<1> DEFINE Cli == [pc : CliPcs, op : OpIds \union {"none"}, ref : 0..MaxKeyVersion, refused : BOOLEAN]
           Rest == /\ verified' \subseteq OpIds \X VerificationNames
                   /\ auditLog' \subseteq OpIds \X AuditReasons
                   /\ stored' \in [version : 0..MaxKeyVersion, material : Materials]
                   /\ known' \subseteq OpIds
                   /\ cli' \in [Operators -> Cli]
<1>0. KeyTypeOK /\ TableInv /\ CommandInv
  BY DEF KeyInv
<1>a. ASSUME WrapNow PROVE stored' \in [version : 0..MaxKeyVersion, material : Materials]
  BY <1>0, <1>a DEF WrapNow, Active, Versions, KeyTypeOK
<1>b. Idle \in Cli
  BY DEF Idle, CliPcs
<1>c. ASSUME NEW p \in Operators, Exit(p) PROVE cli' \in [Operators -> Cli]
  BY <1>0, <1>b, <1>c DEF Exit, KeyTypeOK
<1>d. ASSUME NEW p \in Operators, NEW pc \in CliPcs, Goto(p, pc) PROVE cli' \in [Operators -> Cli]
  BY <1>0, <1>d DEF Goto, KeyTypeOK
<1>e. \A p \in Operators : cli[p].pc # "idle" => cli[p].op \in OpIds
  BY <1>0 DEF CommandInv
<1>1. ASSUME BootstrapKeyring \/ BrokerStart \/ OpenBaoSeals \/ UNCHANGED keyVars PROVE Rest
  BY <1>0, <1>1, <1>a DEF BootstrapKeyring, BrokerStart, OpenBaoSeals, keyVars, dbVars, KeyTypeOK
<1>2. ASSUME NEW p \in Operators, NextRotationKeyRef(p) PROVE Rest
  <2>1. ToVersion \in 0..MaxKeyVersion
    BY <1>0, <1>2, NextVersionIsNew DEF NextRotationKeyRef, Versions
  <2> QED
    BY <1>0, <1>2, <2>1 DEF NextRotationKeyRef, dbVars, KeyTypeOK, CliPcs
<1>3. ASSUME NEW p \in Operators, ActivateRotation(p) \/ RootCheck(p) \/ RestartCheck(p) PROVE Rest
  <2>1. \A op \in OpIds, pc \in CliPcs : Running(pc, op) \in Cli
    BY DEF Running
  <2>2. \A op \in OpIds : Refused(op) \in Cli
    BY DEF Refused, CliPcs
  <2>3. known \subseteq OpIds /\ {"activateAudit", "rootAudit", "restartList"} \subseteq CliPcs
    BY <1>0 DEF KeyTypeOK, CliPcs
  <2>4. cli' \in [Operators -> Cli]
    BY <1>0, <1>3, <2>1, <2>2, <2>3 DEF ActivateRotation, RootCheck, RestartCheck, KeyTypeOK
  <2> QED
    BY <1>0, <1>3, <2>4 DEF ActivateRotation, RootCheck, RestartCheck, dbVars, KeyTypeOK
<1>4. ASSUME NEW p \in Operators, StartRotation(p) PROVE Rest
  BY <1>0, <1>4, <1>c, <1>d DEF StartRotation, dbVars, KeyTypeOK, CliPcs, Started
<1>5. ASSUME NEW p \in Operators, StartAudit(p) \/ ActivateAudit(p) PROVE Rest
  BY <1>0, <1>5, <1>c, <1>d, <1>e DEF StartAudit, ActivateAudit, At, dbVars, KeyTypeOK, AuditReasons
<1>6. ASSUME NEW p \in Operators, RootAudit(p) \/ RootCall(p) PROVE Rest
  BY <1>0, <1>6, <1>a, <1>d, <1>e DEF RootAudit, RootCall, At, dbVars, KeyTypeOK, CliPcs, AuditReasons
<1>7. ASSUME NEW p \in Operators, RootOutcome(p) \/ RootRecord(p) PROVE Rest
  BY <1>0, <1>7, <1>c, <1>d, <1>e
     DEF RootOutcome, RootRecord, RecordRotationVerification, At, dbVars, KeyTypeOK, CliPcs,
         AuditReasons, VerificationNames
<1>8. ASSUME NEW p \in Operators, RestartList(p) \/ RestartCall(p) PROVE Rest
  BY <1>0, <1>8, <1>c, <1>d, <1>e DEF RestartList, RestartCall, At, dbVars, KeyTypeOK, CliPcs, AuditReasons
<1>9. ASSUME NEW p \in Operators, RestartRecord(p) \/ RestartAudit(p) PROVE Rest
  BY <1>0, <1>9, <1>c, <1>d, <1>e
     DEF RestartRecord, RestartAudit, RecordRotationVerification, At, dbVars, KeyTypeOK, CliPcs,
         AuditReasons, VerificationNames
<1>10. ASSUME NEW p \in Operators, CommandFails(p) PROVE Rest
  BY <1>0, <1>10, <1>c DEF CommandFails, dbVars, KeyTypeOK
<1>11. Rest
  BY <1>1, <1>2, <1>3, <1>4, <1>5, <1>6, <1>7, <1>8, <1>9, <1>10 DEF KeyNext, RotateCommand, RotateStep
<1> QED
  BY <1>11, TableStep DEF KeyTypeOK

\* A command that moves on, or ends, without creating an operation.
LEMMA CommandMoves ==
    ASSUME KeyTypeOK, CommandInv, NEW p \in Operators,
           cli' \in [Operators -> [pc : CliPcs, op : OpIds \union {"none"},
                                   ref : 0..MaxKeyVersion, refused : BOOLEAN]],
           \A q \in Operators : q # p => cli'[q] = cli[q],
           \A op \in OpIds : rotations'[op].status = "absent" <=> rotations[op].status = "absent",
           known' \subseteq {op \in OpIds : rotations[op].status # "absent"},
           \/ cli'[p] = Idle
           \/ /\ cli'[p].pc # "start"
              /\ cli'[p].op \in OpIds
              /\ rotations[cli'[p].op].status # "absent"
    PROVE  CommandInv'
<1>1. "none" \notin OpIds
  BY DEF Keys
<1>2. cli'[p].pc # "start" /\ (cli'[p].pc # "idle" => cli'[p].op \in OpIds)
  BY DEF Idle
<1>3. \A q \in Operators : cli'[q].pc # "idle" =>
          /\ cli'[q].op \in OpIds
          /\ cli'[q].pc = "start" <=> rotations'[cli'[q].op].status = "absent"
  BY <1>2 DEF CommandInv, Idle
<1>4. ASSUME NEW q \in Operators, NEW o \in Operators, cli'[q].pc = "start", cli'[o].op = cli'[q].op
      PROVE  o = q
  <2>1. q # p /\ cli'[q] = cli[q] /\ cli[q].op \in OpIds /\ rotations[cli[q].op].status = "absent"
    BY <1>2, <1>4 DEF CommandInv
  <2>2. o # p
    BY <1>1, <1>4, <2>1 DEF Idle
  <2> QED
    BY <1>4, <2>1, <2>2 DEF CommandInv
<1> QED
  BY <1>3, <1>4 DEF CommandInv

\* Commands keep working for operations that exist, except the one command
\* that is about to create its own.
LEMMA CommandStep ==
    ASSUME KeyInv, [KeyNext]_keyVars
    PROVE  CommandInv'
<1>0. KeyTypeOK /\ TableInv /\ CommandInv /\ KeyTypeOK'
  BY TypeStep DEF KeyInv
<1> DEFINE Existing == {op \in OpIds : rotations[op].status # "absent"}
<1>a. known \subseteq Existing /\ Started \subseteq Existing
  BY <1>0 DEF CommandInv, KeyTypeOK, Started
<1>b. ASSUME NEW p \in Operators, Exit(p), UNCHANGED rotations, known' \subseteq Existing PROVE CommandInv'
  <2>1. cli'[p] = Idle /\ \A q \in Operators : q # p => cli'[q] = cli[q]
    BY <1>0, <1>b DEF Exit, KeyTypeOK
  <2> QED
    BY <1>0, <1>b, <2>1, CommandMoves DEF KeyTypeOK
<1>c. ASSUME NEW p \in Operators, cli[p].pc \notin {"idle", "start"}, UNCHANGED <<rotations, known>>,
             NEW pc \in CliPcs \ {"start"}, Goto(p, pc)
      PROVE  CommandInv'
  <2>1. /\ cli'[p].pc = pc /\ cli'[p].op = cli[p].op
        /\ \A q \in Operators : q # p => cli'[q] = cli[q]
    BY <1>0, <1>c DEF Goto, KeyTypeOK
  <2>2. cli[p].op \in Existing
    BY <1>0, <1>c DEF CommandInv
  <2> QED
    BY <1>0, <1>a, <1>c, <2>1, <2>2, CommandMoves DEF KeyTypeOK
<1>1. CASE BootstrapKeyring \/ BrokerStart \/ OpenBaoSeals \/ UNCHANGED keyVars
  BY <1>0, <1>1 DEF BootstrapKeyring, BrokerStart, OpenBaoSeals, keyVars, dbVars, CommandInv
<1>2. ASSUME NEW p \in Operators, NextRotationKeyRef(p) PROVE CommandInv'
  BY <1>0, <1>2 DEF NextRotationKeyRef, FreshOp, dbVars, KeyTypeOK, CommandInv
<1>3. ASSUME NEW p \in Operators, ActivateRotation(p) \/ RootCheck(p) \/ RestartCheck(p)
      PROVE  CommandInv'
  <2>1. /\ \A op \in OpIds : rotations'[op].status = "absent" <=> rotations[op].status = "absent"
        /\ UNCHANGED known
    BY <1>0, <1>3 DEF ActivateRotation, CanActivate, RootCheck, RestartCheck, dbVars, KeyTypeOK
  <2>2. \E op \in known :
          \E c \in {Refused(op), Running("activateAudit", op), Running("rootAudit", op),
                   Running("restartList", op)} : cli' = [cli EXCEPT ![p] = c]
    BY <1>3 DEF ActivateRotation, RootCheck, RestartCheck
  <2>3. /\ \A q \in Operators : q # p => cli'[q] = cli[q]
        /\ cli'[p].pc # "start" /\ cli'[p].op \in known
    BY <1>0, <2>2 DEF KeyTypeOK, Refused, Running
  <2> QED
    BY <1>0, <1>a, <2>1, <2>3, CommandMoves, Zenon DEF KeyTypeOK
<1>4. ASSUME NEW p \in Operators, StartRotation(p) PROVE CommandInv'
  <2>1. CASE Exit(p) /\ UNCHANGED dbVars
    BY <1>4, <1>a, <1>b, <2>1 DEF StartRotation, dbVars
  <2>2. CASE ~(Exit(p) /\ UNCHANGED dbVars)
    <3>1. /\ Goto(p, "startAudit") /\ UNCHANGED known /\ cli[p].pc = "start"
          /\ rotations' = [rotations EXCEPT ![cli[p].op] =
                             [status |-> "started", from |-> FromVersion, to |-> ToVersion]]
      BY <1>4, <2>2 DEF StartRotation, At, dbVars
    <3>2. /\ cli[p].op \in OpIds /\ rotations'[cli[p].op].status = "started"
          /\ \A o \in OpIds : o # cli[p].op => rotations'[o] = rotations[o]
      BY <1>0, <3>1 DEF KeyTypeOK, CommandInv
    <3>3. /\ cli'[p].pc = "startAudit" /\ cli'[p].op = cli[p].op
          /\ \A q \in Operators : q # p => cli'[q] = cli[q]
      BY <1>0, <3>1 DEF Goto, KeyTypeOK
    <3>4. \A q \in Operators : cli[q].op = cli[p].op => q = p
      BY <1>0, <3>1 DEF CommandInv
    <3>5. \A q \in Operators : cli'[q].pc # "idle" =>
             /\ cli'[q].op \in OpIds
             /\ cli'[q].pc = "start" <=> rotations'[cli'[q].op].status = "absent"
      BY <1>0, <3>2, <3>3, <3>4 DEF CommandInv
    <3>6. \A q, o \in Operators : cli'[q].pc = "start" /\ cli'[o].op = cli'[q].op => o = q
      BY <1>0, <3>3 DEF CommandInv
    <3>7. \A op \in known' : rotations'[op].status # "absent"
      BY <1>0, <3>1, <3>2 DEF CommandInv, KeyTypeOK
    <3> QED
      BY <3>5, <3>6, <3>7 DEF CommandInv
  <2> QED
    BY <2>1, <2>2
<1>5. ASSUME NEW p \in Operators, StartAudit(p) PROVE CommandInv'
  <2>1. cli[p].op \in Existing
    BY <1>0, <1>5 DEF StartAudit, At, CommandInv
  <2> QED
    BY <1>5, <1>a, <1>b, <2>1 DEF StartAudit, dbVars
<1>6. ASSUME NEW p \in Operators,
             (RotateStep(p) /\ ~StartRotation(p) /\ ~StartAudit(p)) \/ CommandFails(p)
      PROVE  CommandInv'
  <2>1. UNCHANGED <<rotations, known>>
    BY <1>6 DEF RotateStep, CommandFails, ActivateAudit, RootAudit, RootCall, RootOutcome,
                RootRecord, RestartList, RestartCall, RestartRecord, RestartAudit, dbVars
  <2> QED
    BY <1>6, <1>a, <1>b, <1>c, <2>1
       DEF RotateStep, CommandFails, ActivateAudit, RootAudit, RootCall, RootOutcome,
           RootRecord, RestartList, RestartCall, RestartRecord, RestartAudit, At, CliPcs
<1> QED
  BY <1>1, <1>2, <1>3, <1>4, <1>5, <1>6 DEF KeyNext, RotateCommand, RotateStep

\* A version that can decrypt can always decrypt, with the same key.
LEMMA UsableStays ==
    ASSUME KeyInv, [LifecycleNext]_lifecycleVars
    PROVE  \A v \in Usable : v \in Usable' /\ keyMaterial'[v] = keyMaterial[v]
<1>0. keyStatus \in [Versions -> KeyStatuses] /\ keyMaterial \in [Versions -> Materials]
  BY DEF KeyInv, KeyTypeOK
<1>1. CASE UNCHANGED lifecycleVars
  BY <1>1 DEF lifecycleVars, Usable
<1>2. CASE CreateKey
  BY <1>0, <1>2 DEF CreateKey, Usable, UsableStatuses, Present
<1>3. CASE AddPendingKey
  BY <1>0, <1>3 DEF AddPendingKey, Usable, UsableStatuses, Present
<1>4. CASE PromoteKey
  BY <1>0, <1>4 DEF PromoteKey, Active, Usable, UsableStatuses
<1> QED
  BY <1>1, <1>2, <1>3, <1>4 DEF LifecycleNext

\* What no step undoes: an activated operation, an audit event, a recorded
\* verification, and the age of the version that wraps OpenBao's stored key.
LEMMA NothingIsUndone ==
    ASSUME KeyInv, StoredInv, [KeyNext]_keyVars
    PROVE  /\ \A op \in OpIds : rotations[op].status = "activated" =>
                 rotations'[op].status = "activated" /\ rotations'[op].to = rotations[op].to
           /\ auditLog \subseteq auditLog'
           /\ verified \subseteq verified'
           /\ stored'.version >= stored.version
<1>0. KeyTypeOK /\ TableInv /\ CommandInv
  BY DEF KeyInv
<1>a. ASSUME WrapNow PROVE stored'.version >= stored.version
  <2>1. PICK v \in Active : stored' = [version |-> v, material |-> keyMaterial[v]]
    BY <1>a DEF WrapNow
  <2>2. stored.version <= v
    BY <1>0 DEF StoredInv, NoBlob, TableInv, Active, Versions
  <2> QED
    BY <1>0, <2>1, <2>2 DEF Active, Versions, KeyTypeOK
<1>b. stored.version >= stored.version
  BY <1>0 DEF KeyTypeOK
<1>1. CASE BootstrapKeyring \/ BrokerStart \/ OpenBaoSeals \/ UNCHANGED keyVars
  BY <1>1, <1>a, <1>b DEF BootstrapKeyring, BrokerStart, OpenBaoSeals, keyVars, dbVars
<1>2. ASSUME NEW p \in Operators, ActivateRotation(p)
      PROVE  /\ \A op \in OpIds : rotations[op].status = "activated" =>
                   rotations'[op].status = "activated" /\ rotations'[op].to = rotations[op].to
             /\ UNCHANGED <<auditLog, verified, stored>>
  BY <1>0, <1>2 DEF ActivateRotation, CanActivate, KeyTypeOK
<1>3. ASSUME NEW p \in Operators, StartRotation(p)
      PROVE  /\ \A op \in OpIds : rotations[op].status = "activated" => rotations'[op] = rotations[op]
             /\ UNCHANGED <<auditLog, verified, stored>>
  <2>1. rotations[cli[p].op].status = "absent"
    BY <1>0, <1>3 DEF StartRotation, At, CommandInv
  <2> QED
    BY <1>0, <1>3, <2>1 DEF StartRotation, dbVars, KeyTypeOK
<1>4. ASSUME NEW p \in Operators,
             NextRotationKeyRef(p) \/ RootCheck(p) \/ RestartCheck(p) \/ CommandFails(p)
      PROVE  UNCHANGED <<rotations, auditLog, verified, stored>>
  BY <1>4 DEF NextRotationKeyRef, RootCheck, RestartCheck, CommandFails, dbVars
<1>5. ASSUME NEW p \in Operators, RotateStep(p), ~StartRotation(p)
      PROVE  /\ UNCHANGED rotations
             /\ auditLog \subseteq auditLog'
             /\ verified \subseteq verified'
             /\ stored'.version >= stored.version
  BY <1>5, <1>a, <1>b
     DEF RotateStep, StartAudit, ActivateAudit, RootAudit, RootCall, RootOutcome, RootRecord,
         RestartList, RestartCall, RestartRecord, RestartAudit, RecordRotationVerification, dbVars
<1> QED
  BY <1>1, <1>2, <1>3, <1>4, <1>5, <1>b DEF KeyNext, RotateCommand

\* A blob is stored only under the active version, and no step makes the
\* version of the stored blob unusable.
LEMMA StoredStep ==
    ASSUME KeyInv, StoredInv, [KeyNext]_keyVars
    PROVE  StoredInv'
<1>1. \A v \in Usable : v \in Usable' /\ keyMaterial'[v] = keyMaterial[v]
  BY TableStep, UsableStays
<1>2. CASE UNCHANGED stored
  BY <1>1, <1>2 DEF StoredInv, NoBlob
<1>3. CASE WrapNow
  BY <1>1, <1>3 DEF WrapNow, StoredInv, Active, Usable, UsableStatuses
<1> QED
  BY <1>2, <1>3
     DEF KeyNext, RotateCommand, RotateStep, BootstrapKeyring, BrokerStart, OpenBaoSeals, keyVars,
         NextRotationKeyRef, ActivateRotation, RootCheck, RestartCheck, CommandFails, StartRotation,
         StartAudit, ActivateAudit, RootAudit, RootCall, RootOutcome, RootRecord, RestartList,
         RestartCall, RestartRecord, RestartAudit

\* An operation becomes activated in the transaction that makes its version
\* active.
LEMMA ActivatedStep ==
    ASSUME KeyInv, ActivatedInv, StoredInv, [KeyNext]_keyVars
    PROVE  ActivatedInv'
<1>0. KeyTypeOK /\ TableInv /\ CommandInv
  BY DEF KeyInv
<1>1. \A v \in Usable : v \in Usable'
  BY TableStep, UsableStays
<1>2. \A op \in OpIds : rotations[op].status = "activated" =>
         rotations'[op].status = "activated" /\ rotations'[op].to = rotations[op].to
  BY NothingIsUndone
<1>3. ASSUME \A op \in OpIds : rotations'[op].status = "activated" => rotations[op].status = "activated"
      PROVE  ActivatedInv'
  BY <1>1, <1>2, <1>3 DEF ActivatedInv
<1>4. ASSUME NEW p \in Operators, ActivateRotation(p) PROVE ActivatedInv'
  <2>1. PICK op \in known :
          \/ UNCHANGED <<keyStatus, rotations>>
          \/ /\ CanActivate(rotations[op])
             /\ keyStatus' = PromoteAndDemote(rotations[op])
             /\ rotations' = [rotations EXCEPT ![op].status = "activated"]
    BY <1>4 DEF ActivateRotation
  <2>2. CASE UNCHANGED rotations
    BY <1>3, <2>2
  <2>3. CASE /\ CanActivate(rotations[op])
             /\ keyStatus' = PromoteAndDemote(rotations[op])
             /\ rotations' = [rotations EXCEPT ![op].status = "activated"]
    <3>1. op \in OpIds /\ op \in Started
      BY <1>0, <2>3 DEF KeyTypeOK, CanActivate, Started
    <3>2. rotations[op].to \in Versions
      BY <1>0, <3>1 DEF TableInv, Pending
    <3>3. rotations[op].to \in Usable'
      BY <1>0, <2>3, <3>2 DEF PromoteAndDemote, Usable, UsableStatuses, KeyTypeOK
    <3>4. /\ rotations'[op].to = rotations[op].to
          /\ \A o \in OpIds : o # op => rotations'[o] = rotations[o]
      BY <1>0, <2>3, <3>1 DEF KeyTypeOK
    <3> QED
      BY <1>1, <3>3, <3>4 DEF ActivatedInv
  <2> QED
    BY <2>1, <2>2, <2>3
<1>5. ASSUME NEW p \in Operators, StartRotation(p) PROVE ActivatedInv'
  <2>1. cli[p].op \in OpIds
    BY <1>0, <1>5 DEF StartRotation, At, CommandInv
  <2>2. \A op \in OpIds : rotations'[op].status = "activated" => rotations[op].status = "activated"
    BY <1>0, <1>5, <2>1 DEF StartRotation, dbVars, KeyTypeOK
  <2> QED
    BY <1>3, <2>2
<1>6. CASE UNCHANGED rotations
  BY <1>3, <1>6
<1> QED
  BY <1>4, <1>5, <1>6
, Zenon     DEF KeyNext, RotateCommand, RotateStep, BootstrapKeyring, BrokerStart, OpenBaoSeals, keyVars, dbVars,
         NextRotationKeyRef, RootCheck, RestartCheck, CommandFails,
         StartAudit, ActivateAudit, RootAudit, RootCall, RootOutcome, RootRecord, RestartList,
         RestartCall, RestartRecord, RestartAudit

\* Recorded verifications keep their meaning, and new ones are recorded by
\* commands whose progress justifies them.
LEMMA VerificationStep ==
    ASSUME KeyInv, VerifyInv, [KeyNext]_keyVars
    PROVE  (VerificationsInOrder /\ RootVerificationMeansRewritten)'
<1>0. KeyTypeOK /\ CommandInv /\ KeyTypeOK'
  BY TypeStep DEF KeyInv
<1>1. /\ \A op \in OpIds : rotations[op].status = "activated" =>
              rotations'[op].status = "activated" /\ rotations'[op].to = rotations[op].to
      /\ auditLog \subseteq auditLog'
      /\ verified \subseteq verified'
      /\ stored'.version >= stored.version
  BY NothingIsUndone DEF VerifyInv
<1>2. \A op \in OpIds : rotations[op].status = "activated" /\ stored.version >= rotations[op].to
                          => stored'.version >= rotations'[op].to
  BY <1>0, <1>1 DEF KeyTypeOK
<1>3. CASE UNCHANGED verified
  BY <1>1, <1>2, <1>3, Zenon DEF VerifyInv, VerificationsInOrder, RootVerificationMeansRewritten
<1>4. ASSUME NEW p \in Operators, RootRecord(p)
      PROVE  (VerificationsInOrder /\ RootVerificationMeansRewritten)'
  <2>1. /\ cli[p].op \in OpIds /\ rotations[cli[p].op].status = "activated"
        /\ {<<cli[p].op, "root-requested">>, <<cli[p].op, "root-completed">>} \subseteq auditLog
        /\ stored.version >= rotations[cli[p].op].to
    BY <1>0, <1>4, Zenon DEF RootRecord, At, CommandInv, VerifyInv, ProgressInv, Progress
  <2>2. verified' = verified \union {<<cli[p].op, "openbao-root">>}
    BY <1>4 DEF RootRecord, RecordRotationVerification
  <2> QED
    BY <1>1, <1>2, <2>1, <2>2, Zenon DEF VerifyInv, VerificationsInOrder, RootVerificationMeansRewritten
<1>5. ASSUME NEW p \in Operators, RestartRecord(p)
      PROVE  (VerificationsInOrder /\ RootVerificationMeansRewritten)'
  <2>1. cli[p].op \in OpIds /\ <<cli[p].op, "openbao-root">> \in verified
    BY <1>0, <1>5, Zenon DEF RestartRecord, At, CommandInv, VerifyInv, ProgressInv, Progress
  <2>2. verified' = verified \union {<<cli[p].op, "restart">>}
    BY <1>5 DEF RestartRecord, RecordRotationVerification
  <2> QED
    BY <1>1, <1>2, <2>1, <2>2, Zenon DEF VerifyInv, VerificationsInOrder, RootVerificationMeansRewritten
<1> QED
  BY <1>3, <1>4, <1>5
     DEF KeyNext, RotateCommand, RotateStep, BootstrapKeyring, BrokerStart, OpenBaoSeals, keyVars, dbVars,
         NextRotationKeyRef, ActivateRotation, RootCheck, RestartCheck, CommandFails, StartRotation,
         StartAudit, ActivateAudit, RootAudit, RootCall, RootOutcome, RestartList, RestartCall,
         RestartAudit

\* Each statement of a command establishes what the next one relies on, and
\* the steps of other processes do not take it away.
LEMMA ProgressStep ==
    ASSUME KeyInv, VerifyInv, [KeyNext]_keyVars
    PROVE  ProgressInv'
<1> DEFINE After(pc, op) ==
             /\ pc \notin {"idle", "start", "startAudit"} => rotations'[op].status = "activated"
             /\ pc \in {"rootCall", "rootDone", "rootRecord"} => <<op, "root-requested">> \in auditLog'
             /\ pc = "rootRecord" => <<op, "root-completed">> \in auditLog'
             /\ pc \in {"rootDone", "rootRecord"} => stored'.version >= rotations'[op].to
             /\ pc \in {"restartCall", "restartDone"} => <<op, "openbao-root">> \in verified'
           Goal == \A p \in Operators : After(cli'[p].pc, cli'[p].op)
<1> SUFFICES Goal
  BY DEF ProgressInv, Progress
<1>0. KeyTypeOK /\ TableInv /\ CommandInv /\ KeyTypeOK'
  BY TypeStep DEF KeyInv
<1>1. /\ \A op \in OpIds : rotations[op].status = "activated" =>
              rotations'[op].status = "activated" /\ rotations'[op].to = rotations[op].to
      /\ auditLog \subseteq auditLog'
      /\ verified \subseteq verified'
      /\ stored'.version >= stored.version
  BY NothingIsUndone DEF VerifyInv
<1>a. ASSUME NEW q \in Operators, cli'[q] = cli[q] PROVE After(cli[q].pc, cli[q].op)
  <2>1. CASE cli[q].pc \in {"idle", "start", "startAudit"}
    BY <1>a, <2>1 DEF Progress
  <2>2. CASE cli[q].pc \notin {"idle", "start", "startAudit"}
    <3>1. cli[q].op \in OpIds /\ Progress(cli[q].pc, cli[q].op)
      BY <1>0, <2>2 DEF CommandInv, VerifyInv, ProgressInv
    <3>2. rotations'[cli[q].op].status = "activated" /\ rotations'[cli[q].op].to = rotations[cli[q].op].to
      BY <1>1, <2>2, <3>1 DEF Progress
    <3>3. stored.version >= rotations[cli[q].op].to => stored'.version >= rotations'[cli[q].op].to
      BY <1>0, <1>1, <3>1, <3>2 DEF KeyTypeOK
    <3> QED
      BY <1>1, <1>a, <2>2, <3>1, <3>2, <3>3 DEF Progress
  <2> QED
    BY <2>1, <2>2
<1>b. ASSUME UNCHANGED cli PROVE Goal
  BY <1>a, <1>b
<1>c. ASSUME NEW p \in Operators, NEW c, cli' = [cli EXCEPT ![p] = c], After(c.pc, c.op)
      PROVE  Goal
  BY <1>0, <1>a, <1>c, Zenon DEF KeyTypeOK
<1>d. ASSUME NEW p \in Operators, Exit(p) PROVE Goal
  BY <1>c, <1>d, Zenon DEF Exit, Idle, Progress
<1>e. ASSUME NEW p \in Operators, NEW pc, Goto(p, pc), After(pc, cli[p].op) PROVE Goal
  <2>1. cli'[p].pc = pc /\ cli'[p].op = cli[p].op /\ \A q \in Operators : q # p => cli'[q] = cli[q]
    BY <1>0, <1>e DEF Goto, KeyTypeOK
  <2> QED
    BY <1>a, <1>e, <2>1
<1>2. CASE BootstrapKeyring \/ BrokerStart \/ OpenBaoSeals \/ UNCHANGED keyVars
  BY <1>2, <1>b DEF BootstrapKeyring, BrokerStart, OpenBaoSeals, keyVars
<1>3. ASSUME NEW p \in Operators, NextRotationKeyRef(p) PROVE Goal
  BY <1>3, <1>c, ZenonT(30) DEF NextRotationKeyRef, Progress
<1>4. ASSUME NEW p \in Operators, ActivateRotation(p) PROVE Goal
  <2>1. PICK op \in known :
          /\ \/ rotations[op].status = "activated" /\ UNCHANGED rotations
             \/ rotations' = [rotations EXCEPT ![op].status = "activated"]
          /\ cli' = [cli EXCEPT ![p] = Running("activateAudit", op)]
    BY <1>4, Zenon DEF ActivateRotation
  <2>2. op \in OpIds
    BY <1>0 DEF KeyTypeOK
  <2>3. rotations'[op].status = "activated"
    BY <1>0, <2>1, <2>2 DEF KeyTypeOK
  <2>4. After(Running("activateAudit", op).pc, Running("activateAudit", op).op)
    BY <2>3 DEF Running
  <2> QED
    BY <1>c, <2>1, <2>4, Zenon
<1>5. ASSUME NEW p \in Operators, RootCheck(p) \/ RestartCheck(p) PROVE Goal
  BY <1>5, <1>c DEF RootCheck, RestartCheck, RootAllowed, Running, Refused, dbVars, Progress
<1>6. ASSUME NEW p \in Operators, StartRotation(p) \/ StartAudit(p) \/ ActivateAudit(p) \/ CommandFails(p)
      PROVE  Goal
  BY <1>6, <1>d, <1>e, Zenon DEF StartRotation, StartAudit, ActivateAudit, CommandFails, Progress
<1>7. ASSUME NEW p \in Operators, cli[p].pc \notin {"idle", "start", "startAudit"}
      PROVE  cli[p].op \in OpIds /\ rotations[cli[p].op].status = "activated"
             /\ rotations'[cli[p].op].status = "activated"
  BY <1>0, <1>1, <1>7, Zenon DEF CommandInv, VerifyInv, ProgressInv, Progress
<1>8. ASSUME NEW p \in Operators, RootAudit(p) PROVE Goal
  BY <1>7, <1>8, <1>e DEF RootAudit, At, Progress
<1>9. ASSUME NEW p \in Operators, RootCall(p) PROVE Goal
  <2>1. /\ cli[p].op \in OpIds /\ rotations[cli[p].op].to \in Usable
        /\ <<cli[p].op, "root-requested">> \in auditLog /\ UNCHANGED <<rotations, auditLog>>
    BY <1>7, <1>9, Zenon DEF RootCall, At, dbVars, VerifyInv, ActivatedInv, ProgressInv, Progress
  <2>2. WrapNow => stored'.version >= rotations'[cli[p].op].to
    BY <1>0, <2>1 DEF WrapNow, TableInv, Active, Usable, Versions
  <2> QED
    BY <1>7, <1>9, <1>e, <2>1, <2>2 DEF RootCall, At, Progress
<1>10. ASSUME NEW p \in Operators, RootOutcome(p) PROVE Goal
  <2>1. CASE Exit(p)
    BY <1>d, <2>1
  <2>2. CASE ~Exit(p)
    <3>1. At(p, "rootDone") /\ Goto(p, "rootRecord") /\ UNCHANGED <<rotations, stored>>
          /\ auditLog' = auditLog \union {<<cli[p].op, "root-completed">>}
      BY <1>10, <2>2 DEF RootOutcome, dbVars
    <3>2. Progress("rootDone", cli[p].op)
      BY <3>1 DEF At, VerifyInv, ProgressInv
    <3>3. After("rootRecord", cli[p].op)
      BY <3>1, <3>2 DEF Progress
    <3> QED
      BY <1>e, <3>1, <3>3
  <2> QED
    BY <2>1, <2>2
<1>11. ASSUME NEW p \in Operators, RestartList(p) \/ RestartCall(p) \/ RestartRecord(p) PROVE Goal
  <2>1. cli[p].op \in OpIds /\ rotations'[cli[p].op].status = "activated"
    BY <1>7, <1>11 DEF RestartList, RestartCall, RestartRecord, At
  <2>2. At(p, "restartCall") => <<cli[p].op, "openbao-root">> \in verified
    BY Zenon DEF At, VerifyInv, ProgressInv, Progress
  <2> QED
    BY <1>1, <1>11, <1>d, <1>e, <2>1, <2>2
, Zenon       DEF RestartList, RestartAllowed, RestartCall, RestartRecord, dbVars, Progress
<1>12. ASSUME NEW p \in Operators, RootRecord(p) \/ RestartAudit(p) PROVE Goal
  BY <1>12, <1>d DEF RootRecord, RestartAudit
<1> QED
  BY <1>2, <1>3, <1>4, <1>5, <1>6, <1>8, <1>9, <1>10, <1>11, <1>12, ZenonT(30) DEF KeyNext, RotateCommand, RotateStep

--------------------------------------------------------------------------------
(* Theorems *)

\* The inductive invariant: KeyInv and, on top of it, VerifyInv.
THEOREM Invariance == KeySpec => [](KeyInv /\ VerifyInv)
<1>1. KeyInit => KeyInv /\ VerifyInv
  <2> SUFFICES ASSUME KeyInit PROVE KeyInv /\ VerifyInv
    OBVIOUS
  <2>1. ActivatedInv /\ StoredInv /\ VerificationsInOrder /\ RootVerificationMeansRewritten
    BY DEF KeyInit, NoRotation, NoBlob, ActivatedInv, StoredInv, VerificationsInOrder,
           RootVerificationMeansRewritten
  <2>2. ProgressInv
    BY DEF KeyInit, Idle, ProgressInv, Progress
  <2> QED
    BY <2>1, <2>2, InitKeyInv DEF VerifyInv
<1>2. KeyInv /\ VerifyInv /\ [KeyNext]_keyVars => (KeyInv /\ VerifyInv)'
  <2> SUFFICES ASSUME KeyInv, VerifyInv, [KeyNext]_keyVars PROVE (KeyInv /\ VerifyInv)'
    OBVIOUS
  <2>1. KeyInv'
    BY TableStep, TypeStep, CommandStep DEF KeyInv
  <2>2. VerifyInv'
    BY ActivatedStep, StoredStep, ProgressStep, VerificationStep DEF VerifyInv
  <2> QED
    BY <2>1, <2>2
<1> QED
  BY <1>1, <1>2, PTL DEF KeySpec

\* Columns and commands only take values the code can produce: no version
\* beyond the limit is ever written, whatever commands run side by side.
THEOREM TypeCorrect == KeySpec => []KeyTypeOK
<1>1. KeyInv /\ VerifyInv => KeyTypeOK
  BY DEF KeyInv
<1> QED
  BY <1>1, Invariance, PTL

\* LoadKeyring always finds exactly one active version, the newest usable one.
THEOREM KeyringLoads == KeySpec => []KeyringAlwaysLoads
<1>1. KeyInv /\ VerifyInv => KeyringAlwaysLoads
  BY ActiveIsUnique DEF KeyInv, TableInv, KeyringAlwaysLoads
<1> QED
  BY <1>1, Invariance, PTL

\* A started rotation stays activatable and stays the only one.
THEOREM RotationResumable == KeySpec => []StartedRotationCanActivate
<1>1. KeyInv /\ VerifyInv => StartedRotationCanActivate
  BY DEF KeyInv, TableInv, StartedRotationCanActivate, CanActivate, Started, Active, Pending
<1> QED
  BY <1>1, Invariance, PTL

\* OpenBao can unwrap what it stored, for ever.
THEOREM StoredKeyUnwrappable == KeySpec => []StoredKeyStaysUnwrappable
<1>1. KeyInv /\ VerifyInv => StoredKeyStaysUnwrappable
  BY DEF VerifyInv, StoredInv, StoredKeyStaysUnwrappable, Usable
<1> QED
  BY <1>1, Invariance, PTL

\* `rotate` records verifications in the order of its runbook, and the root
\* rotation only with both its events.
THEOREM VerificationsOrdered == KeySpec => []VerificationsInOrder
<1>1. KeyInv /\ VerifyInv => VerificationsInOrder
  BY DEF VerifyInv
<1> QED
  BY <1>1, Invariance, PTL

\* A recorded root rotation means that OpenBao's stored key was rewritten.
THEOREM RootVerificationTrue == KeySpec => []RootVerificationMeansRewritten
<1>1. KeyInv /\ VerifyInv => RootVerificationMeansRewritten
  BY DEF VerifyInv
<1> QED
  BY <1>1, Invariance, PTL

\* Every behaviour of the commands is a behaviour of the abstract key
\* lifecycle that the unseal service is checked against.
THEOREM LifecycleRefinement == KeySpec => ImplementsKeyLifecycle
<1>1. KeyInit => LifecycleInit
  BY DEF KeyInit
<1>2. KeyInv /\ VerifyInv /\ [KeyNext]_keyVars => [LifecycleNext]_lifecycleVars
  BY TableStep
<1> QED
  BY <1>1, <1>2, Invariance, PTL DEF KeySpec, LifecycleSpec, ImplementsKeyLifecycle
================================================================================
