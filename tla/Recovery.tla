-------------------------------- MODULE Recovery --------------------------------
(***************************************************************************)
(* Custody of the wrapping keys: `bao-unsealctl init` splits the first key  *)
(* into shares of a recovery package, and `recover begin`, `recover enroll` *)
(* and `recover finish` restore it into the database of a replacement       *)
(* broker.                                                                  *)
(*                                                                         *)
(* Commands are processes of several steps over several databases and       *)
(* files; any step can fail or be the last one before a kill, and databases *)
(* get lost.  Enough genuine shares yield the package's secret and anything  *)
(* else is refused.  Audit events change nothing that the commands read and  *)
(* are left out; an audit that fails ends its command as any failure does.   *)
(*                                                                         *)
(* A blob opens under the key that wrapped it and the policy_id that the     *)
(* version had: BuildKeyringAAD authenticates both.  The package carries the  *)
(* key alone; the policy_id is a flag of init and again of recover enroll.   *)
(***************************************************************************)
EXTENDS Naturals, Sequences

CONSTANTS
    Operators,      \* shells that run commands
    Sites,          \* broker databases (-state)
    Packages,       \* recovery package identifiers (randomID("rpkg"))
    Keys,           \* keys that keyring.GenerateKey yields
    PolicyIds,      \* -policy-id of init, recover enroll and rotate start
    SessionTTL,     \* -ttl of recover begin
    MaxVersions,    \* bound on the versions of a keyring
    MaxTime         \* bound on the clock

ASSUME RecoveryAssumption ==
    /\ SessionTTL \in Nat \ {0}
    /\ MaxVersions \in Nat \ {0}
    /\ MaxTime \in Nat
    /\ "none" \notin Sites \union Packages \union Keys \union PolicyIds

VARIABLES
    now,        \* the clock of the hosts
    keys,       \* key_versions of each database: key and policy_id of each version
    pending,    \* whether the newest version of a database is not active yet
    lineage,    \* recovery_packages of each database
    admitted,   \* databases in which recover enroll admitted its subject
    secret,     \* the key that each package was created for
    escrow,     \* what exists of each package: its metadata file, its shares
    session,    \* the session file of each package: its expiry, 0 without file
    stored,     \* OpenBao's stored seal blob
    opened,     \* history: packages whose shares opened a session
    restored,   \* history: <<package, database>> of each restored keyring
    cmd         \* the command each shell runs

dbVars == <<keys, pending, lineage, admitted>>
recoveryVars == <<now, dbVars, secret, escrow, session, stored, opened, restored, cmd>>

Row(m, q) == [key |-> m, policy |-> q]
NoBlob == [package |-> "none", version |-> 0, key |-> "none", policy |-> "none"]
Command(pc, s, k, m) == [pc |-> pc, site |-> s, package |-> k, key |-> m]
Idle == Command("idle", "none", "none", "none")

Pcs == {"idle", "initBootstrap", "initFile", "initPrint", "beginWrite",
        "recoverSecret", "recoverBootstrap", "recoverSubject"}

RecoveryInit ==
    /\ now = 0
    /\ keys = [s \in Sites |-> <<>>]
    /\ pending = [s \in Sites |-> FALSE]
    /\ lineage = [s \in Sites |-> "none"]
    /\ admitted = {}
    /\ secret = [k \in Packages |-> "none"]
    /\ escrow = [k \in Packages |-> {}]
    /\ session = [k \in Packages |-> 0]
    /\ stored = NoBlob
    /\ opened = {}
    /\ restored = {}
    /\ cmd = [p \in Operators |-> Idle]

At(p, pc) == cmd[p].pc = pc
Goto(p, pc) == cmd' = [cmd EXCEPT ![p].pc = pc]
Exit(p) == cmd' = [cmd EXCEPT ![p] = Idle]

\* A key or package identifier that nobody has generated before.
FreshKey(m) ==
    /\ \A s \in Sites : \A v \in DOMAIN keys[s] : keys[s][v].key # m
    /\ \A k \in Packages : secret[k] # m
    /\ stored.key # m
    /\ \A p \in Operators : cmd[p].key # m
FreshPackage(k) == secret[k] = "none" /\ \A p \in Operators : cmd[p].package # k

--------------------------------------------------------------------------------
(* init *)

\* A key is generated and split, in memory.
InitCreate(p) ==
    /\ At(p, "idle")
    /\ \E s \in Sites, k \in Packages, m \in Keys :
          /\ FreshPackage(k)
          /\ FreshKey(m)
          /\ cmd' = [cmd EXCEPT ![p] = Command("initBootstrap", s, k, m)]
    /\ UNCHANGED <<now, dbVars, secret, escrow, session, stored, opened, restored>>

\* Slip: INSERT OR REPLACE instead of INSERT.
BootstrapKeyringReplacing(s, k, row) ==
    /\ keys' = [keys EXCEPT ![s] = IF @ = <<>> THEN <<row>> ELSE [@ EXCEPT ![1] = row]]
    /\ lineage' = [lineage EXCEPT ![s] = IF @ = "none" THEN k ELSE @]

\* BootstrapKeyring: plain INSERTs into a database without the cluster.
BootstrapKeyring(s, k, row) ==
    /\ keys[s] = <<>>
    /\ keys' = [keys EXCEPT ![s] = <<row>>]
    /\ lineage' = [lineage EXCEPT ![s] = k]

\* The key becomes version 1 under the command's -policy-id.
InitBootstrap(p) ==
    /\ At(p, "initBootstrap")
    /\ \E q \in PolicyIds : BootstrapKeyring(cmd[p].site, cmd[p].package, Row(cmd[p].key, q))
    /\ secret' = [secret EXCEPT ![cmd[p].package] = cmd[p].key]
    /\ Goto(p, "initFile")
    /\ UNCHANGED <<now, pending, admitted, escrow, session, stored, opened, restored>>

\* The package's metadata is written after the transaction.
InitFile(p) ==
    /\ At(p, "initFile")
    /\ escrow' = [escrow EXCEPT ![cmd[p].package] = @ \union {"file"}]
    /\ Goto(p, "initPrint")
    /\ UNCHANGED <<now, dbVars, secret, session, stored, opened, restored>>

\* The shares leave the process here, once.
InitPrint(p) ==
    /\ At(p, "initPrint")
    /\ escrow' = [escrow EXCEPT ![cmd[p].package] = @ \union {"shares"}]
    /\ Exit(p)
    /\ UNCHANGED <<now, dbVars, secret, session, stored, opened, restored>>

--------------------------------------------------------------------------------
(* recover begin *)

\* recovery.Recover succeeds only for enough genuine shares of the package.
RecoverAccepts(k) == "shares" \in escrow[k]

\* Package and shares are read; rejected shares end the command.
BeginRead(p) ==
    /\ At(p, "idle")
    /\ \E k \in Packages :
          /\ "file" \in escrow[k]
          /\ RecoverAccepts(k)
          /\ cmd' = [cmd EXCEPT ![p] = Command("beginWrite", "none", k, "none")]
    /\ UNCHANGED <<now, dbVars, secret, escrow, session, stored, opened, restored>>

\* Slip: the lifetime is added twice.
SessionExpiryLate == now + SessionTTL + SessionTTL

SessionExpiry == now + SessionTTL

\* The session file replaces an older one.
BeginWrite(p) ==
    /\ At(p, "beginWrite")
    /\ session' = [session EXCEPT ![cmd[p].package] = SessionExpiry]
    /\ opened' = opened \union {cmd[p].package}
    /\ Exit(p)
    /\ UNCHANGED <<now, dbVars, secret, escrow, stored, restored>>

--------------------------------------------------------------------------------
(* recover enroll *)

\* Slip: the session is not compared with the package.
SessionValidForAny(j, k) == session[j] # 0 /\ now < session[j]

\* recoverySession.Validate for the session file of package j, which the
\* operator may confuse with that of package k.
SessionValid(j, k) == session[j] # 0 /\ j = k /\ now < session[j]

\* Package and session are read, and the target request.  A rejected session,
\* request or set of shares ends the command.
RecoverRead(p) ==
    /\ At(p, "idle")
    /\ \E s \in Sites, k, j \in Packages :
          /\ "file" \in escrow[k]
          /\ SessionValid(j, k)
          /\ cmd' = [cmd EXCEPT ![p] = Command("recoverSecret", s, k, "none")]
    /\ UNCHANGED <<now, dbVars, secret, escrow, session, stored, opened, restored>>

\* recoverSecretForEnroll
RecoverSecret(p) ==
    /\ At(p, "recoverSecret")
    /\ RecoverAccepts(cmd[p].package)
    /\ cmd' = [cmd EXCEPT ![p].pc = "recoverBootstrap", ![p].key = secret[cmd[p].package]]
    /\ UNCHANGED <<now, dbVars, secret, escrow, session, stored, opened, restored>>

\* The recovered key becomes version 1 of the target database, under this
\* command's own -policy-id.
RecoverBootstrap(p) ==
    /\ At(p, "recoverBootstrap")
    /\ \E q \in PolicyIds : BootstrapKeyring(cmd[p].site, cmd[p].package, Row(cmd[p].key, q))
    /\ restored' = restored \union {<<cmd[p].package, cmd[p].site>>}
    /\ Goto(p, "recoverSubject")
    /\ UNCHANGED <<now, pending, admitted, secret, escrow, session, stored, opened>>

RecoverSubject(p) ==
    /\ At(p, "recoverSubject")
    /\ keys[cmd[p].site] # <<>>      \* FOREIGN KEY (cluster_id)
    /\ admitted' = admitted \union {cmd[p].site}
    /\ Exit(p)
    /\ UNCHANGED <<now, keys, pending, lineage, secret, escrow, session, stored, opened, restored>>

--------------------------------------------------------------------------------
(* recover finish *)

Finish(p) ==
    /\ At(p, "idle")
    /\ \E k \in Packages :
          /\ session[k] # 0
          /\ session' = [session EXCEPT ![k] = 0]
    /\ UNCHANGED <<now, dbVars, secret, escrow, stored, opened, restored, cmd>>

--------------------------------------------------------------------------------
(* The environment *)

\* A step fails or rejects its input, or the process is killed.
CommandFails(p) ==
    /\ ~At(p, "idle")
    /\ Exit(p)
    /\ UNCHANGED <<now, dbVars, secret, escrow, session, stored, opened, restored>>

\* rotate start: a new key, and no recovery package for it.
StartRotation ==
    /\ \E s \in Sites, m \in Keys, q \in PolicyIds :
          /\ keys[s] # <<>>
          /\ ~pending[s]
          /\ Len(keys[s]) < MaxVersions
          /\ FreshKey(m)
          /\ keys' = [keys EXCEPT ![s] = Append(@, Row(m, q))]
          /\ pending' = [pending EXCEPT ![s] = TRUE]
    /\ UNCHANGED <<now, lineage, admitted, secret, escrow, session, stored, opened, restored, cmd>>

\* rotate activate
ActivateRotation ==
    /\ \E s \in Sites : pending[s] /\ pending' = [pending EXCEPT ![s] = FALSE]
    /\ UNCHANGED <<now, keys, lineage, admitted, secret, escrow, session, stored, opened, restored, cmd>>

\* Ring.Decrypt under a row's key and policy_id.
Opens(row, blob) == row.key = blob.key /\ row.policy = blob.policy

ActiveVersion(s) == IF pending[s] THEN Len(keys[s]) - 1 ELSE Len(keys[s])

\* OpenBao wraps its stored key through a broker on one of the databases.
OpenBaoSeals ==
    /\ \E s \in Sites :
          /\ keys[s] # <<>>
          /\ stored' = [package |-> lineage[s], version |-> ActiveVersion(s),
                        key |-> keys[s][ActiveVersion(s)].key,
                        policy |-> keys[s][ActiveVersion(s)].policy]
    /\ UNCHANGED <<now, dbVars, secret, escrow, session, opened, restored, cmd>>

\* The host of a database is lost, after the commands that ran there.
LoseState ==
    /\ \E s \in Sites :
          /\ keys[s] # <<>>
          /\ \A p \in Operators : cmd[p].site # s
          /\ keys' = [keys EXCEPT ![s] = <<>>]
          /\ pending' = [pending EXCEPT ![s] = FALSE]
          /\ lineage' = [lineage EXCEPT ![s] = "none"]
          /\ admitted' = admitted \ {s}
    /\ UNCHANGED <<now, secret, escrow, session, stored, opened, restored, cmd>>

Tick ==
    /\ now < MaxTime
    /\ now' = now + 1
    /\ UNCHANGED <<dbVars, secret, escrow, session, stored, opened, restored, cmd>>

RecoveryNext ==
    \/ StartRotation \/ ActivateRotation \/ OpenBaoSeals \/ LoseState \/ Tick
    \/ \E p \in Operators :
          \/ InitCreate(p) \/ InitBootstrap(p) \/ InitFile(p) \/ InitPrint(p)
          \/ BeginRead(p) \/ BeginWrite(p)
          \/ RecoverRead(p) \/ RecoverSecret(p) \/ RecoverBootstrap(p) \/ RecoverSubject(p)
          \/ Finish(p) \/ CommandFails(p)

RecoverySpec == RecoveryInit /\ [][RecoveryNext]_recoveryVars

--------------------------------------------------------------------------------
(* Properties *)

\* Every database, file and command has a value the code can produce.
RecoveryTypeOK ==
    /\ now \in 0..MaxTime
    /\ keys \in [Sites -> Seq([key : Keys, policy : PolicyIds])]
    /\ pending \in [Sites -> BOOLEAN]
    /\ lineage \in [Sites -> Packages \union {"none"}]
    /\ admitted \subseteq {s \in Sites : keys[s] # <<>>}
    /\ secret \in [Packages -> Keys \union {"none"}]
    /\ escrow \in [Packages -> SUBSET {"file", "shares"}]
    /\ session \in [Packages -> 0..(MaxTime + SessionTTL)]
    /\ stored \in [package : Packages \union {"none"}, version : 0..MaxVersions,
                   key : Keys \union {"none"}, policy : PolicyIds \union {"none"}]
    /\ opened \subseteq Packages
    /\ restored \subseteq Packages \X Sites
    /\ cmd \in [Operators -> [pc : Pcs, site : Sites \union {"none"},
                              package : Packages \union {"none"}, key : Keys \union {"none"}]]

\* No keyring is restored from a package unless recover begin wrote a session
\* for that very package, whatever sessions were mixed up, closed, expired or
\* opened anew in between, and by whichever shell.
RestoreFollowsOpenedSession ==
    \A k \in Packages, s \in Sites : <<k, s>> \in restored => k \in opened

\* Every database that belongs to a package, the original one and each one that
\* was restored, holds the key under which OpenBao stored a blob with the
\* package's first version, however often databases were lost and restored.  The
\* blob opens there if and only if the database was founded with the -policy-id
\* of the one that wrapped it: recover enroll has to be given init's.
FirstKeyIsRecoverable ==
    \A s \in Sites :
        keys[s] # <<>> /\ stored.package = lineage[s] /\ stored.version = 1 =>
            /\ keys[s][1].key = stored.key
            /\ Opens(keys[s][1], stored) <=> keys[s][1].policy = stored.policy
================================================================================
