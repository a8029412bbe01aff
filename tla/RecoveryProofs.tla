----------------------------- MODULE RecoveryProofs -----------------------------
(***************************************************************************)
(* Recovery for any number of shells, databases, packages and keys.         *)
(*                                                                         *)
(* The first key of a database is the secret of its package, and a secret   *)
(* never changes once it is set.  The invariant carries this through the    *)
(* steps of the commands: what a command holds in memory between two steps  *)
(* agrees with the secrets, although databases are lost meanwhile.  The     *)
(* policy_id of a version comes from the command that inserts it, so nothing *)
(* relates those of two databases.                                          *)
(***************************************************************************)
EXTENDS Recovery, TLAPS

--------------------------------------------------------------------------------
(* The inductive invariant *)

Commands == [pc : Pcs, site : Sites \union {"none"},
             package : Packages \union {"none"}, key : Keys \union {"none"}]
Blobs == [package : Packages \union {"none"}, version : 0..MaxVersions, key : Keys \union {"none"},
          policy : PolicyIds \union {"none"}]
Rows == [key : Keys, policy : PolicyIds]

\* Steps of a command whose package has a secret, and those that have passed
\* the check of the session.
Founded == {"initFile", "initPrint", "beginWrite", "recoverSecret", "recoverBootstrap", "recoverSubject"}
Recovering == {"recoverSecret", "recoverBootstrap", "recoverSubject"}

\* What a command holds in memory agrees with the packages.
Held(c) ==
    /\ c \in Commands
    /\ c.pc = "initBootstrap" =>
          /\ c.site \in Sites /\ c.package \in Packages /\ c.key \in Keys
          /\ secret[c.package] = "none"
    /\ c.pc \in Founded => c.package \in Packages /\ secret[c.package] # "none"
    /\ c.pc \in Recovering => c.site \in Sites /\ c.package \in opened
    /\ c.pc = "recoverBootstrap" => c.key = secret[c.package]

\* Nobody else works with a package that is not in a database yet.
CommandsInv ==
    /\ cmd \in [Operators -> Commands]
    /\ \A p \in Operators : Held(cmd[p])
    /\ \A p, q \in Operators :
          p # q /\ cmd[p].pc = "initBootstrap" => cmd[q].package # cmd[p].package

\* The first key of a database is the secret of its package.
Founding(s) ==
    /\ Len(keys[s]) <= MaxVersions
    /\ pending[s] => Len(keys[s]) >= 2
    /\ keys[s] # <<>> => /\ lineage[s] \in Packages
                         /\ secret[lineage[s]] # "none"
                         /\ keys[s][1].key = secret[lineage[s]]
    /\ s \in admitted => keys[s] # <<>>

DatabasesInv ==
    /\ keys \in [Sites -> Seq(Rows)]
    /\ pending \in [Sites -> BOOLEAN]
    /\ lineage \in [Sites -> Packages \union {"none"}]
    /\ admitted \subseteq Sites
    /\ \A s \in Sites : Founding(s)

\* Files, sessions and the stored blob belong to packages that have a secret.
EscrowInv ==
    /\ escrow \in [Packages -> SUBSET {"file", "shares"}]
    /\ \A k \in Packages : escrow[k] # {} => secret[k] # "none"

SessionInv ==
    /\ now \in 0..MaxTime
    /\ session \in [Packages -> 0..(MaxTime + SessionTTL)]
    /\ opened \subseteq Packages
    /\ \A k \in Packages : session[k] # 0 => k \in opened

BlobInv ==
    /\ stored \in Blobs
    /\ stored.package \in Packages =>
          /\ secret[stored.package] # "none"
          /\ stored.version = 1 => stored.key = secret[stored.package]

RestoredInv ==
    /\ restored \subseteq Packages \X Sites
    /\ RestoreFollowsOpenedSession

SecretType == secret \in [Packages -> Keys \union {"none"}]

RecoveryInv ==
    /\ SecretType
    /\ CommandsInv
    /\ DatabasesInv
    /\ EscrowInv
    /\ SessionInv
    /\ BlobInv
    /\ RestoredInv

--------------------------------------------------------------------------------
(* Packages *)

\* A secret is set once and for good.
SecretsKept ==
    /\ SecretType'
    /\ \A k \in Packages : secret[k] # "none" => secret'[k] = secret[k]
    /\ opened \subseteq opened'

\* Only InitBootstrap sets a secret, and only BeginWrite opens a session.
LEMMA SecretsStep ==
    ASSUME RecoveryInv, RecoveryNext \/ UNCHANGED recoveryVars
    PROVE  SecretsKept
<1>1. CASE UNCHANGED secret /\ opened \subseteq opened'
  BY <1>1 DEF SecretsKept, SecretType, RecoveryInv
<1>2. ASSUME NEW p \in Operators, InitBootstrap(p)
      PROVE  SecretsKept
  <2>1. PICK c : c = cmd[p]
    OBVIOUS
  <2>2. c.package \in Packages /\ c.key \in Keys /\ secret[c.package] = "none"
    BY <1>2, <2>1 DEF RecoveryInv, CommandsInv, Held, InitBootstrap, At
  <2>3. secret' = [secret EXCEPT ![c.package] = c.key] /\ opened' = opened
    BY <1>2, <2>1 DEF InitBootstrap
  <2> QED
    BY <2>2, <2>3 DEF SecretsKept, SecretType, RecoveryInv
<1>3. CASE \/ StartRotation \/ ActivateRotation \/ OpenBaoSeals \/ LoseState \/ Tick
           \/ UNCHANGED recoveryVars
  BY <1>1, <1>3 DEF StartRotation, ActivateRotation, OpenBaoSeals, LoseState, Tick, recoveryVars
<1>4. CASE \E p \in Operators :
             \/ InitCreate(p) \/ InitFile(p) \/ InitPrint(p) \/ BeginRead(p) \/ BeginWrite(p)
             \/ RecoverRead(p) \/ RecoverSecret(p) \/ RecoverBootstrap(p) \/ RecoverSubject(p)
             \/ Finish(p) \/ CommandFails(p)
  BY <1>1, <1>4 DEF InitCreate, InitFile, InitPrint, BeginRead, BeginWrite, RecoverRead, RecoverSecret,
     RecoverBootstrap, RecoverSubject, Finish, CommandFails
<1> QED
  BY <1>2, <1>3, <1>4 DEF RecoveryNext

--------------------------------------------------------------------------------
(* Commands *)

\* What a resting command holds stays true.
LEMMA HeldStays ==
    ASSUME SecretsKept, NEW c, Held(c), c.pc = "initBootstrap" => secret'[c.package] = "none"
    PROVE  Held(c)'
  BY DEF SecretsKept, Held, Founded, Recovering

\* A command goes on, or starts, or ends; the others rest.
LEMMA CommandMoves ==
    ASSUME CommandsInv, SecretsKept, UNCHANGED secret, NEW p \in Operators, NEW c,
           cmd' = [cmd EXCEPT ![p] = c], Held(c)',
           \A q \in Operators : q # p /\ (c.pc = "initBootstrap" \/ cmd[q].pc = "initBootstrap")
                                   => cmd[q].package # c.package
    PROVE  CommandsInv'
<1>1. c \in Commands
  BY DEF Held
<1>2. /\ cmd' \in [Operators -> Commands] /\ cmd'[p] = c
      /\ \A q \in Operators : q # p => cmd'[q] = cmd[q]
  BY <1>1 DEF CommandsInv
<1>3. ASSUME NEW q \in Operators, q # p
      PROVE  Held(cmd[q])'
  <2>1. PICK d : d = cmd[q]
    OBVIOUS
  <2>2. Held(d) /\ (d.pc = "initBootstrap" => secret'[d.package] = "none")
    BY <2>1 DEF CommandsInv, Held
  <2>3. Held(d)'
    BY <2>2, HeldStays
  <2>4. cmd'[q] = d
    BY <1>2, <1>3, <2>1
  <2> QED
    BY <2>3, <2>4 DEF Held
<1>4. \A q \in Operators : Held(cmd[q])'
  <2>1. Held(cmd[p])'
    BY <1>2 DEF Held
  <2> QED
    BY <1>3, <2>1
<1>5. \A q, r \in Operators :
          q # r /\ cmd'[q].pc = "initBootstrap" => cmd'[r].package # cmd'[q].package
  BY <1>2 DEF CommandsInv
<1> QED
  BY <1>2, <1>4, <1>5 DEF CommandsInv

\* A command that has ended holds nothing.
LEMMA CommandEnds ==
    ASSUME CommandsInv, SecretsKept, UNCHANGED secret, NEW p \in Operators, Exit(p)
    PROVE  CommandsInv'
<1>1. Idle \in Commands /\ Idle.pc = "idle" /\ Idle.package = "none"
  BY DEF Idle, Command, Commands, Pcs
<1>2. Held(Idle)'
  BY <1>1 DEF Held, Founded, Recovering
<1>3. \A q \in Operators : cmd[q].pc = "initBootstrap" => cmd[q].package # "none"
  BY RecoveryAssumption DEF CommandsInv, Held
<1> QED
  BY <1>1, <1>2, <1>3, CommandMoves, ZenonT(30) DEF Exit

\* A command that goes on keeps what it holds.
LEMMA CommandGoes ==
    ASSUME CommandsInv, SecretsKept, UNCHANGED secret, NEW p \in Operators,
           NEW pc \in Founded \ {"recoverBootstrap"}, cmd[p].pc \in Founded,
           pc \in Recovering => cmd[p].pc \in Recovering, Goto(p, pc)
    PROVE  CommandsInv'
<1>1. PICK h \in Commands : h = cmd[p]
  BY DEF CommandsInv
<1>2. PICK c : c = [h EXCEPT !.pc = pc]
  BY Zenon
<1>3. c \in Commands
  BY <1>2, ZenonT(30) DEF Commands, Founded, Pcs
<1>4. c.pc = pc /\ c.site = h.site /\ c.package = h.package /\ c.key = h.key
  BY <1>2 DEF Commands
<1>5. Held(h) /\ cmd' = [cmd EXCEPT ![p] = c]
  BY <1>1, <1>2 DEF CommandsInv, Goto
<1>6. h.package \in Packages /\ secret[h.package] # "none"
  BY <1>1, <1>5 DEF Held
<1>7. Held(c)'
  <2>1. pc \in Recovering => h.site \in Sites /\ h.package \in opened'
    BY <1>1, <1>5 DEF Held, SecretsKept
  <2> QED
    BY <1>3, <1>4, <1>6, <2>1 DEF Held, Founded
<1>8. \A q \in Operators : q # p /\ cmd[q].pc = "initBootstrap" => cmd[q].package # c.package
  BY <1>1, <1>4 DEF CommandsInv
<1> QED
  BY <1>4, <1>5, <1>7, <1>8, CommandMoves, Zenon DEF Founded

\* A command starts with a package that has a secret.
LEMMA CommandStarts ==
    ASSUME CommandsInv, SecretsKept, UNCHANGED secret, NEW p \in Operators,
           NEW pc \in {"beginWrite", "recoverSecret"}, NEW s \in Sites \union {"none"}, NEW k \in Packages,
           secret[k] # "none", pc = "recoverSecret" => s \in Sites /\ k \in opened,
           cmd' = [cmd EXCEPT ![p] = Command(pc, s, k, "none")]
    PROVE  CommandsInv'
<1>1. PICK c : c = Command(pc, s, k, "none")
  OBVIOUS
<1>2. c \in Commands /\ c.pc = pc /\ c.site = s /\ c.package = k
  BY <1>1 DEF Command, Commands, Pcs
<1>3. Held(c)'
  BY <1>2 DEF Held, SecretsKept, Founded, Recovering
<1>4. \A q \in Operators : cmd[q].pc = "initBootstrap" => cmd[q].package # k
  BY DEF CommandsInv, Held
<1> QED
  BY <1>1, <1>2, <1>3, <1>4, CommandMoves, Zenon

\* The transaction of init sets the secret of a package that nobody else holds.
LEMMA CommandFounds ==
    ASSUME SecretType, CommandsInv, SecretsKept, NEW p \in Operators, InitBootstrap(p)
    PROVE  CommandsInv'
<1>1. PICK h \in Commands : h = cmd[p]
  BY DEF CommandsInv
<1>2. PICK c : c = [h EXCEPT !.pc = "initFile"]
  BY Zenon
<1>3. c \in Commands
  BY <1>2, ZenonT(30) DEF Commands, Pcs
<1>4. c.pc = "initFile" /\ c.site = h.site /\ c.package = h.package /\ c.key = h.key
  BY <1>2 DEF Commands
<1>5. Held(h) /\ cmd' = [cmd EXCEPT ![p] = c] /\ h.pc = "initBootstrap"
  BY <1>1, <1>2 DEF CommandsInv, Goto, InitBootstrap, At
<1>6. h.package \in Packages /\ h.key \in Keys /\ secret' = [secret EXCEPT ![h.package] = h.key]
  BY <1>1, <1>5 DEF Held, InitBootstrap
<1>7. Held(c)'
  BY <1>3, <1>4, <1>6, RecoveryAssumption DEF Held, Founded, Recovering, SecretType
<1>8. /\ cmd' \in [Operators -> Commands] /\ cmd'[p] = c
      /\ \A q \in Operators : q # p => cmd'[q] = cmd[q]
  BY <1>3, <1>5 DEF CommandsInv
<1>9. ASSUME NEW q \in Operators, q # p
      PROVE  Held(cmd[q])'
  <2>1. PICK d : d = cmd[q]
    OBVIOUS
  <2>2. Held(d) /\ d.package # h.package
    BY <1>1, <1>5, <1>9, <2>1 DEF CommandsInv
  <2>3. d.pc = "initBootstrap" => secret'[d.package] = "none"
    BY <1>6, <2>2 DEF Held, SecretType
  <2>4. Held(d)'
    BY <2>2, <2>3, HeldStays
  <2>5. cmd'[q] = d
    BY <1>8, <1>9, <2>1
  <2> QED
    BY <2>4, <2>5 DEF Held
<1>10. \A q \in Operators : Held(cmd[q])'
  <2>1. Held(cmd[p])'
    BY <1>7, <1>8 DEF Held
  <2> QED
    BY <1>9, <2>1
<1>11. \A q, r \in Operators :
          q # r /\ cmd'[q].pc = "initBootstrap" => cmd'[r].package # cmd'[q].package
  BY <1>1, <1>4, <1>5, <1>8 DEF CommandsInv
<1> QED
  BY <1>8, <1>10, <1>11 DEF CommandsInv

\* The shares of a package yield its secret.
LEMMA CommandRecovers ==
    ASSUME SecretType, CommandsInv, SecretsKept, NEW p \in Operators, RecoverSecret(p)
    PROVE  CommandsInv'
<1>1. PICK h \in Commands : h = cmd[p]
  BY DEF CommandsInv
<1>2. PICK c : c = [h EXCEPT !.pc = "recoverBootstrap", !.key = secret[h.package]]
  OBVIOUS
<1>3. Held(h) /\ h.pc = "recoverSecret" /\ UNCHANGED <<secret, opened>>
  BY <1>1 DEF CommandsInv, RecoverSecret, At
<1>4. h.package \in Packages /\ secret[h.package] # "none" /\ secret[h.package] \in Keys
      /\ h.site \in Sites /\ h.package \in opened
  BY <1>3 DEF Held, Founded, Recovering, SecretType
<1>5. c \in Commands
  <2>1. secret[h.package] \in Keys \union {"none"} /\ "recoverBootstrap" \in Pcs
    BY <1>4 DEF Pcs
  <2> QED
    BY <1>2, <2>1, ZenonT(30) DEF Commands
<1>6. c.pc = "recoverBootstrap" /\ c.site = h.site /\ c.package = h.package /\ c.key = secret[h.package]
  BY <1>2 DEF Commands
<1>7. cmd' = [cmd EXCEPT ![p] = c]
  BY <1>1, <1>2, Zenon DEF RecoverSecret, CommandsInv
<1>8. Held(c)'
  BY <1>3, <1>4, <1>5, <1>6 DEF Held
<1>9. \A q \in Operators : q # p /\ cmd[q].pc = "initBootstrap" => cmd[q].package # c.package
  BY <1>1, <1>6 DEF CommandsInv
<1> QED
  BY <1>3, <1>6, <1>7, <1>8, <1>9, CommandMoves, Zenon

\* A new package and a new key, in memory.
LEMMA CommandCreates ==
    ASSUME CommandsInv, SecretsKept, NEW p \in Operators, InitCreate(p)
    PROVE  CommandsInv'
<1>1. PICK s \in Sites, k \in Packages, m \in Keys :
         FreshPackage(k) /\ cmd' = [cmd EXCEPT ![p] = Command("initBootstrap", s, k, m)]
  BY Zenon DEF InitCreate
<1>2. PICK c : c = Command("initBootstrap", s, k, m)
  OBVIOUS
<1>3. c \in Commands /\ c.pc = "initBootstrap" /\ c.site = s /\ c.package = k /\ c.key = m
  BY <1>2 DEF Command, Commands, Pcs
<1>4. secret[k] = "none" /\ UNCHANGED secret /\ \A q \in Operators : cmd[q].package # k
  BY <1>1 DEF FreshPackage, InitCreate
<1>5. Held(c)'
  BY <1>3, <1>4 DEF Held, Founded, Recovering
<1> QED
  BY <1>1, <1>2, <1>3, <1>4, <1>5, CommandMoves, Zenon

\* A step keeps the commands' invariant.
LEMMA CommandsStep ==
    ASSUME RecoveryInv, SecretsKept, RecoveryNext \/ UNCHANGED recoveryVars
    PROVE  CommandsInv'
<1>0. CommandsInv /\ SecretType /\ EscrowInv /\ SessionInv
  BY DEF RecoveryInv
<1>1. CASE UNCHANGED <<cmd, secret, opened>>
  BY <1>0, <1>1 DEF CommandsInv, Held
<1>2. CASE \/ StartRotation \/ ActivateRotation \/ OpenBaoSeals \/ LoseState \/ Tick
           \/ UNCHANGED recoveryVars \/ \E p \in Operators : Finish(p)
  BY <1>1, <1>2 DEF StartRotation, ActivateRotation, OpenBaoSeals, LoseState, Tick, recoveryVars, Finish
<1>3. ASSUME NEW p \in Operators, InitPrint(p) \/ BeginWrite(p) \/ RecoverSubject(p) \/ CommandFails(p)
      PROVE  CommandsInv'
  BY <1>0, <1>3, CommandEnds DEF InitPrint, BeginWrite, RecoverSubject, CommandFails
<1>4. ASSUME NEW p \in Operators, InitFile(p)
      PROVE  CommandsInv'
  BY <1>0, <1>4, CommandGoes DEF InitFile, At, Founded, Recovering
<1>5. ASSUME NEW p \in Operators, RecoverBootstrap(p)
      PROVE  CommandsInv'
  BY <1>0, <1>5, CommandGoes DEF RecoverBootstrap, At, Founded, Recovering
<1>6. ASSUME NEW p \in Operators, BeginRead(p)
      PROVE  CommandsInv'
  <2>1. PICK k \in Packages :
           "file" \in escrow[k] /\ cmd' = [cmd EXCEPT ![p] = Command("beginWrite", "none", k, "none")]
    BY <1>6, Zenon DEF BeginRead
  <2>2. secret[k] # "none" /\ UNCHANGED secret
    BY <1>0, <1>6, <2>1 DEF EscrowInv, BeginRead
  <2> QED
    BY <1>0, <2>1, <2>2, CommandStarts, Zenon
<1>7. ASSUME NEW p \in Operators, RecoverRead(p)
      PROVE  CommandsInv'
  <2>1. PICK s \in Sites, k \in Packages, j \in Packages :
           /\ "file" \in escrow[k] /\ SessionValid(j, k)
           /\ cmd' = [cmd EXCEPT ![p] = Command("recoverSecret", s, k, "none")]
    BY <1>7, Zenon DEF RecoverRead
  <2>2. secret[k] # "none" /\ UNCHANGED secret /\ k \in opened
    BY <1>0, <1>7, <2>1 DEF EscrowInv, SessionInv, SessionValid, RecoverRead
  <2> QED
    BY <1>0, <2>1, <2>2, CommandStarts, Zenon
<1>8. ASSUME NEW p \in Operators, InitCreate(p) \/ InitBootstrap(p) \/ RecoverSecret(p)
      PROVE  CommandsInv'
  BY <1>0, <1>8, CommandCreates, CommandFounds, CommandRecovers
<1> QED
  BY <1>2, <1>3, <1>4, <1>5, <1>6, <1>7, <1>8 DEF RecoveryNext

--------------------------------------------------------------------------------
(* Databases *)

\* A database that rests keeps its founding.
LEMMA DatabaseRests ==
    ASSUME SecretsKept, NEW s \in Sites, Founding(s),
           keys'[s] = keys[s], pending'[s] = pending[s], lineage'[s] = lineage[s],
           s \in admitted' => s \in admitted
    PROVE  Founding(s)'
  BY DEF Founding, SecretsKept

\* A keyring comes with the secret of its package as the first key.
LEMMA DatabaseFounded ==
    ASSUME DatabasesInv, SecretsKept, NEW s \in Sites, NEW k \in Packages, NEW m \in Rows,
           secret'[k] = m.key, m.key # "none", BootstrapKeyring(s, k, m), UNCHANGED <<pending, admitted>>
    PROVE  DatabasesInv'
<1>1. <<m>> \in Seq(Rows) /\ Len(<<m>>) = 1 /\ <<m>>[1] = m /\ <<m>> # <<>> /\ Len(<< >>) = 0
  OBVIOUS
<1>2. /\ keys' \in [Sites -> Seq(Rows)] /\ keys'[s] = <<m>>
      /\ lineage' \in [Sites -> Packages \union {"none"}] /\ lineage'[s] = k
      /\ \A t \in Sites : t # s => keys'[t] = keys[t] /\ lineage'[t] = lineage[t]
  BY <1>1 DEF BootstrapKeyring, DatabasesInv
<1>3. Founding(s)'
  <2>1. ~pending[s]
    BY <1>1 DEF BootstrapKeyring, DatabasesInv, Founding
  <2> QED
    BY <1>1, <1>2, <2>1, RecoveryAssumption DEF Founding
<1>4. \A t \in Sites : t # s => Founding(t)'
  BY <1>2, DatabaseRests DEF DatabasesInv
<1> QED
  BY <1>2, <1>3, <1>4 DEF DatabasesInv

\* A rotation adds a key after the first one.
LEMMA DatabaseRotates ==
    ASSUME DatabasesInv, SecretsKept, StartRotation \/ ActivateRotation
    PROVE  DatabasesInv'
<1>1. CASE StartRotation
  <2>1. PICK s \in Sites, m \in Rows :
           /\ keys[s] # <<>> /\ Len(keys[s]) < MaxVersions
           /\ keys' = [keys EXCEPT ![s] = Append(@, m)]
           /\ pending' = [pending EXCEPT ![s] = TRUE]
    <3>1. \A m \in Keys, q \in PolicyIds : Row(m, q) \in Rows
      BY DEF Row, Rows
    <3> QED
      BY <1>1, <3>1, Zenon DEF StartRotation
  <2>2. PICK w \in Seq(Rows) : w = keys[s]
    BY DEF DatabasesInv
  <2>3. /\ Append(w, m) \in Seq(Rows) /\ Len(Append(w, m)) = Len(w) + 1 /\ Len(w) \in Nat
        /\ Append(w, m) # <<>> /\ Len(w) >= 1 /\ Append(w, m)[1] = w[1]
    BY <2>1, <2>2
  <2>4. /\ keys' \in [Sites -> Seq(Rows)] /\ keys'[s] = Append(w, m)
        /\ pending' \in [Sites -> BOOLEAN] /\ UNCHANGED <<lineage, admitted>>
        /\ \A t \in Sites : t # s => keys'[t] = keys[t] /\ pending'[t] = pending[t]
    BY <1>1, <2>1, <2>2, <2>3, Zenon DEF StartRotation, DatabasesInv
  <2>5. Founding(s)'
    <3>1. /\ lineage[s] \in Packages /\ secret[lineage[s]] # "none" /\ w[1].key = secret[lineage[s]]
      BY <2>1, <2>2 DEF DatabasesInv, Founding
    <3>2. Len(Append(w, m)) <= MaxVersions /\ Len(Append(w, m)) >= 2
      BY <2>1, <2>2, <2>3, RecoveryAssumption
    <3> QED
      BY <2>3, <2>4, <3>1, <3>2 DEF Founding, SecretsKept
  <2>6. \A t \in Sites : t # s => Founding(t)'
    BY <2>4, DatabaseRests DEF DatabasesInv
  <2> QED
    BY <2>4, <2>5, <2>6 DEF DatabasesInv
<1>2. CASE ActivateRotation
  <2>1. PICK s \in Sites : pending' = [pending EXCEPT ![s] = FALSE]
    BY <1>2, Zenon DEF ActivateRotation
  <2>2. /\ UNCHANGED <<keys, lineage, admitted>> /\ pending' \in [Sites -> BOOLEAN]
        /\ \A t \in Sites : pending'[t] => pending[t]
    BY <1>2, <2>1 DEF ActivateRotation, DatabasesInv
  <2>3. \A t \in Sites : Founding(t)'
    BY <2>2, Zenon DEF DatabasesInv, Founding, SecretsKept
  <2> QED
    BY <2>2, <2>3 DEF DatabasesInv
<1> QED
  BY <1>1, <1>2

\* A lost database is as good as new.
LEMMA DatabaseLost ==
    ASSUME DatabasesInv, SecretsKept, LoseState
    PROVE  DatabasesInv'
<1>1. PICK s \in Sites :
         /\ keys' = [keys EXCEPT ![s] = <<>>] /\ pending' = [pending EXCEPT ![s] = FALSE]
         /\ lineage' = [lineage EXCEPT ![s] = "none"] /\ admitted' = admitted \ {s}
  BY Zenon DEF LoseState
<1>2. <<>> \in Seq(Rows) /\ Len(<<>>) = 0
  OBVIOUS
<1>3. /\ keys' \in [Sites -> Seq(Rows)] /\ pending' \in [Sites -> BOOLEAN]
      /\ lineage' \in [Sites -> Packages \union {"none"}] /\ admitted' \subseteq Sites
      /\ keys'[s] = <<>> /\ pending'[s] = FALSE
      /\ \A t \in Sites : t # s => /\ keys'[t] = keys[t] /\ pending'[t] = pending[t]
                                   /\ lineage'[t] = lineage[t]
  BY <1>1, <1>2 DEF DatabasesInv
<1>4. Founding(s)'
  BY <1>1, <1>2, <1>3, RecoveryAssumption DEF Founding
<1>5. \A t \in Sites : t # s => Founding(t)'
  BY <1>1, <1>3, DatabaseRests, Zenon DEF DatabasesInv
<1> QED
  BY <1>3, <1>4, <1>5 DEF DatabasesInv

\* A step keeps the databases' invariant.
LEMMA DatabasesStep ==
    ASSUME RecoveryInv, SecretsKept, RecoveryNext \/ UNCHANGED recoveryVars
    PROVE  DatabasesInv'
<1>0. DatabasesInv /\ CommandsInv /\ SecretType
  BY DEF RecoveryInv
<1>1. CASE UNCHANGED dbVars
  <2>1. UNCHANGED <<keys, pending, lineage, admitted>>
    BY <1>1 DEF dbVars
  <2>2. \A t \in Sites : Founding(t)'
    BY <1>0, <2>1, DatabaseRests DEF DatabasesInv
  <2> QED
    BY <1>0, <2>1, <2>2 DEF DatabasesInv
<1>2. ASSUME NEW p \in Operators, InitBootstrap(p)
      PROVE  DatabasesInv'
  <2>1. PICK c : c = cmd[p]
    OBVIOUS
  <2>2. /\ c.site \in Sites /\ c.package \in Packages /\ c.key \in Keys
        /\ secret' = [secret EXCEPT ![c.package] = c.key]
        /\ UNCHANGED <<pending, admitted>>
    BY <1>0, <1>2, <2>1 DEF CommandsInv, Held, InitBootstrap, At
  <2>3. PICK q \in PolicyIds : BootstrapKeyring(c.site, c.package, Row(c.key, q))
    BY <1>2, <2>1, Zenon DEF InitBootstrap
  <2>4. Row(c.key, q) \in Rows /\ Row(c.key, q).key = c.key /\ c.key # "none"
    BY <2>2, RecoveryAssumption DEF Row, Rows
  <2>5. secret'[c.package] = Row(c.key, q).key
    BY <1>0, <2>2, <2>4 DEF SecretType
  <2> QED
    BY <1>0, <2>2, <2>3, <2>4, <2>5, DatabaseFounded
<1>3. ASSUME NEW p \in Operators, RecoverBootstrap(p)
      PROVE  DatabasesInv'
  <2>1. PICK c : c = cmd[p]
    OBVIOUS
  <2>2. /\ Held(c) /\ c.pc = "recoverBootstrap"
        /\ UNCHANGED <<secret, pending, admitted>>
    BY <1>0, <1>3, <2>1 DEF CommandsInv, RecoverBootstrap, At
  <2>3. /\ c.site \in Sites /\ c.package \in Packages /\ c.key = secret[c.package] /\ c.key \in Keys
    BY <1>0, <2>2 DEF Held, Founded, Recovering, SecretType
  <2>4. PICK q \in PolicyIds : BootstrapKeyring(c.site, c.package, Row(c.key, q))
    BY <1>3, <2>1, Zenon DEF RecoverBootstrap
  <2>5. Row(c.key, q) \in Rows /\ Row(c.key, q).key = c.key /\ c.key # "none"
    BY <2>3, RecoveryAssumption DEF Row, Rows
  <2>6. secret'[c.package] = Row(c.key, q).key
    BY <2>2, <2>3, <2>5
  <2> QED
    BY <1>0, <2>2, <2>3, <2>4, <2>5, <2>6, DatabaseFounded
<1>4. ASSUME NEW p \in Operators, RecoverSubject(p)
      PROVE  DatabasesInv'
  <2>1. PICK s \in Sites : s = cmd[p].site
    BY <1>0, <1>4 DEF CommandsInv, Held, RecoverSubject, At, Recovering
  <2>2. /\ UNCHANGED <<keys, pending, lineage>> /\ keys[s] # <<>>
        /\ admitted' = admitted \union {s}
    BY <1>4, <2>1 DEF RecoverSubject
  <2>3. \A t \in Sites : Founding(t)'
    BY <1>0, <2>2, Zenon DEF DatabasesInv, Founding, SecretsKept
  <2> QED
    BY <1>0, <2>2, <2>3 DEF DatabasesInv
<1>5. CASE StartRotation \/ ActivateRotation \/ LoseState
  BY <1>0, <1>5, DatabaseRotates, DatabaseLost
<1>6. CASE \/ OpenBaoSeals \/ Tick \/ UNCHANGED recoveryVars
           \/ \E p \in Operators :
                 \/ InitCreate(p) \/ InitFile(p) \/ InitPrint(p) \/ BeginRead(p) \/ BeginWrite(p)
                 \/ RecoverRead(p) \/ RecoverSecret(p) \/ Finish(p) \/ CommandFails(p)
  BY <1>1, <1>6, Zenon DEF OpenBaoSeals, Tick, recoveryVars, InitCreate, InitFile, InitPrint, BeginRead,
     BeginWrite, RecoverRead, RecoverSecret, Finish, CommandFails
<1> QED
  BY <1>2, <1>3, <1>4, <1>5, <1>6 DEF RecoveryNext

--------------------------------------------------------------------------------
(* Escrow, sessions, the stored blob and the history *)

\* A step keeps the escrow's invariant: files and shares are of a package whose
\* transaction is done.
LEMMA EscrowStep ==
    ASSUME RecoveryInv, SecretsKept, RecoveryNext \/ UNCHANGED recoveryVars
    PROVE  EscrowInv'
<1>1. CASE UNCHANGED escrow
  BY <1>1 DEF RecoveryInv, EscrowInv, SecretsKept
<1>2. ASSUME NEW p \in Operators, InitFile(p) \/ InitPrint(p)
      PROVE  EscrowInv'
  <2>1. PICK k \in Packages : k = cmd[p].package /\ secret[k] # "none"
    BY <1>2 DEF InitFile, InitPrint, At, RecoveryInv, CommandsInv, Held, Founded
  <2>2. PICK e \in SUBSET {"file", "shares"} : escrow' = [escrow EXCEPT ![k] = e]
    BY <1>2, <2>1 DEF InitFile, InitPrint, RecoveryInv, EscrowInv
  <2> QED
    BY <2>1, <2>2 DEF RecoveryInv, EscrowInv, SecretsKept
<1>3. CASE \/ StartRotation \/ ActivateRotation \/ OpenBaoSeals \/ LoseState \/ Tick
           \/ UNCHANGED recoveryVars
           \/ \E p \in Operators :
                 \/ InitCreate(p) \/ InitBootstrap(p) \/ BeginRead(p) \/ BeginWrite(p)
                 \/ RecoverRead(p) \/ RecoverSecret(p) \/ RecoverBootstrap(p) \/ RecoverSubject(p)
                 \/ Finish(p) \/ CommandFails(p)
  BY <1>1, <1>3, Zenon DEF StartRotation, ActivateRotation, OpenBaoSeals, LoseState, Tick, recoveryVars,
     InitCreate, InitBootstrap, BeginRead, BeginWrite, RecoverRead, RecoverSecret, RecoverBootstrap,
     RecoverSubject, Finish, CommandFails
<1> QED
  BY <1>2, <1>3 DEF RecoveryNext

\* A step keeps the sessions' invariant.
LEMMA SessionStep ==
    ASSUME RecoveryInv, RecoveryNext \/ UNCHANGED recoveryVars
    PROVE  SessionInv'
<1>0. SessionInv
  BY DEF RecoveryInv
<1>1. CASE UNCHANGED <<now, session, opened>>
  BY <1>0, <1>1 DEF SessionInv
<1>2. ASSUME NEW p \in Operators, BeginWrite(p)
      PROVE  SessionInv'
  <2>1. PICK k \in Packages : k = cmd[p].package
    BY <1>2 DEF BeginWrite, At, RecoveryInv, CommandsInv, Held, Founded
  <2>2. SessionExpiry \in 0..(MaxTime + SessionTTL)
    BY <1>0, RecoveryAssumption DEF SessionExpiry, SessionInv
  <2>3. /\ session' = [session EXCEPT ![k] = SessionExpiry] /\ opened' = opened \union {k}
        /\ UNCHANGED now
    BY <1>2, <2>1 DEF BeginWrite
  <2> QED
    BY <1>0, <2>2, <2>3 DEF SessionInv
<1>3. ASSUME NEW p \in Operators, Finish(p)
      PROVE  SessionInv'
  <2>1. PICK k \in Packages : session' = [session EXCEPT ![k] = 0]
    BY <1>3, Zenon DEF Finish
  <2>2. UNCHANGED <<now, opened>> /\ 0 \in 0..(MaxTime + SessionTTL)
    BY <1>3, RecoveryAssumption DEF Finish
  <2> QED
    BY <1>0, <2>1, <2>2 DEF SessionInv
<1>4. CASE Tick
  BY <1>0, <1>4, RecoveryAssumption DEF Tick, SessionInv
<1>5. CASE \/ StartRotation \/ ActivateRotation \/ OpenBaoSeals \/ LoseState \/ UNCHANGED recoveryVars
           \/ \E p \in Operators :
                 \/ InitCreate(p) \/ InitBootstrap(p) \/ InitFile(p) \/ InitPrint(p) \/ BeginRead(p)
                 \/ RecoverRead(p) \/ RecoverSecret(p) \/ RecoverBootstrap(p) \/ RecoverSubject(p)
                 \/ CommandFails(p)
  BY <1>1, <1>5, Zenon DEF StartRotation, ActivateRotation, OpenBaoSeals, LoseState, recoveryVars,
     InitCreate, InitBootstrap, InitFile, InitPrint, BeginRead, RecoverRead, RecoverSecret,
     RecoverBootstrap, RecoverSubject, CommandFails
<1> QED
  BY <1>2, <1>3, <1>4, <1>5 DEF RecoveryNext

\* A step keeps the blob's invariant: what is stored under version 1 is stored
\* under the secret of the package.
LEMMA BlobStep ==
    ASSUME RecoveryInv, SecretsKept, RecoveryNext \/ UNCHANGED recoveryVars
    PROVE  BlobInv'
<1>1. CASE UNCHANGED stored
  BY <1>1 DEF RecoveryInv, BlobInv, SecretsKept
<1>2. CASE OpenBaoSeals
  <2>1. PICK s \in Sites : /\ keys[s] # <<>>
                           /\ stored' = [package |-> lineage[s], version |-> ActiveVersion(s),
                                         key |-> keys[s][ActiveVersion(s)].key,
                                         policy |-> keys[s][ActiveVersion(s)].policy]
    BY <1>2 DEF OpenBaoSeals
  <2>2. PICK w \in Seq(Rows) : w = keys[s]
    BY DEF RecoveryInv, DatabasesInv
  <2>3. PICK v : v = ActiveVersion(s)
    OBVIOUS
  <2>4. /\ Founding(s) /\ lineage[s] \in Packages /\ secret[lineage[s]] # "none"
        /\ w[1].key = secret[lineage[s]] /\ Len(w) <= MaxVersions /\ (pending[s] => Len(w) >= 2)
    BY <2>1, <2>2 DEF RecoveryInv, DatabasesInv, Founding
  <2>5. Len(w) \in Nat /\ Len(w) >= 1
    BY <2>1, <2>2
  <2>6. v \in 1..Len(w) /\ v \in 0..MaxVersions
    BY <2>2, <2>3, <2>4, <2>5, RecoveryAssumption DEF ActiveVersion
  <2>7. w[v].key \in Keys /\ w[v].policy \in PolicyIds
    <3>1. w[v] \in Rows
      BY <2>6
    <3> QED
      BY <3>1 DEF Rows
  <2>8. stored' = [package |-> lineage[s], version |-> v, key |-> w[v].key, policy |-> w[v].policy]
    BY <2>1, <2>2, <2>3
  <2>9. stored' \in Blobs
    BY <2>4, <2>6, <2>7, <2>8 DEF Blobs
  <2>10. UNCHANGED secret
    BY <1>2 DEF OpenBaoSeals
  <2> QED
    BY <2>4, <2>8, <2>9, <2>10 DEF BlobInv
<1>3. CASE \/ StartRotation \/ ActivateRotation \/ LoseState \/ Tick \/ UNCHANGED recoveryVars
           \/ \E p \in Operators :
                 \/ InitCreate(p) \/ InitBootstrap(p) \/ InitFile(p) \/ InitPrint(p)
                 \/ BeginRead(p) \/ BeginWrite(p)
                 \/ RecoverRead(p) \/ RecoverSecret(p) \/ RecoverBootstrap(p) \/ RecoverSubject(p)
                 \/ Finish(p) \/ CommandFails(p)
  BY <1>1, <1>3, Zenon DEF StartRotation, ActivateRotation, LoseState, Tick, recoveryVars, InitCreate,
     InitBootstrap, InitFile, InitPrint, BeginRead, BeginWrite, RecoverRead, RecoverSecret,
     RecoverBootstrap, RecoverSubject, Finish, CommandFails
<1> QED
  BY <1>2, <1>3 DEF RecoveryNext

\* A step keeps the history's invariant: only a command that passed the check
\* of its session restores a keyring.
LEMMA RestoredStep ==
    ASSUME RecoveryInv, SecretsKept, RecoveryNext \/ UNCHANGED recoveryVars
    PROVE  RestoredInv'
<1>1. CASE UNCHANGED restored
  BY <1>1 DEF RecoveryInv, RestoredInv, RestoreFollowsOpenedSession, SecretsKept
<1>2. ASSUME NEW p \in Operators, RecoverBootstrap(p)
      PROVE  RestoredInv'
  <2>1. PICK k \in Packages, s \in Sites : k = cmd[p].package /\ s = cmd[p].site /\ k \in opened
    BY <1>2 DEF RecoverBootstrap, At, RecoveryInv, CommandsInv, Held, Founded, Recovering
  <2>2. restored' = restored \union {<<k, s>>}
    BY <1>2, <2>1 DEF RecoverBootstrap
  <2> QED
    BY <2>1, <2>2 DEF RecoveryInv, RestoredInv, RestoreFollowsOpenedSession, SecretsKept
<1>3. CASE \/ StartRotation \/ ActivateRotation \/ OpenBaoSeals \/ LoseState \/ Tick
           \/ UNCHANGED recoveryVars
           \/ \E p \in Operators :
                 \/ InitCreate(p) \/ InitBootstrap(p) \/ InitFile(p) \/ InitPrint(p)
                 \/ BeginRead(p) \/ BeginWrite(p)
                 \/ RecoverRead(p) \/ RecoverSecret(p) \/ RecoverSubject(p)
                 \/ Finish(p) \/ CommandFails(p)
  BY <1>1, <1>3, Zenon DEF StartRotation, ActivateRotation, OpenBaoSeals, LoseState, Tick, recoveryVars,
     InitCreate, InitBootstrap, InitFile, InitPrint, BeginRead, BeginWrite, RecoverRead,
     RecoverSecret, RecoverSubject, Finish, CommandFails
<1> QED
  BY <1>2, <1>3 DEF RecoveryNext

--------------------------------------------------------------------------------
(* Results *)

\* The invariant holds at the start.
LEMMA RecoveryInitially ==
    ASSUME RecoveryInit
    PROVE  RecoveryInv
<1>1. SecretType /\ EscrowInv
  BY DEF RecoveryInit, SecretType, EscrowInv
<1>2. CommandsInv
  <2>1. Idle \in Commands /\ Idle.pc = "idle"
    BY DEF Idle, Command, Commands, Pcs
  <2> QED
    BY <2>1 DEF RecoveryInit, CommandsInv, Held, Founded, Recovering
<1>3. DatabasesInv
  <2>1. <<>> \in Seq(Rows) /\ Len(<<>>) = 0
    OBVIOUS
  <2> QED
    BY <2>1, RecoveryAssumption DEF RecoveryInit, DatabasesInv, Founding
<1>4. SessionInv
  BY RecoveryAssumption DEF RecoveryInit, SessionInv
<1>5. BlobInv
  <2>1. NoBlob \in Blobs /\ NoBlob.package = "none"
    BY RecoveryAssumption DEF NoBlob, Blobs
  <2> QED
    BY <2>1, RecoveryAssumption DEF RecoveryInit, BlobInv
<1>6. RestoredInv
  BY DEF RecoveryInit, RestoredInv, RestoreFollowsOpenedSession
<1> QED
  BY <1>1, <1>2, <1>3, <1>4, <1>5, <1>6 DEF RecoveryInv

\* The invariant is inductive.
LEMMA RecoveryStep ==
    ASSUME RecoveryInv, RecoveryNext \/ UNCHANGED recoveryVars
    PROVE  RecoveryInv'
<1>1. SecretsKept
  BY SecretsStep
<1>2. SecretType' /\ CommandsInv' /\ DatabasesInv'
  BY <1>1, CommandsStep, DatabasesStep DEF SecretsKept
<1>3. EscrowInv' /\ SessionInv' /\ BlobInv' /\ RestoredInv'
  BY <1>1, EscrowStep, SessionStep, BlobStep, RestoredStep
<1> QED
  BY <1>2, <1>3 DEF RecoveryInv

\* Every reachable state satisfies the inductive invariant.
THEOREM RecoveryInductive == RecoverySpec => []RecoveryInv
<1>1. RecoveryInit => RecoveryInv
  BY RecoveryInitially
<1>2. RecoveryInv /\ [RecoveryNext]_recoveryVars => RecoveryInv'
  BY RecoveryStep
<1> QED
  BY <1>1, <1>2, PTL DEF RecoverySpec

\* Databases, files and commands keep the values the code can produce: no
\* database admits a subject before it has a keyring.
THEOREM RecoveryTypes == RecoverySpec => []RecoveryTypeOK
<1>1. RecoveryInv => RecoveryTypeOK
  BY Zenon DEF RecoveryInv, RecoveryTypeOK, SecretType, CommandsInv, DatabasesInv, Founding, EscrowInv,
     SessionInv, BlobInv, RestoredInv, Commands, Blobs, Rows
<1> QED
  BY <1>1, RecoveryInductive, PTL

\* A keyring is restored from a package only after recover begin opened a
\* session for that package.
THEOREM RestoreFollowsSession == RecoverySpec => []RestoreFollowsOpenedSession
<1>1. RecoveryInv => RestoreFollowsOpenedSession
  BY DEF RecoveryInv, RestoredInv
<1> QED
  BY <1>1, RecoveryInductive, PTL

\* Every database of a package holds the key of what was stored under the
\* package's first version, for any number of losses and restores, and opens it
\* if and only if it was founded with the same -policy-id.
THEOREM FirstKeyRecoverable == RecoverySpec => []FirstKeyIsRecoverable
<1>1. RecoveryInv => FirstKeyIsRecoverable
  BY DEF RecoveryInv, DatabasesInv, Founding, BlobInv, FirstKeyIsRecoverable, Opens
<1> QED
  BY <1>1, RecoveryInductive, PTL
================================================================================
