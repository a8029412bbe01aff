---------------------------- MODULE KmsPluginProofs ----------------------------
(***************************************************************************)
(* KmsPlugin for any number of goroutines, configurations, key versions,    *)
(* provisioning shells, nodes and pods.                                      *)
(*                                                                          *)
(* The invariant has three parts.  The wrapper: who holds the lock, which    *)
(* backend each call holds, and whose connection is open.  The state         *)
(* directory: every version that was ever used to wrap has its metadata      *)
(* file, so a ring that loads has it too unless it was withdrawn, and what   *)
(* the files, rings and blobs say of a version was provisioned.  The pod: a  *)
(* token that was accepted is that of the process.                           *)
(***************************************************************************)
EXTENDS KmsPlugin, FiniteSetTheorems, WellFoundedInduction, TLAPS

--------------------------------------------------------------------------------
(* The wrapper *)

Pcs == {"idle", "enter", "check", "build", "status", "list", "load", "store", "name", "challenge",
        "evidence", "review", "lookup", "answer", "ring", "trace", "close"}
Claims == [podUID : 0..MaxUID, node : Nodes \union {Unscheduled}]
Calls == [pc : Pcs, op : Ops \union {"none"}, b : Backends \union {None}, todo : SUBSET Versions,
          refs : SUBSET Versions, claims : Claims, node : Nodes \union {Unscheduled}]

\* Where a call holds the lock, where it builds a backend, where it has got one.
Locked == {"check", "build", "status", "list", "load", "store", "name"}
Making == {"build", "status", "list", "load", "store"}
Served == Serving \union {"close"}

Sound(b) ==
    /\ b \in Backends /\ b.id \in Ids /\ ConfigValid(b.cfg)
    /\ b.cfg.mode = "local-tpm" => NewRing(b.ring)

\* A call that wants or holds the lock.
Locking(c) ==
    /\ call[c].pc \in Locked => lock = c
    /\ call[c].pc \in {"enter", "check"} /\ call[c].op = "SetConfig" =>
          call[c].b \in Backends /\ ConfigValid(call[c].b.cfg)
    /\ call[c].pc = "check" => call[c].op \in {"SetConfig", "Init"}

\* A call that builds a backend: nothing is in force, nobody uses its identity,
\* and its connection is open as far as the construction has come.
Made(c) ==
    call[c].pc \in Making =>
        LET b == call[c].b IN
        /\ backend = None
        /\ b \in Backends /\ b.id \in Ids /\ ConfigValid(b.cfg)
        /\ \A d \in Callers : d # c /\ call[d].pc \in Served => call[d].b.id # b.id
        /\ call[c].pc = "status" => b.cfg.mode = "broker"
        /\ call[c].pc \in {"list", "load"} => b.cfg.mode = "local-tpm"
        /\ b.id \in conns <=> (call[c].pc \in {"status", "store"} /\ b.cfg.mode = "broker")

\* A call that has got a backend, to use it or to close it.
Holding(c) ==
    /\ call[c].pc \in Served => Sound(call[c].b)
    /\ call[c].pc = "ring" => call[c].b.cfg.mode = "local-tpm"
    /\ call[c].pc = "close" /\ backend # None => backend.id # call[c].b.id

Fine(c) == Locking(c) /\ Made(c) /\ Holding(c)

WrapperTypes ==
    /\ config \in Configs \union {None}
    /\ config # None => ConfigValid(config)
    /\ backend # None => Sound(backend)
    /\ lock \in Callers \union {Free}
    /\ conns \subseteq Ids
    /\ call \in [Callers -> Calls]

WrapperInv ==
    /\ WrapperTypes
    /\ \A c \in Callers : Fine(c)
    /\ ConnectionsOwned

--------------------------------------------------------------------------------
(* The state directory *)

Jobs == [pc : {"sealed", "sealing", "meta", "describing"}, version : Versions, blob : SealedBlobs]

Blobs == [version : Versions, key : Clusters, policy : PolicyIds]

TpmTypes ==
    /\ sealed \in [Versions -> SealedBlobs \union {None, Torn}]
    /\ meta \in [Versions -> Metadata \union {None, Torn}]
    /\ boot \in BootStates
    /\ prov \in [Provisioners -> {NotProvisioning} \union Jobs]
    /\ policies \in [Versions -> SUBSET PolicyIds]
    /\ blobs \subseteq Blobs

\* Versions that have a metadata file, readable or not.
Found == {v \in Versions : meta[v] # None}

\* The versions of all blobs, and of all rings that may still wrap one, except
\* those that were withdrawn.
Covers(S) ==
    /\ \A blob \in blobs : blob.version \in S \union withdrawn
    /\ \A c \in Callers : call[c].pc = "ring" => DOMAIN call[c].b.ring \subseteq S \union withdrawn

\* What a construction has listed and loaded so far.
Listed(c) ==
    /\ call[c].pc \in Making => DOMAIN call[c].b.ring \subseteq Found
    /\ call[c].pc = "list" =>
          /\ Covers(call[c].todo \union call[c].refs)
          /\ call[c].todo # {} /\ call[c].todo \subseteq Found /\ call[c].refs \subseteq Found
    /\ call[c].pc = "load" =>
          /\ Covers(call[c].todo \union DOMAIN call[c].b.ring)
          /\ call[c].todo # {} /\ call[c].todo \subseteq Found
    /\ call[c].pc = "store" /\ call[c].b.cfg.mode = "local-tpm" => Covers(DOMAIN call[c].b.ring)

CoverInv ==
    /\ Covers(Found)
    /\ backend # None => DOMAIN backend.ring \subseteq Found
    /\ backend # None /\ backend.cfg.mode = "local-tpm" => Covers(DOMAIN backend.ring)
    /\ \A c \in Callers : Listed(c)

\* With -cluster-id, every key is the cluster's.
OneKey(k) == ExpectedCluster = Cluster => k = Cluster

\* What a file or a ring says of a version: a status that is not usable was
\* edited, a policy id was provisioned.
Recorded(v, e) == (e.status \in Usable \/ v \in withdrawn) /\ e.policy \in policies[v]

Genuine(b) == b # None => \A v \in DOMAIN b.ring : OneKey(b.ring[v].key) /\ Recorded(v, b.ring[v])

FilesInv ==
    /\ \A v \in Versions : sealed[v] \in SealedBlobs => OneKey(sealed[v].key)
    /\ \A s \in Provisioners : prov[s] \in Jobs => OneKey(prov[s].blob.key)
    /\ \A v \in Versions : meta[v] \in Metadata => Recorded(v, meta[v])

KeysInv ==
    /\ FilesInv
    /\ \A blob \in blobs : OneKey(blob.key) /\ blob.policy \in policies[blob.version]
    /\ Genuine(backend)
    /\ \A c \in Callers : Genuine(call[c].b)

--------------------------------------------------------------------------------
(* The pod *)

PodInv ==
    /\ pod \in Pods /\ self \in Pods /\ deployment \in Deployments
    /\ uids \in 1..MaxUID /\ pod.uid <= uids
    /\ self.uid \in 1..uids /\ self.node \in Nodes
    /\ pod.uid = 0 => pod = NoPod
    /\ pod.uid = self.uid => pod = self

ClaimsInv ==
    /\ \A c \in Callers :
          /\ call[c].pc = "review" => call[c].claims \in {Token, NoClaims}
          /\ call[c].pc \in {"lookup", "answer"} => call[c].claims = Token
    /\ VerifiedNodeHostsCaller

PluginInv ==
    /\ WrapperInv
    /\ TpmTypes
    /\ CoverInv
    /\ KeysInv
    /\ PodInv
    /\ ClaimsInv

--------------------------------------------------------------------------------
(* Operators *)

\* A set of natural numbers that is not empty has a first element.
LEMMA FirstElement ==
    ASSUME NEW S, S \subseteq Nat, S # {}
    PROVE  First(S) \in S
<1>1. PICK R : R = OpToRel(<, Nat)
  BY Zenon
<1>2. IsWellFoundedOn(R, Nat)
  BY <1>1, NatLessThanWellFounded, Zenon
<1>3. PICK x \in S : \A y \in S : ~(<<y, x>> \in R)
  BY <1>2, WFMin, Zenon
<1>4. \A y \in S : x <= y
  <2> TAKE y \in S
  <2>1. x \in Nat /\ y \in Nat
    OBVIOUS
  <2>2. ~(y < x)
    BY <1>1, <1>3, <2>1, Zenon DEF OpToRel
  <2> QED
    BY <2>1, <2>2
<1> QED
  BY <1>3, <1>4, Zenon DEF First

\* The idle call and the empty ring have their types.
LEMMA IdleTypes ==
    /\ NoRing \in Rings /\ DOMAIN NoRing = {}
    /\ NoClaims \in Claims
    /\ Idle \in Calls /\ Idle.pc = "idle" /\ Idle.b = None
    /\ [Idle EXCEPT !.pc = "trace"] \in Calls /\ [Idle EXCEPT !.pc = "trace"].pc = "trace"
    /\ [Idle EXCEPT !.pc = "trace"].b = None
<1>1. DOMAIN NoRing = {}
  BY DEF NoRing
<1>2. NoRing \in [{} -> Entries]
  BY DEF NoRing
<1>3. NoRing \in Rings
  BY <1>2 DEF Rings
<1>4. NoClaims \in Claims
  BY WorkloadAssumption DEF NoClaims, Claims
<1>5. Idle \in Calls /\ Idle.pc = "idle" /\ Idle.b = None
  BY <1>4 DEF Idle, Calls, Pcs
<1>6. [Idle EXCEPT !.pc = "trace"] \in Calls
  BY <1>5, ZenonT(30) DEF Calls, Pcs
<1>7. [Idle EXCEPT !.pc = "trace"].pc = "trace" /\ [Idle EXCEPT !.pc = "trace"].b = None
  BY <1>5 DEF Calls
<1> QED
  BY <1>1, <1>3, <1>4, <1>5, <1>6, <1>7

\* None is not a backend, nor a configuration.
LEMMA NoneApart ==
    None \notin Backends /\ None \notin Configs /\ None \notin [id : Ids, cfg : Configs]
  BY PluginAssumption, Zenon

\* A backend has its fields, and its ring entries for versions.
LEMMA BackendFields ==
    ASSUME NEW b \in Backends
    PROVE  /\ b.id \in Ids \union {0} /\ b.cfg \in Configs /\ b.ring \in Rings
           /\ DOMAIN b.ring \subseteq Versions /\ b.ring \in [DOMAIN b.ring -> Entries]
<1>1. b.id \in Ids \union {0} /\ b.cfg \in Configs /\ b.ring \in Rings
  BY DEF Backends
<1>2. PICK S \in SUBSET Versions : b.ring \in [S -> Entries]
  BY <1>1 DEF Rings
<1> QED
  BY <1>1, <1>2

\* What a call's update leaves alone.
Others(c) == call' \in [Callers -> Calls] /\ \A d \in Callers : d # c => call'[d] = call[d]

\* A call that returns.
LEMMA ReturnEffect ==
    ASSUME call \in [Callers -> Calls], NEW c \in Callers, Return(c)
    PROVE  Others(c) /\ call'[c] = Idle
  BY IdleTypes DEF Return, Others

\* A call that has succeeded.
LEMMA TraceEffect ==
    ASSUME call \in [Callers -> Calls], NEW c \in Callers,
           call' = [call EXCEPT ![c] = [Idle EXCEPT !.pc = "trace"]]
    PROVE  Others(c) /\ call'[c].pc = "trace" /\ call'[c].b = None
  BY IdleTypes DEF Others

\* A call that moves on.
LEMMA GotoEffect ==
    ASSUME call \in [Callers -> Calls], NEW c \in Callers, NEW pc \in Pcs, Goto(c, pc)
    PROVE  /\ Others(c) /\ call'[c].pc = pc /\ call'[c].op = call[c].op /\ call'[c].b = call[c].b
           /\ call'[c].todo = call[c].todo /\ call'[c].refs = call[c].refs
           /\ call'[c].claims = call[c].claims /\ call'[c].node = call[c].node
<1>1. PICK h \in Calls : h = call[c]
  OBVIOUS
<1>2. [h EXCEPT !.pc = pc] \in Calls
  BY ZenonT(30) DEF Calls
<1>3. call' = [call EXCEPT ![c] = [h EXCEPT !.pc = pc]]
  BY <1>1 DEF Goto
<1>4. Others(c) /\ call'[c] = [h EXCEPT !.pc = pc]
  BY <1>2, <1>3 DEF Others
<1> QED
  BY <1>1, <1>4 DEF Calls

\* A call that moves on with a backend.
LEMMA BackendEffect ==
    ASSUME call \in [Callers -> Calls], NEW c \in Callers, NEW pc \in Pcs, NEW b \in Backends \union {None},
           call' = [call EXCEPT ![c].pc = pc, ![c].b = b]
    PROVE  /\ Others(c) /\ call'[c].pc = pc /\ call'[c].b = b /\ call'[c].op = call[c].op
           /\ call'[c].todo = call[c].todo /\ call'[c].refs = call[c].refs
           /\ call'[c].claims = call[c].claims /\ call'[c].node = call[c].node
<1>1. PICK h \in Calls : h = call[c]
  OBVIOUS
<1>2. [h EXCEPT !.pc = pc, !.b = b] \in Calls
  BY ZenonT(30) DEF Calls
<1>3. call' = [call EXCEPT ![c] = [h EXCEPT !.pc = pc, !.b = b]]
  BY <1>1, Zenon
<1>4. Others(c) /\ call'[c] = [h EXCEPT !.pc = pc, !.b = b]
  BY <1>2, <1>3, Zenon DEF Others
<1> QED
  BY <1>1, <1>4 DEF Calls

\* A call that starts.
LEMMA StartEffect ==
    ASSUME call \in [Callers -> Calls], NEW c \in Callers, Start(c), deployment \in Deployments
    PROVE  /\ Others(c) /\ call'[c].pc = "enter" /\ call[c].pc = "idle"
           /\ call'[c].b = call[c].b \/ call'[c].b.ring = NoRing
           /\ call'[c].op = "SetConfig" => call'[c].b \in Backends /\ ConfigValid(call'[c].b.cfg)
<1>1. PICK h \in Calls : h = call[c]
  OBVIOUS
<1>2. CASE \E op \in Ops \ {"SetConfig"} : call' = [call EXCEPT ![c].pc = "enter", ![c].op = op]
  <2>1. PICK op \in Ops \ {"SetConfig"} : call' = [call EXCEPT ![c].pc = "enter", ![c].op = op]
    BY <1>2, Zenon
  <2>2. [h EXCEPT !.pc = "enter", !.op = op] \in Calls
    BY ZenonT(30) DEF Calls, Pcs
  <2>3. call' = [call EXCEPT ![c] = [h EXCEPT !.pc = "enter", !.op = op]]
    BY <1>1, <2>1, Zenon
  <2>4. Others(c) /\ call'[c] = [h EXCEPT !.pc = "enter", !.op = op]
    BY <2>2, <2>3 DEF Others
  <2>5. call'[c].pc = "enter" /\ call'[c].op = op /\ call'[c].b = call[c].b
    BY <1>1, <2>4 DEF Calls
  <2> QED
    BY <2>4, <2>5, Zenon DEF Start
<1>3. CASE \E cfg \in deployment.configs :
              /\ ConfigValid(cfg)
              /\ call' = [call EXCEPT ![c].pc = "enter", ![c].op = "SetConfig",
                                      ![c].b = [id |-> 0, cfg |-> cfg, ring |-> NoRing]]
  <2>1. PICK cfg \in Configs :
              /\ ConfigValid(cfg)
              /\ call' = [call EXCEPT ![c].pc = "enter", ![c].op = "SetConfig",
                                      ![c].b = [id |-> 0, cfg |-> cfg, ring |-> NoRing]]
    BY <1>3, PluginAssumption, Zenon
  <2>2. PICK b : b = [id |-> 0, cfg |-> cfg, ring |-> NoRing]
    BY Zenon
  <2>3. b \in Backends /\ b.cfg = cfg /\ b.ring = NoRing
    BY <2>2, IdleTypes DEF Backends
  <2>4. [h EXCEPT !.pc = "enter", !.op = "SetConfig", !.b = b] \in Calls
    BY <2>3, ZenonT(30) DEF Calls, Pcs, Ops
  <2>5. call' = [call EXCEPT ![c] = [h EXCEPT !.pc = "enter", !.op = "SetConfig", !.b = b]]
    BY <1>1, <2>1, <2>2, Zenon
  <2>6. Others(c) /\ call'[c] = [h EXCEPT !.pc = "enter", !.op = "SetConfig", !.b = b]
    BY <2>4, <2>5 DEF Others
  <2>7. call'[c].pc = "enter" /\ call'[c].op = "SetConfig" /\ call'[c].b = b
    BY <2>6 DEF Calls
  <2>8. ConfigValid(call'[c].b.cfg) /\ call[c].pc = "idle"
    BY <2>1, <2>3, <2>7, Zenon DEF ConfigValid, Start
  <2> QED
    BY <2>3, <2>6, <2>7, <2>8
<1> QED
  BY <1>2, <1>3 DEF Start

\* A construction that moves on with what it has to read.
Reads(c, pc, T, R) == call' = [call EXCEPT ![c].pc = pc, ![c].todo = T, ![c].refs = R]

LEMMA TodoEffect ==
    ASSUME call \in [Callers -> Calls], NEW c \in Callers, NEW pc \in Pcs,
           NEW T \in SUBSET Versions, NEW R \in SUBSET Versions, Reads(c, pc, T, R)
    PROVE  /\ Others(c) /\ call'[c].pc = pc /\ call'[c].todo = T /\ call'[c].refs = R
           /\ call'[c].op = call[c].op /\ call'[c].b = call[c].b
<1>1. PICK h \in Calls : h = call[c]
  OBVIOUS
<1>2. [h EXCEPT !.pc = pc, !.todo = T, !.refs = R] \in Calls
  BY ZenonT(30) DEF Calls
<1>3. call' = [call EXCEPT ![c] = [h EXCEPT !.pc = pc, !.todo = T, !.refs = R]]
  BY <1>1, Zenon DEF Reads
<1>4. Others(c) /\ call'[c] = [h EXCEPT !.pc = pc, !.todo = T, !.refs = R]
  BY <1>2, <1>3 DEF Others
<1> QED
  BY <1>1, <1>4 DEF Calls

\* A construction that goes on to the next file.
GoesOn(c, T, R) == call' = [call EXCEPT ![c].todo = T, ![c].refs = R]

LEMMA NextEffect ==
    ASSUME call \in [Callers -> Calls], NEW c \in Callers, NEW T \in SUBSET Versions, NEW R \in SUBSET Versions,
           GoesOn(c, T, R)
    PROVE  /\ Others(c) /\ call'[c].pc = call[c].pc /\ call'[c].todo = T /\ call'[c].refs = R
           /\ call'[c].op = call[c].op /\ call'[c].b = call[c].b
<1>1. PICK h \in Calls : h = call[c]
  OBVIOUS
<1>2. [h EXCEPT !.todo = T, !.refs = R] \in Calls
  BY ZenonT(30) DEF Calls
<1>3. call' = [call EXCEPT ![c] = [h EXCEPT !.todo = T, !.refs = R]]
  BY <1>1, Zenon DEF GoesOn
<1>4. Others(c) /\ call'[c] = [h EXCEPT !.todo = T, !.refs = R]
  BY <1>2, <1>3, Zenon DEF Others
<1> QED
  BY <1>1, <1>4 DEF Calls

\* A construction that has loaded a version.
Holds(c, pc, T, b) == call' = [call EXCEPT ![c].pc = pc, ![c].todo = T, ![c].b = b]

LEMMA LoadEffect ==
    ASSUME call \in [Callers -> Calls], NEW c \in Callers, NEW pc \in Pcs,
           NEW T \in SUBSET Versions, NEW b \in Backends, Holds(c, pc, T, b)
    PROVE  /\ Others(c) /\ call'[c].pc = pc /\ call'[c].todo = T /\ call'[c].b = b /\ call'[c].op = call[c].op
<1>1. PICK h \in Calls : h = call[c]
  OBVIOUS
<1>2. [h EXCEPT !.pc = pc, !.todo = T, !.b = b] \in Calls
  BY ZenonT(30) DEF Calls
<1>3. call' = [call EXCEPT ![c] = [h EXCEPT !.pc = pc, !.todo = T, !.b = b]]
  BY <1>1, Zenon DEF Holds
<1>4. Others(c) /\ call'[c] = [h EXCEPT !.pc = pc, !.todo = T, !.b = b]
  BY <1>2, <1>3 DEF Others
<1> QED
  BY <1>1, <1>4 DEF Calls

\* A call that has sent its evidence.
LEMMA ClaimsEffect ==
    ASSUME call \in [Callers -> Calls], NEW c \in Callers, NEW pc \in Pcs, NEW x \in Claims,
           call' = [call EXCEPT ![c].pc = pc, ![c].claims = x]
    PROVE  Others(c) /\ call'[c].pc = pc /\ call'[c].claims = x /\ call'[c].b = call[c].b
<1>1. PICK h \in Calls : h = call[c]
  OBVIOUS
<1>2. [h EXCEPT !.pc = pc, !.claims = x] \in Calls
  BY ZenonT(30) DEF Calls
<1>3. call' = [call EXCEPT ![c] = [h EXCEPT !.pc = pc, !.claims = x]]
  BY <1>1, Zenon
<1>4. Others(c) /\ call'[c] = [h EXCEPT !.pc = pc, !.claims = x]
  BY <1>2, <1>3, Zenon DEF Others
<1> QED
  BY <1>1, <1>4 DEF Calls

\* A call whose node was verified.
LEMMA NodeEffect ==
    ASSUME call \in [Callers -> Calls], NEW c \in Callers, NEW pc \in Pcs, NEW n \in Nodes \union {Unscheduled},
           call' = [call EXCEPT ![c].pc = pc, ![c].node = n]
    PROVE  /\ Others(c) /\ call'[c].pc = pc /\ call'[c].node = n /\ call'[c].b = call[c].b
           /\ call'[c].claims = call[c].claims
<1>1. PICK h \in Calls : h = call[c]
  OBVIOUS
<1>2. [h EXCEPT !.pc = pc, !.node = n] \in Calls
  BY ZenonT(30) DEF Calls
<1>3. call' = [call EXCEPT ![c] = [h EXCEPT !.pc = pc, !.node = n]]
  BY <1>1, Zenon
<1>4. Others(c) /\ call'[c] = [h EXCEPT !.pc = pc, !.node = n]
  BY <1>2, <1>3, Zenon DEF Others
<1> QED
  BY <1>1, <1>4 DEF Calls

--------------------------------------------------------------------------------
(* Steps of the wrapper *)

\* A call that rests while another one moves.
LEMMA RestingCall ==
    ASSUME NEW d \in Callers, Fine(d), call'[d] = call[d],
           call[d].pc \in Locked => lock' = d,
           call[d].pc \in Making =>
              /\ backend' = None
              /\ \A e \in Callers : e # d /\ call'[e].pc \in Served => call'[e].b.id # call[d].b.id
              /\ call[d].b.id \in conns' <=> call[d].b.id \in conns,
           call[d].pc = "close" /\ backend' # None => backend'.id # call[d].b.id
    PROVE  Fine(d)'
<1>1. Locking(d)'
  BY DEF Fine, Locking, ConfigValid
<1>2. Made(d)'
  BY DEF Fine, Made, ConfigValid
<1>3. Holding(d)'
  BY DEF Fine, Holding, Sound, ConfigValid
<1> QED
  BY <1>1, <1>2, <1>3 DEF Fine

\* Only the holder of the lock is where the lock is held.
LEMMA OneHolder ==
    ASSUME WrapperInv, NEW c \in Callers, NEW d \in Callers, d # c, lock = c \/ lock = Free
    PROVE  call[d].pc \notin Locked /\ call[d].pc \notin Making
  BY PluginAssumption, Zenon DEF WrapperInv, Fine, Locking, Locked, Making

\* A step of a call that does not hold the lock and leaves the wrapper alone.
LEMMA OutsideStep ==
    ASSUME WrapperInv, NEW c \in Callers, Others(c), UNCHANGED <<config, backend, lock, conns>>,
           call[c].pc \notin {"status", "store", "close"},
           call'[c].pc \notin Locked \union {"close"},
           call'[c].pc = "enter" /\ call'[c].op = "SetConfig" =>
              call'[c].b \in Backends /\ ConfigValid(call'[c].b.cfg),
           call'[c].pc \in Serving =>
              \/ call[c].pc \in Serving /\ call'[c].b = call[c].b /\ call'[c].pc # "ring"
              \/ /\ lock = Free /\ backend # None /\ call'[c].b = backend
                 /\ call'[c].pc = "ring" => backend.cfg.mode = "local-tpm"
    PROVE  WrapperInv'
<1>1. WrapperTypes'
  BY DEF WrapperInv, WrapperTypes, Others, Sound, ConfigValid
<1>2. Fine(c)'
  <2>1. Locking(c)'
    BY DEF Locking, Locked
  <2>2. Made(c)'
    BY DEF Made, Making, Locked
  <2>3. Holding(c)'
    <3>1. call'[c].pc \in Serving => Sound(call'[c].b)
      BY DEF WrapperInv, WrapperTypes, Fine, Holding, Served
    <3> QED
      BY <3>1 DEF Holding, Served, Sound, ConfigValid, Serving
  <2> QED
    BY <2>1, <2>2, <2>3 DEF Fine
<1>3. ASSUME NEW d \in Callers, d # c
      PROVE  Fine(d)'
  <2>1. call'[d] = call[d] /\ Fine(d)
    BY <1>3 DEF Others, WrapperInv
  <2>2. call[d].pc \in Making => lock = d /\ lock # Free /\ backend = None
    BY <2>1, PluginAssumption, Zenon DEF Fine, Made, Locking, Locked, Making
  <2>3. ASSUME call[d].pc \in Making, NEW e \in Callers, e # d, call'[e].pc \in Served
        PROVE  call'[e].b.id # call[d].b.id
    <3>1. CASE e # c
      BY <2>1, <2>3, <3>1 DEF Others, Fine, Made
    <3>2. CASE e = c
      <4>1. call[c].pc \in Served /\ call'[c].b = call[c].b
        BY <2>2, <2>3, <3>2 DEF Served
      <4> QED
        BY <1>3, <2>1, <2>3, <3>2, <4>1 DEF Fine, Made
    <3> QED
      BY <3>1, <3>2
  <2>4. call[d].pc \in Locked => lock' = d
    BY <2>1 DEF Fine, Locking
  <2>5. call[d].pc = "close" /\ backend' # None => backend'.id # call[d].b.id
    BY <2>1 DEF Fine, Holding
  <2> QED
    BY <2>1, <2>2, <2>3, <2>4, <2>5, RestingCall
<1>4. ConnectionsOwned'
  BY DEF WrapperInv, ConnectionsOwned, Others
<1> QED
  BY <1>1, <1>2, <1>3, <1>4 DEF WrapperInv

\* A step of the call that holds the lock and builds a backend.
LEMMA BuildStep ==
    ASSUME WrapperInv, NEW c \in Callers, Others(c), UNCHANGED <<config, backend, lock>>,
           call[c].pc \in Locked, call'[c].pc \in Making, Made(c)',
           conns' \subseteq Ids, conns \subseteq conns',
           \A i \in conns' \ conns : i = call'[c].b.id /\ call'[c].pc = "status",
           call[c].pc \in {"status", "store"} =>
              call'[c].pc \in {"status", "store"} /\ call'[c].b.id = call[c].b.id
    PROVE  WrapperInv'
<1>0. lock = c
  BY DEF WrapperInv, Fine, Locking
<1>1. WrapperTypes'
  BY DEF WrapperInv, WrapperTypes, Others, Sound, ConfigValid
<1>2. Fine(c)'
  <2>1. Locking(c)' /\ Holding(c)'
    BY <1>0 DEF Locking, Holding, Making, Locked, Served, Serving
  <2> QED
    BY <2>1 DEF Fine
<1>3. ASSUME NEW d \in Callers, d # c
      PROVE  Fine(d)'
  <2>1. call'[d] = call[d] /\ Fine(d) /\ call[d].pc \notin Locked /\ call[d].pc \notin Making
    BY <1>0, <1>3, OneHolder DEF Others, WrapperInv
  <2>2. call[d].pc = "close" /\ backend' # None => backend'.id # call[d].b.id
    BY <2>1 DEF Fine, Holding
  <2> QED
    BY <2>1, <2>2, RestingCall
<1>4. ConnectionsOwned'
  <2>1. ASSUME NEW i \in conns'
        PROVE  \/ backend' # None /\ backend'.id = i
               \/ \E e \in Callers : call'[e].pc \in {"status", "store", "close"} /\ call'[e].b.id = i
    <3>1. CASE i \notin conns
      BY <2>1, <3>1
    <3>2. CASE backend # None /\ backend.id = i
      BY <3>2
    <3>3. ASSUME NEW e \in Callers, call[e].pc \in {"status", "store", "close"}, call[e].b.id = i
          PROVE  \E f \in Callers : call'[f].pc \in {"status", "store", "close"} /\ call'[f].b.id = i
      <4>1. CASE e # c
        BY <3>3, <4>1 DEF Others
      <4>2. CASE e = c
        BY <3>3, <4>2 DEF Locked
      <4> QED
        BY <4>1, <4>2
    <3> QED
      BY <2>1, <3>1, <3>2, <3>3 DEF WrapperInv, ConnectionsOwned
  <2>2. backend' # None /\ backend'.cfg.mode = "broker" => backend'.id \in conns'
    BY DEF WrapperInv, ConnectionsOwned
  <2> QED
    BY <2>1, <2>2 DEF ConnectionsOwned
<1> QED
  BY <1>1, <1>2, <1>3, <1>4 DEF WrapperInv

\* The call that holds the lock returns without a backend.
LEMMA LeaveStep ==
    ASSUME WrapperInv, NEW c \in Callers, call[c].pc \in Locked, Leave(c), UNCHANGED <<config, backend>>,
           conns' \subseteq conns, backend # None => conns' = conns,
           call[c].pc \in {"status", "store"} => call[c].b.id \notin conns'
    PROVE  WrapperInv'
<1>0. lock = c /\ lock' = Free /\ Others(c) /\ call'[c] = Idle
  BY ReturnEffect DEF WrapperInv, WrapperTypes, Fine, Locking, Leave
<1>1. WrapperTypes'
  BY <1>0 DEF WrapperInv, WrapperTypes, Others, Sound, ConfigValid
<1>2. Fine(c)'
  BY <1>0, IdleTypes DEF Fine, Locking, Made, Holding, Locked, Making, Served, Serving
<1>3. ASSUME NEW d \in Callers, d # c
      PROVE  Fine(d)'
  <2>1. call'[d] = call[d] /\ Fine(d) /\ call[d].pc \notin Locked /\ call[d].pc \notin Making
    BY <1>0, <1>3, OneHolder DEF Others, WrapperInv
  <2>2. call[d].pc = "close" /\ backend' # None => backend'.id # call[d].b.id
    BY <2>1 DEF Fine, Holding
  <2> QED
    BY <2>1, <2>2, RestingCall
<1>4. ConnectionsOwned'
  <2>1. ASSUME NEW i \in conns'
        PROVE  \/ backend' # None /\ backend'.id = i
               \/ \E e \in Callers : call'[e].pc \in {"status", "store", "close"} /\ call'[e].b.id = i
    <3>1. CASE backend # None /\ backend.id = i
      BY <3>1
    <3>2. ASSUME NEW e \in Callers, call[e].pc \in {"status", "store", "close"}, call[e].b.id = i
          PROVE  \E f \in Callers : call'[f].pc \in {"status", "store", "close"} /\ call'[f].b.id = i
      <4>1. e # c
        BY <2>1, <3>2 DEF Locked
      <4> QED
        BY <1>0, <3>2, <4>1 DEF Others
    <3> QED
      BY <2>1, <3>1, <3>2 DEF WrapperInv, ConnectionsOwned
  <2>2. backend' # None /\ backend'.cfg.mode = "broker" => backend'.id \in conns'
    BY DEF WrapperInv, ConnectionsOwned
  <2> QED
    BY <2>1, <2>2 DEF ConnectionsOwned
<1> QED
  BY <1>1, <1>2, <1>3, <1>4 DEF WrapperInv

\* The lock is taken.
LEMMA AcquireStep ==
    ASSUME WrapperInv, NEW c \in Callers, AcquireLock(c)
    PROVE  WrapperInv'
<1>0. /\ Others(c) /\ call'[c].pc = "check" /\ call'[c].op = call[c].op /\ call'[c].b = call[c].b
      /\ call[c].pc = "enter" /\ call[c].op \in {"SetConfig", "Init"}
      /\ lock = Free /\ lock' = c /\ UNCHANGED <<config, backend, conns>>
  BY GotoEffect DEF WrapperInv, WrapperTypes, AcquireLock, Pcs
<1>1. WrapperTypes'
  BY <1>0 DEF WrapperInv, WrapperTypes, Others, Sound, ConfigValid
<1>2. Fine(c)'
  <2>1. Locking(c)'
    BY <1>0 DEF WrapperInv, Fine, Locking, ConfigValid
  <2>2. Made(c)' /\ Holding(c)'
    BY <1>0 DEF Made, Holding, Making, Served, Serving
  <2> QED
    BY <2>1, <2>2 DEF Fine
<1>3. ASSUME NEW d \in Callers, d # c
      PROVE  Fine(d)'
  <2>1. call'[d] = call[d] /\ Fine(d) /\ call[d].pc \notin Locked /\ call[d].pc \notin Making
    BY <1>0, <1>3, OneHolder, Zenon DEF Others, WrapperInv
  <2>2. call[d].pc = "close" /\ backend' # None => backend'.id # call[d].b.id
    BY <1>0, <2>1, Zenon DEF Fine, Holding
  <2> QED
    BY <2>1, <2>2, RestingCall
<1>4. ConnectionsOwned'
  BY <1>0 DEF WrapperInv, ConnectionsOwned, Others
<1> QED
  BY <1>1, <1>2, <1>3, <1>4, Zenon DEF WrapperInv

\* A backend that was built comes into force.
LEMMA StoreStep ==
    ASSUME WrapperInv, NEW c \in Callers, StoreBackend(c)
    PROVE  WrapperInv'
<1> DEFINE old == call[c].b
<1>0. /\ call[c].pc = "store" /\ call[c].pc \in Locked /\ lock = c /\ conns' = conns
      /\ call \in [Callers -> Calls] /\ Made(c) /\ backend = None
  BY DEF WrapperInv, WrapperTypes, StoreBackend, Locked, Making, Fine, Locking, Made
<1>m. /\ old \in Backends /\ old.id \in Ids /\ ConfigValid(old.cfg)
      /\ \A d \in Callers : d # c /\ call[d].pc \in Served => call[d].b.id # old.id
      /\ old.id \in conns <=> old.cfg.mode = "broker"
  BY <1>0 DEF Made, Making
<1>a. CASE ~RingAccepted(old) /\ Leave(c) /\ UNCHANGED <<config, backend>>
  <2>1. old.id \notin conns
    BY <1>a, <1>m DEF RingAccepted
  <2> QED
    BY <1>0, <1>a, <2>1, LeaveStep
<1>b. CASE /\ RingAccepted(old) /\ backend' = old /\ config' = old.cfg
           /\ IF call[c].op = "SetConfig"
              THEN call' = [call EXCEPT ![c].pc = "name", ![c].b = None] /\ UNCHANGED lock
              ELSE Leave(c)
  <2>1. /\ Others(c) /\ call'[c].b = None
        /\ \/ call'[c].pc = "name" /\ lock' = c
           \/ call'[c].pc = "idle" /\ lock' = Free
    <3>1. CASE call[c].op = "SetConfig"
      BY <1>0, <1>b, <3>1, BackendEffect, Zenon DEF Pcs
    <3>2. CASE call[c].op # "SetConfig"
      BY <1>0, <1>b, <3>2, ReturnEffect, IdleTypes DEF Leave
    <3> QED
      BY <3>1, <3>2, Zenon
  <2>2. Sound(old) /\ old.cfg \in Configs /\ old # None
    BY <1>b, <1>m, BackendFields, NoneApart DEF Sound, RingAccepted
  <2>3. WrapperTypes'
    BY <1>0, <1>b, <1>m, <2>1, <2>2, Zenon DEF WrapperInv, WrapperTypes, Others, Sound, ConfigValid
  <2>4. Fine(c)'
    BY <2>1 DEF Fine, Locking, Made, Holding, Locked, Making, Served, Serving
  <2>5. ASSUME NEW d \in Callers, d # c
        PROVE  Fine(d)'
    <3>1. call'[d] = call[d] /\ Fine(d) /\ call[d].pc \notin Locked /\ call[d].pc \notin Making
      BY <1>0, <2>1, <2>5, OneHolder DEF Others, WrapperInv
    <3>2. call[d].pc = "close" => backend'.id # call[d].b.id
      BY <1>b, <1>m, <2>5 DEF Served
    <3> QED
      BY <3>1, <3>2, RestingCall
  <2>6. ConnectionsOwned'
    <3>1. ASSUME NEW i \in conns'
          PROVE  \/ backend' # None /\ backend'.id = i
                 \/ \E e \in Callers : call'[e].pc \in {"status", "store", "close"} /\ call'[e].b.id = i
      <4>1. PICK e \in Callers : call[e].pc \in {"status", "store", "close"} /\ call[e].b.id = i
        BY <1>0, <3>1 DEF WrapperInv, ConnectionsOwned
      <4>2. CASE e = c
        BY <1>b, <2>2, <4>1, <4>2, Zenon
      <4>3. CASE e # c
        BY <2>1, <4>1, <4>3 DEF Others
      <4> QED
        BY <4>2, <4>3
    <3>2. backend'.cfg.mode = "broker" => backend'.id \in conns'
      BY <1>0, <1>b, <1>m
    <3> QED
      BY <3>1, <3>2 DEF ConnectionsOwned
  <2> QED
    BY <2>3, <2>4, <2>5, <2>6 DEF WrapperInv
<1> QED
  BY <1>a, <1>b DEF StoreBackend

\* Finalize takes the backend out of force.
LEMMA FinalizeStep ==
    ASSUME WrapperInv, NEW c \in Callers, Finalize(c)
    PROVE  WrapperInv'
<1>0. /\ call[c].pc = "enter" /\ lock = Free /\ backend' = None
      /\ call \in [Callers -> Calls] /\ UNCHANGED <<config, lock, conns>>
  BY DEF WrapperInv, WrapperTypes, Finalize
<1>1. CASE backend = None
  <2>1. Others(c) /\ call'[c] = Idle /\ call'[c].pc = "idle"
    BY <1>0, <1>1, ReturnEffect, IdleTypes DEF Finalize
  <2> QED
    BY <1>0, <1>1, <2>1, OutsideStep DEF Locked, Serving
<1>2. CASE backend # None
  <2>0. Sound(backend) /\ backend \in Backends
    BY <1>2, Zenon DEF WrapperInv, WrapperTypes, Sound
  <2>1. Others(c) /\ call'[c].pc = "close" /\ call'[c].b = backend
    BY <1>0, <1>2, <2>0, BackendEffect, Zenon DEF Finalize, Pcs
  <2>2. WrapperTypes'
    BY <1>0, <2>1 DEF WrapperInv, WrapperTypes, Others, ConfigValid
  <2>3. Fine(c)'
    BY <1>0, <2>0, <2>1 DEF Fine, Locking, Made, Holding, Locked, Making, Served, Serving, Sound, ConfigValid
  <2>4. ASSUME NEW d \in Callers, d # c
        PROVE  Fine(d)'
    <3>1. call'[d] = call[d] /\ Fine(d) /\ call[d].pc \notin Locked /\ call[d].pc \notin Making
      BY <1>0, <2>1, <2>4, OneHolder DEF Others, WrapperInv
    <3> QED
      BY <1>0, <3>1, RestingCall
  <2>5. ConnectionsOwned'
    <3>1. ASSUME NEW i \in conns'
          PROVE  \E e \in Callers : call'[e].pc \in {"status", "store", "close"} /\ call'[e].b.id = i
      <4>1. CASE backend.id = i
        BY <2>1, <4>1
      <4>2. CASE backend.id # i
        <5>1. PICK e \in Callers : call[e].pc \in {"status", "store", "close"} /\ call[e].b.id = i
          BY <1>0, <3>1, <4>2 DEF WrapperInv, ConnectionsOwned
        <5> QED
          BY <1>0, <2>1, <5>1 DEF Others
      <4> QED
        BY <4>1, <4>2
    <3> QED
      BY <1>0, <3>1 DEF ConnectionsOwned
  <2> QED
    BY <2>2, <2>3, <2>4, <2>5 DEF WrapperInv
<1> QED
  BY <1>1, <1>2

\* The backend that was taken out of force is closed.
LEMMA CloseStep ==
    ASSUME WrapperInv, NEW c \in Callers, CloseBackend(c)
    PROVE  WrapperInv'
<1>0. /\ call[c].pc = "close" /\ call[c].pc \in Served /\ conns' = conns \ {call[c].b.id}
      /\ call \in [Callers -> Calls] /\ UNCHANGED <<config, backend, lock>> /\ Fine(c)
  BY DEF WrapperInv, WrapperTypes, CloseBackend, Served
<1>1. Others(c) /\ call'[c] = Idle /\ call'[c].pc = "idle"
  BY <1>0, ReturnEffect, IdleTypes DEF CloseBackend
<1>2. WrapperTypes'
  BY <1>0, <1>1 DEF WrapperInv, WrapperTypes, Others, Sound, ConfigValid
<1>3. Fine(c)'
  BY <1>1 DEF Fine, Locking, Made, Holding, Locked, Making, Served, Serving
<1>4. ASSUME NEW d \in Callers, d # c
      PROVE  Fine(d)'
  <2>1. call'[d] = call[d] /\ Fine(d) /\ Locking(d) /\ Made(d) /\ Holding(d)
    BY <1>1, <1>4 DEF Others, WrapperInv, Fine
  <2>2. call[d].pc \in Making =>
            /\ backend' = None
            /\ \A e \in Callers : e # d /\ call'[e].pc \in Served => call'[e].b.id # call[d].b.id
            /\ call[d].b.id \in conns' <=> call[d].b.id \in conns
    <3> SUFFICES ASSUME call[d].pc \in Making
                 PROVE  /\ backend' = None
                        /\ \A e \in Callers : e # d /\ call'[e].pc \in Served => call'[e].b.id # call[d].b.id
                        /\ call[d].b.id \in conns' <=> call[d].b.id \in conns
      OBVIOUS
    <3>1. backend = None /\ \A e \in Callers : e # d /\ call[e].pc \in Served => call[e].b.id # call[d].b.id
      BY <2>1 DEF Made
    <3>2. "idle" \notin Served
      BY DEF Served, Serving
    <3> QED
      BY <1>0, <1>1, <1>4, <3>1, <3>2 DEF Others
  <2>3. call[d].pc \in Locked => lock' = d
    BY <1>0, <2>1 DEF Locking
  <2>4. call[d].pc = "close" /\ backend' # None => backend'.id # call[d].b.id
    BY <1>0, <2>1 DEF Holding
  <2> QED
    BY <2>1, <2>2, <2>3, <2>4, RestingCall
<1>5. ConnectionsOwned'
  <2>1. ASSUME NEW i \in conns', ~(backend' # None /\ backend'.id = i)
        PROVE  \E e \in Callers : call'[e].pc \in {"status", "store", "close"} /\ call'[e].b.id = i
    <3>1. PICK e \in Callers : call[e].pc \in {"status", "store", "close"} /\ call[e].b.id = i
      BY <1>0, <2>1, Zenon DEF WrapperInv, ConnectionsOwned
    <3> QED
      BY <1>0, <1>1, <2>1, <3>1, Zenon DEF Others
  <2>2. backend' # None /\ backend'.cfg.mode = "broker" => backend'.id \in conns'
    BY <1>0 DEF WrapperInv, ConnectionsOwned, Fine, Holding
  <2> QED
    BY <2>1, <2>2 DEF ConnectionsOwned
<1> QED
  BY <1>2, <1>3, <1>4, <1>5 DEF WrapperInv

\* A process that starts again has nothing.
LEMMA LostStep ==
    ASSUME ProcessLost
    PROVE  WrapperInv' /\ \A c \in Callers : call'[c] = Idle
<1>1. \A c \in Callers : call'[c] = Idle /\ call'[c].pc = "idle"
  BY IdleTypes DEF ProcessLost
<1>2. WrapperTypes'
  BY <1>1, IdleTypes DEF ProcessLost, WrapperTypes
<1>3. ASSUME NEW c \in Callers
      PROVE  Fine(c)'
  BY <1>1 DEF Fine, Locking, Made, Holding, Locked, Making, Served, Serving
<1>4. ConnectionsOwned'
  BY DEF ProcessLost, ConnectionsOwned
<1> QED
  BY <1>1, <1>2, <1>3, <1>4 DEF WrapperInv

\* While no backend is in force, the calls hold all the connections, so there
\* is an identity that nobody uses.
LEMMA FreshId ==
    ASSUME WrapperInv, backend = None
    PROVE  First(Ids \ IdsInUse) \in Ids \ IdsInUse
<1> DEFINE f == [c \in Callers |-> call[c].b.id]
           S == {call[c].b.id : c \in Callers}
<1>1. IdsInUse \subseteq S
  <2>1. conns \subseteq S
    BY DEF WrapperInv, ConnectionsOwned
  <2>2. \A b \in ({backend} \union {call[c].b : c \in Callers}) \ {None} : b.id \in S
    OBVIOUS
  <2> QED
    BY <2>1, <2>2 DEF IdsInUse
<1>2. IsFiniteSet(S) /\ Cardinality(S) <= Cardinality(Callers)
  <2>1. f \in [Callers -> S] /\ \A i \in S : \E c \in Callers : f[c] = i
    OBVIOUS
  <2>2. f \in Surjection(Callers, S)
    BY <2>1 DEF Surjection
  <2>3. IsFiniteSet(Callers)
    BY PluginAssumption, Zenon
  <2> QED
    BY <2>2, <2>3, FS_Surjection, Zenon
<1>3. Cardinality(Callers) \in Nat /\ Cardinality(S) \in Nat
  BY <1>2, FS_CardinalityType, PluginAssumption, Zenon
<1>4. Cardinality(Ids) = 2 * Cardinality(Callers) + 1
  BY <1>3, FS_Interval DEF Ids
<1>5. ~(Ids \subseteq S)
  <2> SUFFICES ASSUME Ids \subseteq S PROVE FALSE
    OBVIOUS
  <2>1. Cardinality(Ids) <= Cardinality(S)
    BY <1>2, FS_Subset
  <2> QED
    BY <1>2, <1>3, <1>4, <2>1
<1>6. Ids \ IdsInUse # {} /\ Ids \ IdsInUse \subseteq Nat
  BY <1>1, <1>3, <1>5 DEF Ids
<1> QED
  BY <1>6, FirstElement

--------------------------------------------------------------------------------
(* Steps of a call *)

\* What a step of one call may do to the rings, the keys and the claims.
LEMMA CallStep ==
    ASSUME PluginInv, NEW c \in Callers, WrapperInv', Others(c), UNCHANGED <<tpmVars, workloadVars>>,
           blobs' \subseteq Blobs,
           \A blob \in blobs' : blob \in blobs \/
              /\ call[c].pc = "ring" /\ blob.version \in DOMAIN call[c].b.ring
              /\ OneKey(blob.key) /\ blob.policy \in policies[blob.version],
           call'[c].pc # "ring",
           Listed(c)',
           \/ backend' \in {backend, None}
           \/ /\ backend' = call[c].b
              /\ DOMAIN backend'.ring \subseteq Found
              /\ backend'.cfg.mode = "local-tpm" => Covers(DOMAIN backend'.ring),
           \/ call'[c].b \in {call[c].b, backend, None}
           \/ Genuine(call'[c].b),
           call'[c].pc = "review" => call'[c].claims \in {Token, NoClaims},
           call'[c].pc \in {"lookup", "answer"} => call'[c].claims = Token,
           call'[c].pc = "answer" =>
              call'[c].node = self.node \/ (call'[c].node = Unscheduled /\ ~deployment.binding)
    PROVE  PluginInv'
<1>1. TpmTypes'
  BY DEF PluginInv, TpmTypes, tpmVars, historyVars
<1>2. Found' = Found
  BY Zenon DEF Found, tpmVars
<1>3. ASSUME NEW S, Covers(S)
      PROVE  Covers(S)'
  BY <1>3, Zenon DEF Covers, Others, tpmVars, historyVars
<1>4. CoverInv'
  <2>1. Covers(Found)'
    <3>1. PICK F : F = Found
      BY Zenon
    <3>2. Covers(F)'
      BY <1>3, <3>1, Zenon DEF PluginInv, CoverInv
    <3> QED
      BY <1>2, <3>1, <3>2, Zenon DEF Covers
  <2>2. backend' # None => DOMAIN backend'.ring \subseteq Found'
    BY <1>2, Zenon DEF PluginInv, CoverInv
  <2>3. (backend # None /\ backend.cfg.mode = "local-tpm" => Covers(DOMAIN backend.ring))'
    <3> SUFFICES ASSUME backend' # None, backend'.cfg.mode = "local-tpm"
                 PROVE  Covers(DOMAIN backend.ring)'
      BY Zenon
    <3>1. PICK D : D = DOMAIN backend'.ring
      BY Zenon
    <3>2. Covers(D)
      BY <3>1, Zenon DEF PluginInv, CoverInv, Covers
    <3>3. Covers(D)'
      BY <1>3, <3>2, Zenon
    <3> QED
      BY <3>1, <3>3, Zenon DEF Covers
  <2>4. ASSUME NEW d \in Callers, d # c
        PROVE  Listed(d)'
    <3>1. PICK h : h = call[d]
      BY Zenon
    <3>2. Listed(d) /\ call'[d] = h
      BY <2>4, <3>1, Zenon DEF PluginInv, CoverInv, Others
    <3>3. /\ h.pc = "list" => Covers(h.todo \union h.refs)'
          /\ h.pc = "load" => Covers(h.todo \union DOMAIN h.b.ring)'
          /\ h.pc = "store" /\ h.b.cfg.mode = "local-tpm" => Covers(DOMAIN h.b.ring)'
      <4>1. h.pc = "list" => Covers(h.todo \union h.refs)
        BY <3>1, <3>2, Zenon DEF Listed, Covers
      <4>2. h.pc = "load" => Covers(h.todo \union DOMAIN h.b.ring)
        BY <3>1, <3>2, Zenon DEF Listed, Covers
      <4>3. h.pc = "store" /\ h.b.cfg.mode = "local-tpm" => Covers(DOMAIN h.b.ring)
        BY <3>1, <3>2, Zenon DEF Listed, Covers
      <4> QED
        BY <1>3, <4>1, <4>2, <4>3, Zenon
    <3> QED
      BY <1>2, <3>1, <3>2, <3>3, Zenon DEF Listed, Covers
  <2> QED
    BY <2>1, <2>2, <2>3, <2>4, Zenon DEF CoverInv
<1>5. KeysInv'
  <2>0. UNCHANGED <<sealed, meta, prov, policies, withdrawn>>
    BY Zenon DEF tpmVars, historyVars
  <2>1. KeysInv
    BY Zenon DEF PluginInv
  <2>2. FilesInv'
    BY <2>0, <2>1, Zenon DEF KeysInv, FilesInv, OneKey, Recorded
  <2>3. \A blob \in blobs' : OneKey(blob.key) /\ blob.policy \in policies'[blob.version]
    BY <2>0, <2>1, Zenon DEF KeysInv
  <2>4. ASSUME NEW b, Genuine(b)
        PROVE  Genuine(b)'
    BY <2>0, <2>4, Zenon DEF Genuine, OneKey, Recorded
  <2>5. Genuine(backend)'
    <3>1. PICK b : b = backend'
      BY Zenon
    <3>2. b \in {backend, None, call[c].b}
      BY <3>1
    <3>3. Genuine(backend) /\ Genuine(call[c].b) /\ Genuine(None)
      BY <2>1, Zenon DEF KeysInv, Genuine
    <3>4. Genuine(b)
      BY <3>2, <3>3, Zenon
    <3> QED
      BY <2>4, <3>1, <3>4, Zenon DEF Genuine
  <2>6. ASSUME NEW d \in Callers PROVE Genuine(call[d].b)'
    <3>1. PICK b : b = call'[d].b
      BY Zenon
    <3>2. Genuine(b)
      BY <2>1, <3>1, Zenon DEF KeysInv, Genuine, Others
    <3> QED
      BY <2>4, <3>1, <3>2, Zenon DEF Genuine
  <2> QED
    BY <2>2, <2>3, <2>5, <2>6, Zenon DEF KeysInv, OneKey
<1>6. PodInv'
  BY Zenon DEF PluginInv, PodInv, workloadVars
<1>7. ClaimsInv'
  BY Zenon DEF PluginInv, ClaimsInv, VerifiedNodeHostsCaller, Token, workloadVars, Others
<1> QED
  BY <1>1, <1>4, <1>5, <1>6, <1>7, Zenon DEF PluginInv

\* A step that builds nothing and brings no claims.
LEMMA QuietStep ==
    ASSUME PluginInv, NEW c \in Callers, WrapperInv', Others(c), UNCHANGED Environment,
           call'[c].pc \notin Making \union {"ring", "review", "lookup", "answer"},
           backend' \in {backend, None},
           call'[c].b \in {call[c].b, backend, None} \/ call'[c].b.ring = NoRing
    PROVE  PluginInv'
<1>1. Listed(c)'
  BY DEF Listed, Making
<1>2. call'[c].b.ring = NoRing => Genuine(call'[c].b)
  BY IdleTypes, Zenon DEF Genuine
<1>3. blobs' = blobs /\ UNCHANGED <<tpmVars, workloadVars>> /\ blobs' \subseteq Blobs
  BY Zenon DEF Environment, PluginInv, TpmTypes
<1> QED
  BY <1>1, <1>2, <1>3, CallStep, Zenon

\* A call that holds the lock and returns without a backend.
LEMMA LeaveKeeps ==
    ASSUME PluginInv, NEW c \in Callers, call[c].pc \in Locked, Leave(c), UNCHANGED <<config, backend, Environment>>,
           conns' \subseteq conns, backend # None => conns' = conns,
           call[c].pc \in {"status", "store"} => call[c].b.id \notin conns'
    PROVE  PluginInv'
<1>1. WrapperInv'
  BY LeaveStep DEF PluginInv
<1>2. Others(c) /\ call'[c].pc = "idle" /\ call'[c].b = None
  BY ReturnEffect, IdleTypes DEF Leave, PluginInv, WrapperInv, WrapperTypes
<1> QED
  BY <1>1, <1>2, QuietStep DEF Making

\* A step of a call that does not hold the lock, changes nothing but the call
\* and brings no claims.
LEMMA OutsideKeeps ==
    ASSUME PluginInv, NEW c \in Callers, Others(c), UNCHANGED <<config, backend, lock, conns, Environment>>,
           call[c].pc \notin {"status", "store", "close"},
           call'[c].pc \in {"idle", "enter", "trace"} \/
              (call[c].pc = "challenge" /\ call'[c].pc = "evidence" /\ call'[c].b = call[c].b),
           call'[c].pc = "enter" /\ call'[c].op = "SetConfig" =>
              call'[c].b \in Backends /\ ConfigValid(call'[c].b.cfg),
           call'[c].b \in {call[c].b, None} \/ call'[c].b.ring = NoRing
    PROVE  PluginInv'
<1>1. WrapperInv'
  BY OutsideStep DEF PluginInv, Locked, Serving
<1> QED
  BY <1>1, QuietStep, Zenon DEF Making

\* SetConfig and Init find the wrapper as it is and start to build.
LEMMA CheckKeeps ==
    ASSUME PluginInv, NEW c \in Callers, Check(c)
    PROVE  PluginInv'
<1>0. /\ call[c].pc = "check" /\ call[c].pc \in Locked /\ UNCHANGED <<config, backend, conns, Environment>>
      /\ WrapperInv /\ WrapperTypes /\ Locking(c) /\ call \in [Callers -> Calls]
      /\ \A d \in Callers : Fine(d)
  BY DEF Check, Locked, PluginInv, WrapperInv, WrapperTypes, Fine
<1>1. CASE Refused(c) /\ Leave(c)
  BY <1>0, <1>1, LeaveKeeps, Zenon
<1>2. CASE ~Refused(c) /\ Build(c) /\ UNCHANGED lock
  <2>1. backend = None /\ (call[c].op = "Init" => config # None)
    BY <1>2 DEF Refused
  <2>2. PICK b : b = Building(c)
    OBVIOUS
  <2>3. b.cfg \in Configs /\ ConfigValid(b.cfg)
    <3>1. CASE call[c].op = "Init"
      <4>1. b.cfg = config
        BY <2>2, <3>1 DEF Building
      <4> QED
        BY <1>0, <2>1, <3>1, <4>1, Zenon DEF WrapperTypes, ConfigValid
    <3>2. CASE call[c].op # "Init"
      <4>1. call[c].op = "SetConfig" /\ call[c].b \in Backends /\ ConfigValid(call[c].b.cfg)
        BY <1>0, <3>2 DEF Locking
      <4>2. b.cfg = call[c].b.cfg
        BY <2>2, <3>2 DEF Building
      <4> QED
        BY <4>1, <4>2, BackendFields DEF ConfigValid
    <3> QED
      BY <3>1, <3>2, Zenon
  <2>4. b.id = First(Ids \ IdsInUse) /\ b.ring = NoRing /\ b = [id |-> b.id, cfg |-> b.cfg, ring |-> b.ring]
    BY <2>2 DEF Building
  <2>5. b.id \in Ids /\ b.id \notin IdsInUse
    BY <1>0, <2>1, <2>4, FreshId
  <2>6. b \in Backends
    BY <2>3, <2>4, <2>5, IdleTypes, Zenon DEF Backends
  <2>7. Others(c) /\ call'[c].pc = "build" /\ call'[c].b = b
    BY <1>0, <1>2, <2>2, <2>6, BackendEffect, ZenonT(30) DEF Build, Pcs
  <2>8. b.id \notin conns /\ \A d \in Callers : d # c /\ call[d].pc \in Served => call[d].b.id # b.id
    <3>1. ASSUME NEW d \in Callers, call[d].pc \in Served
          PROVE  call[d].b.id # b.id
      <4>1. call[d].b \in Backends
        BY <1>0, <3>1 DEF Fine, Holding, Sound
      <4>2. call[d].b # None
        BY <4>1, NoneApart, Zenon
      <4> QED
        BY <2>5, <4>2, Zenon DEF IdsInUse
    <3> QED
      BY <2>5, <3>1 DEF IdsInUse
  <2>9. Made(c)'
    BY <1>0, <2>1, <2>3, <2>5, <2>6, <2>7, <2>8, Zenon DEF Made, Others, ConfigValid
  <2>10. WrapperInv'
    BY <1>0, <1>2, <2>7, <2>9, BuildStep, Zenon DEF Making, WrapperTypes
  <2>11. Listed(c)'
    BY <2>4, <2>7, IdleTypes DEF Listed
  <2>12. Genuine(call'[c].b)
    BY <2>4, <2>7, IdleTypes DEF Genuine
  <2>13. blobs' = blobs /\ UNCHANGED <<tpmVars, workloadVars>> /\ blobs' \subseteq Blobs
    BY <1>0 DEF Environment, PluginInv, TpmTypes
  <2> QED
    BY <1>0, <2>7, <2>10, <2>11, <2>12, <2>13, CallStep
<1> QED
  BY <1>1, <1>2 DEF Check

\* The connection is opened, or the construction fails.
LEMMA DialKeeps ==
    ASSUME PluginInv, NEW c \in Callers, Dial(c)
    PROVE  PluginInv'
<1>0. /\ call[c].pc = "build" /\ call[c].pc \in Locked /\ UNCHANGED <<config, backend, Environment>>
      /\ call[c].b.cfg.mode = "broker" /\ WrapperInv /\ WrapperTypes /\ Made(c) /\ Listed(c)
      /\ call \in [Callers -> Calls]
  BY Zenon DEF Dial, Locked, PluginInv, WrapperInv, WrapperTypes, Fine, CoverInv
<1>1. CASE Leave(c) /\ UNCHANGED conns
  BY <1>0, <1>1, LeaveKeeps, Zenon
<1>2. CASE conns' = conns \union {call[c].b.id} /\ Goto(c, "status") /\ UNCHANGED lock
  <2>1. Others(c) /\ call'[c].pc = "status" /\ call'[c].b = call[c].b
    BY <1>0, <1>2, GotoEffect, Zenon DEF Pcs
  <2>2. Made(c)' /\ call[c].b.id \in Ids
    BY <1>0, <1>2, <2>1, ZenonT(30) DEF Made, Making, Others, ConfigValid
  <2>3. WrapperInv'
    BY <1>0, <1>2, <2>1, <2>2, BuildStep, Zenon DEF Making, WrapperTypes
  <2>4. Listed(c)'
    <3>1. Found' = Found
      BY <1>0, Zenon DEF Found, Environment, tpmVars
    <3> QED
      BY <1>0, <2>1, <3>1, Zenon DEF Listed, Making
  <2>5. blobs' = blobs /\ UNCHANGED <<tpmVars, workloadVars>> /\ blobs' \subseteq Blobs
    BY <1>0 DEF Environment, PluginInv, TpmTypes
  <2> QED
    BY <1>0, <2>1, <2>3, <2>4, <2>5, CallStep, Zenon
<1> QED
  BY <1>1, <1>2, Zenon DEF Dial

\* The broker answers the status probe, or the connection is closed again.
LEMMA ProbeKeeps ==
    ASSUME PluginInv, NEW c \in Callers, ProbeStatus(c)
    PROVE  PluginInv'
<1>0. /\ call[c].pc = "status" /\ call[c].pc \in Locked /\ UNCHANGED <<config, backend, Environment>>
      /\ WrapperInv /\ WrapperTypes /\ Made(c) /\ Listed(c) /\ call \in [Callers -> Calls]
  BY DEF ProbeStatus, Locked, PluginInv, WrapperInv, WrapperTypes, Fine, CoverInv
<1>1. CASE StatusFails(c)
  <2>1. backend = None
    BY <1>0, Zenon DEF Made, Making
  <2> QED
    BY <1>0, <1>1, <2>1, LeaveKeeps, Zenon DEF StatusFails
<1>2. CASE Goto(c, "store") /\ UNCHANGED <<lock, conns>>
  <2>1. Others(c) /\ call'[c].pc = "store" /\ call'[c].b = call[c].b
    BY <1>0, <1>2, GotoEffect, Zenon DEF Pcs
  <2>2. Made(c)' /\ call[c].b.cfg.mode = "broker"
    BY <1>0, <1>2, <2>1, ZenonT(30) DEF Made, Making, Others, ConfigValid
  <2>3. WrapperInv'
    BY <1>0, <1>2, <2>1, <2>2, BuildStep, Zenon DEF Making, WrapperTypes
  <2>4. Listed(c)'
    <3>1. Found' = Found
      BY <1>0 DEF Found, Environment, tpmVars
    <3> QED
      BY <1>0, <2>1, <2>2, <3>1, Zenon DEF Listed, Making
  <2>5. blobs' = blobs /\ UNCHANGED <<tpmVars, workloadVars>> /\ blobs' \subseteq Blobs
    BY <1>0, Zenon DEF Environment, PluginInv, TpmTypes
  <2> QED
    BY <1>0, <2>1, <2>3, <2>4, <2>5, CallStep, Zenon
<1> QED
  BY <1>1, <1>2, ZenonT(30) DEF ProbeStatus

\* The metadata files are listed.
LEMMA GlobKeeps ==
    ASSUME PluginInv, NEW c \in Callers, GlobVersions(c)
    PROVE  PluginInv'
<1>0. /\ call[c].pc = "build" /\ call[c].pc \in Locked /\ UNCHANGED <<config, backend, conns, Environment>>
      /\ call[c].b.cfg.mode = "local-tpm" /\ WrapperInv /\ WrapperTypes /\ Made(c) /\ Listed(c)
      /\ call \in [Callers -> Calls] /\ Covers(Found)
  BY Zenon DEF GlobVersions, Locked, PluginInv, WrapperInv, WrapperTypes, Fine, CoverInv
<1>1. CASE Leave(c)
  BY <1>0, <1>1, LeaveKeeps, Zenon
<1>2. CASE /\ Found # {} /\ UNCHANGED lock
           /\ call' = [call EXCEPT ![c].pc = "list", ![c].todo = Found, ![c].refs = {}]
  <2>0. Found \in SUBSET Versions
    BY ZenonT(30) DEF Found
  <2>1. /\ Others(c) /\ call'[c].pc = "list" /\ call'[c].b = call[c].b
        /\ call'[c].todo = Found /\ call'[c].refs = {}
    <3>1. "list" \in Pcs /\ Reads(c, "list", Found, {}) /\ {} \in SUBSET Versions
      BY <1>2 DEF Pcs, Reads
    <3> QED
      BY <1>0, <2>0, <3>1, TodoEffect
  <2>2. Made(c)'
    BY <1>0, <1>2, <2>1 DEF Made, Making, Others, ConfigValid
  <2>3. WrapperInv'
    BY <1>0, <1>2, <2>1, <2>2, BuildStep DEF Making, WrapperTypes
  <2>4. Listed(c)'
    <3>1. Found' = Found
      BY <1>0, Zenon DEF Found, Environment, tpmVars
    <3>2. Covers(call[c].todo \union call[c].refs)'
      BY <1>0, <2>1, ZenonT(30) DEF Covers, Environment, tpmVars, historyVars, Others
    <3> QED
      BY <1>0, <1>2, <2>1, <3>1, <3>2, Zenon DEF Listed, Making
  <2>5. blobs' = blobs /\ UNCHANGED <<tpmVars, workloadVars>> /\ blobs' \subseteq Blobs
    BY <1>0 DEF Environment, PluginInv, TpmTypes
  <2> QED
    BY <1>0, <2>1, <2>3, <2>4, <2>5, CallStep, Zenon
<1> QED
  BY <1>1, <1>2, Zenon DEF GlobVersions, Found

\* The metadata of a version is read: the version is listed, or it was withdrawn.
LEMMA ListKeeps ==
    ASSUME PluginInv, NEW c \in Callers, ListVersion(c)
    PROVE  PluginInv'
<1>0. /\ call[c].pc = "list" /\ call[c].pc \in Locked /\ UNCHANGED <<config, backend, conns, Environment>>
      /\ WrapperInv /\ WrapperTypes /\ Made(c) /\ Listed(c) /\ call \in [Callers -> Calls]
  BY Zenon DEF ListVersion, Locked, PluginInv, WrapperInv, WrapperTypes, Fine, CoverInv
<1>1. CASE Leave(c)
  BY <1>0, <1>1, LeaveKeeps, Zenon
<1>2. PICK v : v = First(call[c].todo)
  BY Zenon
<1>3. PICK rest : rest = call[c].todo \ {v}
  BY Zenon
<1>4. PICK refs : refs = call[c].refs \union (IF meta[v].status \in Usable THEN {v} ELSE {})
  BY Zenon
<1>5. /\ v \in Versions /\ v \in Found /\ call[c].todo = rest \union {v}
      /\ rest \in SUBSET Versions /\ refs \in SUBSET Versions
      /\ rest \subseteq Found /\ refs \subseteq Found /\ call[c].refs \subseteq refs
  <2>1. call[c].todo # {} /\ call[c].todo \subseteq Versions /\ call[c].todo \subseteq Nat
    BY <1>0, TpmAssumption, Zenon DEF Listed, Calls
  <2>2. v \in call[c].todo
    BY <1>2, <2>1, FirstElement
  <2>3. call[c].refs \subseteq Versions /\ call[c].todo \subseteq Found /\ call[c].refs \subseteq Found
    BY <1>0, Zenon DEF Listed, Calls
  <2> QED
    BY <1>3, <1>4, <2>1, <2>2, <2>3
<1>6. ASSUME MetadataValid(v, Cluster)
      PROVE  Covers(rest \union refs)
  <2>1. meta[v] \in Metadata
    BY <1>5, <1>6, Zenon DEF PluginInv, TpmTypes, MetadataValid, Readable
  <2>2. meta[v].status \in Usable \/ v \in withdrawn
    BY <1>5, <2>1, Zenon DEF PluginInv, KeysInv, FilesInv, Recorded
  <2>3. v \in refs \union withdrawn
    BY <1>4, <2>2
  <2>4. call[c].todo \union call[c].refs \subseteq (rest \union refs) \union withdrawn
    BY <1>5, <2>3
  <2>5. Covers(call[c].todo \union call[c].refs)
    BY <1>0, Zenon DEF Listed
  <2> QED
    BY <2>4, <2>5, Zenon DEF Covers
<1>7. ASSUME Others(c), call'[c].b = call[c].b, UNCHANGED lock, Covers(rest \union refs),
             \/ call'[c].pc = "list" /\ rest # {} /\ call'[c].todo = rest /\ call'[c].refs = refs
             \/ call'[c].pc = "load" /\ rest = {} /\ refs # {} /\ call'[c].todo = refs
      PROVE  PluginInv'
  <2>1. Made(c)'
    BY <1>0, <1>7, Zenon DEF Made, Making, Others, ConfigValid
  <2>2. WrapperInv'
    BY <1>0, <1>7, <2>1, BuildStep, Zenon DEF Making, WrapperTypes
  <2>3. Listed(c)'
    <3>1. Found' = Found
      BY <1>0, Zenon DEF Found, Environment, tpmVars
    <3>2. DOMAIN call[c].b.ring \subseteq Found
      BY <1>0, Zenon DEF Listed, Making
    <3>3. UNCHANGED <<blobs, withdrawn>> /\ \A d \in Callers : call'[d].pc = "ring" => d # c
      BY <1>0, <1>7, Zenon DEF Environment, tpmVars, historyVars
    <3>4. call'[c].pc = "list" => Covers(call[c].todo \union call[c].refs)'
      BY <1>7, <3>3, Zenon DEF Covers, Others
    <3>5. call'[c].pc = "load" => Covers(call[c].todo \union DOMAIN call[c].b.ring)'
      BY <1>7, <3>3, Zenon DEF Covers, Others
    <3> QED
      BY <1>0, <1>5, <1>7, <3>1, <3>2, <3>4, <3>5, Zenon DEF Listed
  <2>4. blobs' = blobs /\ UNCHANGED <<tpmVars, workloadVars>> /\ blobs' \subseteq Blobs
    BY <1>0 DEF Environment, PluginInv, TpmTypes
  <2> QED
    BY <1>0, <1>7, <2>2, <2>3, <2>4, CallStep
<1>8. CASE /\ MetadataValid(v, Cluster) /\ rest # {} /\ UNCHANGED lock
           /\ call' = [call EXCEPT ![c].todo = rest, ![c].refs = refs]
  <2>1. call \in [Callers -> Calls] /\ rest \in SUBSET Versions /\ refs \in SUBSET Versions
    BY <1>0, <1>5
  <2>2. GoesOn(c, rest, refs)
    BY <1>8 DEF GoesOn
  <2>3. /\ Others(c) /\ call'[c].pc = call[c].pc /\ call'[c].todo = rest /\ call'[c].refs = refs
        /\ call'[c].b = call[c].b
    BY <2>1, <2>2, NextEffect
  <2> QED
    BY <1>0, <1>6, <1>7, <1>8, <2>3, Zenon
<1>9. CASE /\ MetadataValid(v, Cluster) /\ rest = {} /\ refs # {} /\ UNCHANGED lock
           /\ call' = [call EXCEPT ![c].pc = "load", ![c].todo = refs, ![c].refs = {}]
  <2>1. "load" \in Pcs /\ Reads(c, "load", refs, {}) /\ {} \in SUBSET Versions
    BY <1>9 DEF Pcs, Reads
  <2>2. call \in [Callers -> Calls] /\ refs \in SUBSET Versions
    BY <1>0, <1>5
  <2>3. Others(c) /\ call'[c].pc = "load" /\ call'[c].todo = refs /\ call'[c].b = call[c].b
    BY <2>1, <2>2, TodoEffect
  <2> QED
    BY <1>6, <1>7, <1>9, <2>3, Zenon
<1> QED
  BY <1>1, <1>2, <1>3, <1>4, <1>8, <1>9, Zenon DEF ListVersion

\* A version that is read adds an entry to the ring: what its files say.
LEMMA RingGrows ==
    ASSUME PluginInv, NEW b \in Backends, NEW v \in Versions, Loads(v, Cluster)
    PROVE  LET b2 == [b EXCEPT !.ring = RingWith(b.ring, v)]
           IN  /\ b2 \in Backends /\ b2.id = b.id /\ b2.cfg = b.cfg
               /\ DOMAIN b2.ring = DOMAIN b.ring \union {v}
               /\ Genuine(b) => Genuine(b2)
<1>1. PICK ring : ring = RingWith(b.ring, v)
  OBVIOUS
<1>2. sealed[v] \in SealedBlobs /\ meta[v] \in Metadata
  BY DEF PluginInv, TpmTypes, Loads, MetadataValid, Readable
<1>3. PICK e : e = [key |-> sealed[v].key, status |-> meta[v].status, policy |-> meta[v].policy]
  BY Zenon
<1>4. e \in Entries /\ e.key = sealed[v].key /\ e.status = meta[v].status /\ e.policy = meta[v].policy
  BY <1>2, <1>3 DEF Entries, SealedBlobs, Metadata
<1>5. /\ DOMAIN ring = DOMAIN b.ring \union {v}
      /\ \A w \in DOMAIN ring : ring[w] = IF w = v THEN e ELSE b.ring[w]
      /\ ring = [w \in DOMAIN ring |-> ring[w]]
  BY <1>1, <1>3 DEF RingWith
<1>6. DOMAIN b.ring \subseteq Versions /\ b.ring \in [DOMAIN b.ring -> Entries]
  BY BackendFields
<1>7. ring \in [DOMAIN ring -> Entries] /\ DOMAIN ring \in SUBSET Versions
  BY <1>4, <1>5, <1>6
<1>8. ring \in Rings
  BY <1>7 DEF Rings
<1>9. PICK b2 : b2 = [b EXCEPT !.ring = ring]
  BY Zenon
<1>10. b2 \in Backends
  BY <1>8, <1>9, ZenonT(30) DEF Backends
<1>11. b2.id = b.id /\ b2.cfg = b.cfg /\ b2.ring = ring
  BY <1>9 DEF Backends
<1>12. Genuine(b) => Genuine(b2)
  <2> SUFFICES ASSUME Genuine(b), NEW w \in DOMAIN ring
               PROVE  OneKey(ring[w].key) /\ Recorded(w, ring[w])
    BY <1>11, Zenon DEF Genuine
  <2>1. OneKey(e.key)
    BY <1>2, <1>4, Zenon DEF PluginInv, KeysInv, FilesInv
  <2>2. Recorded(v, e)
    BY <1>2, <1>4, Zenon DEF PluginInv, KeysInv, FilesInv, Recorded
  <2>3. CASE w = v
    BY <1>5, <2>1, <2>2, <2>3, Zenon
  <2>4. CASE w # v
    <3>1. w \in DOMAIN b.ring /\ ring[w] = b.ring[w] /\ b # None
      BY <1>5, <2>4, NoneApart, Zenon
    <3> QED
      BY <3>1, Zenon DEF Genuine
  <2> QED
    BY <2>3, <2>4, Zenon
<1> QED
  BY <1>1, <1>5, <1>9, <1>10, <1>11, <1>12

\* A listed version is loaded.
LEMMA LoadKeeps ==
    ASSUME PluginInv, NEW c \in Callers, LoadVersion(c)
    PROVE  PluginInv'
<1>0. /\ call[c].pc = "load" /\ call[c].pc \in Locked /\ UNCHANGED <<config, backend, conns, Environment>>
      /\ WrapperInv /\ WrapperTypes /\ Made(c) /\ Listed(c) /\ call \in [Callers -> Calls]
  BY Zenon DEF LoadVersion, Locked, PluginInv, WrapperInv, WrapperTypes, Fine, CoverInv
<1>1. CASE Leave(c)
  BY <1>0, <1>1, LeaveKeeps
<1>2. PICK v : v = First(call[c].todo)
  OBVIOUS
<1>3. PICK rest : rest = call[c].todo \ {v}
  BY Zenon
<1>4. PICK b : b = call[c].b
  OBVIOUS
<1>5. /\ v \in Versions /\ rest \in SUBSET Versions /\ rest \subseteq call[c].todo
      /\ call[c].todo = rest \union {v} /\ b \in Backends /\ call[c].todo \subseteq Found
      /\ DOMAIN b.ring \subseteq Found /\ Covers(call[c].todo \union DOMAIN b.ring)
  <2>1. call[c].todo # {} /\ call[c].todo \subseteq Versions /\ call[c].todo \subseteq Nat
    BY <1>0, TpmAssumption, Zenon DEF Listed, Calls
  <2>2. v \in call[c].todo
    BY <1>2, <2>1, FirstElement
  <2> QED
    BY <1>0, <1>3, <1>4, <2>1, <2>2, Zenon DEF Listed, Made, Making, Covers
<1>6. PICK b2 : b2 = [b EXCEPT !.ring = RingWith(b.ring, v)]
  BY Zenon
<1>7. PICK pc : pc = IF rest # {} THEN "load" ELSE "store"
  OBVIOUS
<1>8. CASE Loads(v, Cluster) /\ Holds(c, pc, rest, b2) /\ UNCHANGED lock
  <2>1. /\ b2 \in Backends /\ b2.id = b.id /\ b2.cfg = b.cfg /\ DOMAIN b2.ring = DOMAIN b.ring \union {v}
        /\ Genuine(b) => Genuine(b2)
    BY <1>5, <1>6, <1>8, RingGrows, Zenon
  <2>2. pc \in Pcs /\ pc \in {"load", "store"} /\ (pc = "load" <=> rest # {})
    BY <1>7 DEF Pcs
  <2>3. Others(c) /\ call'[c].pc = pc /\ call'[c].todo = rest /\ call'[c].b = b2
    <3>1. call \in [Callers -> Calls] /\ rest \in SUBSET Versions /\ Holds(c, pc, rest, b2)
      BY <1>0, <1>5, <1>8
    <3> QED
      BY <2>1, <2>2, <3>1, LoadEffect
  <2>4. Made(c)'
    <3>1. /\ backend = None /\ b.id \in Ids /\ ConfigValid(b.cfg) /\ b.cfg.mode = "local-tpm"
          /\ \A d \in Callers : d # c /\ call[d].pc \in Served => call[d].b.id # b.id
          /\ b.id \notin conns
      BY <1>0, <1>4, Zenon DEF Made, Making
    <3> QED
      BY <1>0, <2>1, <2>2, <2>3, <3>1, Zenon DEF Made, Others, ConfigValid
  <2>5. WrapperInv'
    BY <1>0, <1>8, <2>2, <2>3, <2>4, BuildStep, Zenon DEF Making, WrapperTypes
  <2>6. Listed(c)'
    <3>1. Found' = Found
      BY <1>0, Zenon DEF Found, Environment, tpmVars
    <3>2. rest \union DOMAIN b2.ring = call[c].todo \union DOMAIN b.ring
      BY <1>5, <2>1
    <3>3. PICK S : S = rest \union DOMAIN b2.ring
      BY Zenon
    <3>4. Covers(S)'
      BY <1>0, <1>5, <2>2, <2>3, <3>2, <3>3 DEF Covers, Environment, tpmVars, historyVars, Others
    <3>5. pc = "load" => Covers(call[c].todo \union DOMAIN call[c].b.ring)'
      BY <2>3, <3>3, <3>4, Zenon DEF Covers
    <3>6. pc = "store" => Covers(DOMAIN call[c].b.ring)'
      BY <2>2, <2>3, <3>3, <3>4, Zenon DEF Covers
    <3>7. DOMAIN b2.ring \subseteq Found /\ rest \subseteq Found
      BY <1>5, <2>1, Zenon
    <3> QED
      BY <2>2, <2>3, <3>1, <3>5, <3>6, <3>7, Zenon DEF Listed
  <2>7. Genuine(call'[c].b)
    BY <1>4, <2>1, <2>3, Zenon DEF PluginInv, KeysInv
  <2>8. blobs' = blobs /\ UNCHANGED <<tpmVars, workloadVars>> /\ blobs' \subseteq Blobs
    BY <1>0 DEF Environment, PluginInv, TpmTypes
  <2> QED
    BY <1>0, <2>2, <2>3, <2>5, <2>6, <2>7, <2>8, CallStep, Zenon
<1>9. (Loads(v, Cluster) /\ Holds(c, pc, rest, b2) /\ UNCHANGED lock) \/ Leave(c)
  BY <1>2, <1>3, <1>4, <1>6, <1>7, Zenon DEF LoadVersion, Holds
<1> QED
  BY <1>1, <1>8, <1>9, Zenon

\* The backend comes into force, or its ring is refused.
LEMMA StoreKeeps ==
    ASSUME PluginInv, NEW c \in Callers, StoreBackend(c)
    PROVE  PluginInv'
<1>0. /\ call[c].pc = "store" /\ UNCHANGED <<conns, Environment>>
      /\ WrapperInv /\ Made(c) /\ Listed(c) /\ call \in [Callers -> Calls]
  BY DEF StoreBackend, PluginInv, WrapperInv, WrapperTypes, Fine, CoverInv
<1>1. WrapperInv'
  BY StoreStep DEF PluginInv
<1>2. Others(c) /\ call'[c].b = None /\ call'[c].pc \in {"idle", "name"}
  <2>1. CASE Leave(c)
    BY <1>0, <2>1, ReturnEffect, IdleTypes, Zenon DEF Leave
  <2>2. CASE call' = [call EXCEPT ![c].pc = "name", ![c].b = None]
    BY <1>0, <2>2, BackendEffect, ZenonT(30) DEF Pcs
  <2> QED
    BY <2>1, <2>2 DEF StoreBackend
<1>3. \/ backend' = backend
      \/ /\ backend' = call[c].b
         /\ DOMAIN backend'.ring \subseteq Found
         /\ backend'.cfg.mode = "local-tpm" => Covers(DOMAIN backend'.ring)
  BY <1>0 DEF StoreBackend, Listed, Making
<1>4. Listed(c)'
  BY <1>2 DEF Listed, Making
<1>5. blobs' = blobs /\ UNCHANGED <<tpmVars, workloadVars>> /\ blobs' \subseteq Blobs
  BY <1>0 DEF Environment, PluginInv, TpmTypes
<1> QED
  BY <1>1, <1>2, <1>3, <1>4, <1>5, CallStep

\* A call gets the backend in force.
LEMMA CurrentKeeps ==
    ASSUME PluginInv, NEW c \in Callers, CurrentBackend(c)
    PROVE  PluginInv'
<1>0. /\ call[c].pc = "enter" /\ lock = Free /\ UNCHANGED <<config, backend, lock, conns, Environment>>
      /\ WrapperInv /\ call \in [Callers -> Calls] /\ CoverInv
  BY Zenon DEF CurrentBackend, PluginInv, WrapperInv, WrapperTypes
<1>1. CASE backend = None
  <2>1. Others(c) /\ call'[c].pc = "idle" /\ call'[c].b = None
    BY <1>0, <1>1, ReturnEffect, IdleTypes DEF CurrentBackend
  <2> QED
    BY <1>0, <2>1, OutsideKeeps
<1>2. CASE backend # None
  <2>1. Sound(backend) /\ backend \in Backends /\ backend.cfg.mode \in {"broker", "local-tpm"}
    BY <1>0, <1>2 DEF WrapperInv, WrapperTypes, Sound, ConfigValid
  <2>2. PICK pc : pc = IF backend.cfg.mode = "broker" THEN "challenge" ELSE "ring"
    OBVIOUS
  <2>3. pc \in Pcs /\ pc \in {"challenge", "ring"} /\ (pc = "ring" => backend.cfg.mode = "local-tpm")
    BY <2>1, <2>2 DEF Pcs
  <2>4. Others(c) /\ call'[c].pc = pc /\ call'[c].b = backend
    BY <1>0, <1>2, <2>1, <2>2, <2>3, BackendEffect DEF CurrentBackend
  <2>5. WrapperInv'
    BY <1>0, <1>2, <2>3, <2>4, OutsideStep, Zenon DEF Locked
  <2>6. CASE pc = "challenge"
    BY <1>0, <2>4, <2>5, <2>6, QuietStep, Zenon DEF Making
  <2>7. CASE pc = "ring"
    <3>1. \A d \in Callers : call[d].pc \notin Making
      BY <1>0, PluginAssumption, Zenon DEF WrapperInv, Fine, Locking, Locked, Making
    <3>2. \A d \in Callers : Listed(d)'
      <4> TAKE d \in Callers
      <4>1. call'[d].pc \notin Making
        BY <2>4, <2>7, <3>1, Zenon DEF Others, Making
      <4> QED
        BY <4>1 DEF Listed, Making
    <3>3. Covers(Found)'
      BY <1>0, <1>2, <2>4, Zenon DEF CoverInv, Covers, Found, Environment, tpmVars, historyVars, Others
    <3>4. backend' # None => DOMAIN backend'.ring \subseteq Found'
      BY <1>0, Zenon DEF CoverInv, Found, Environment, tpmVars
    <3>5. Covers(DOMAIN backend.ring)'
      BY <1>0, <1>2, <2>3, <2>4, <2>7, Zenon DEF CoverInv, Covers, Environment, tpmVars, historyVars, Others
    <3>6. CoverInv'
      BY <3>2, <3>3, <3>4, <3>5, Zenon DEF CoverInv
    <3>7. KeysInv'
      <4>1. UNCHANGED <<sealed, meta, prov, blobs, policies, withdrawn>> /\ KeysInv
        BY <1>0, Zenon DEF PluginInv, Environment, tpmVars, historyVars
      <4>2. FilesInv' /\ \A blob \in blobs' : OneKey(blob.key) /\ blob.policy \in policies'[blob.version]
        BY <4>1, Zenon DEF KeysInv, FilesInv, OneKey, Recorded
      <4>3. Genuine(backend)'
        BY <1>0, <4>1, Zenon DEF KeysInv, Genuine, OneKey, Recorded
      <4>4. ASSUME NEW d \in Callers PROVE Genuine(call[d].b)'
        <5>1. call'[d].b = call[d].b \/ call'[d].b = backend
          BY <2>4, Zenon DEF Others
        <5>2. PICK b : b = call'[d].b
          BY Zenon
        <5>3. Genuine(b)
          BY <4>1, <5>1, <5>2, Zenon DEF KeysInv
        <5>4. Genuine(b)'
          BY <4>1, <5>3, Zenon DEF Genuine, OneKey, Recorded
        <5> QED
          BY <5>2, <5>4, Zenon DEF Genuine
      <4> QED
        BY <4>2, <4>3, <4>4, Zenon DEF KeysInv, OneKey
    <3>8. ClaimsInv'
      BY <1>0, <2>4, <2>7, Zenon DEF PluginInv, ClaimsInv, VerifiedNodeHostsCaller, Token, Environment, workloadVars, Others
    <3>9. TpmTypes' /\ PodInv'
      BY <1>0, Zenon DEF PluginInv, TpmTypes, PodInv, Environment, tpmVars, historyVars, workloadVars
    <3> QED
      BY <2>5, <3>6, <3>7, <3>8, <3>9, Zenon DEF PluginInv
  <2> QED
    BY <2>3, <2>6, <2>7, Zenon
<1> QED
  BY <1>1, <1>2

\* The evidence that is sent is the process's token, or none.
LEMMA EvidenceKeeps ==
    ASSUME PluginInv, NEW c \in Callers, SendEvidence(c)
    PROVE  PluginInv'
<1>0. /\ call[c].pc = "evidence" /\ UNCHANGED <<config, backend, lock, conns, Environment>>
      /\ WrapperInv /\ call \in [Callers -> Calls]
  BY DEF SendEvidence, PluginInv, WrapperInv, WrapperTypes
<1>1. PICK x : x = Evidence(call[c].b.cfg)
  OBVIOUS
<1>2. x \in {Token, NoClaims} /\ x \in Claims
  <2>1. Token \in Claims
    BY Zenon DEF PluginInv, PodInv, Pods, Token, Claims
  <2> QED
    BY <1>1, <2>1, IdleTypes DEF Evidence
<1>3. Others(c) /\ call'[c].pc = "review" /\ call'[c].claims = x /\ call'[c].b = call[c].b
  BY <1>0, <1>1, <1>2, ClaimsEffect, Zenon DEF SendEvidence, Pcs
<1>4. WrapperInv'
  BY <1>0, <1>3, OutsideStep, ZenonT(30) DEF Locked, Serving
<1>5. Listed(c)'
  BY <1>3 DEF Listed, Making
<1>6. blobs' = blobs /\ UNCHANGED <<tpmVars, workloadVars>> /\ blobs' \subseteq Blobs
  BY <1>0 DEF Environment, PluginInv, TpmTypes
<1> QED
  BY <1>0, <1>2, <1>3, <1>4, <1>5, <1>6, CallStep, Zenon

\* Only the process's token passes the review.
LEMMA ReviewKeeps ==
    ASSUME PluginInv, NEW c \in Callers, ReviewToken(c)
    PROVE  PluginInv'
<1>0. /\ call[c].pc = "review" /\ UNCHANGED <<config, backend, lock, conns, Environment>>
      /\ WrapperInv /\ call \in [Callers -> Calls]
  BY Zenon DEF ReviewToken, PluginInv, WrapperInv, WrapperTypes
<1>1. CASE Return(c)
  <2>1. Others(c) /\ call'[c].pc = "idle" /\ call'[c].b = None
    BY <1>0, <1>1, ReturnEffect, IdleTypes, Zenon
  <2> QED
    BY <1>0, <2>1, OutsideKeeps
<1>2. CASE ClaimsAccepted(call[c].claims) /\ Goto(c, "lookup")
  <2>1. /\ Others(c) /\ call'[c].pc = "lookup" /\ call'[c].b = call[c].b
        /\ call'[c].claims = call[c].claims
    BY <1>0, <1>2, GotoEffect DEF Pcs
  <2>2. call[c].claims = Token
    BY <1>0, <1>2, Zenon DEF ClaimsAccepted, PluginInv, ClaimsInv
  <2>3. WrapperInv'
    BY <1>0, <2>1, OutsideStep DEF Locked, Serving
  <2>4. Listed(c)'
    BY <2>1 DEF Listed, Making
  <2>5. blobs' = blobs /\ UNCHANGED <<tpmVars, workloadVars>> /\ blobs' \subseteq Blobs
    BY <1>0 DEF Environment, PluginInv, TpmTypes
  <2> QED
    BY <1>0, <2>1, <2>2, <2>3, <2>4, <2>5, CallStep, ZenonT(30)
<1> QED
  BY <1>1, <1>2 DEF ReviewToken

\* The pod that verifyPodBinding finds under the token's UID is the process's.
LEMMA LookupKeeps ==
    ASSUME PluginInv, NEW c \in Callers, VerifyPodBinding(c)
    PROVE  PluginInv'
<1>0. /\ call[c].pc = "lookup" /\ UNCHANGED <<config, backend, lock, conns, Environment>>
      /\ WrapperInv /\ call \in [Callers -> Calls] /\ call[c].claims = Token
  BY Zenon DEF VerifyPodBinding, PluginInv, WrapperInv, WrapperTypes, ClaimsInv
<1>1. CASE Return(c)
  <2>1. Others(c) /\ call'[c].pc = "idle" /\ call'[c].b = None
    BY <1>0, <1>1, ReturnEffect, IdleTypes
  <2> QED
    BY <1>0, <2>1, OutsideKeeps
<1>2. PICK n : n = VerifiedNode(call[c].claims)
  BY Zenon
<1>3. CASE BindingAccepted(call[c].claims) /\ call' = [call EXCEPT ![c].pc = "answer", ![c].node = n]
  <2>1. n = self.node \/ (n = Unscheduled /\ ~deployment.binding)
    <3>1. deployment.binding => pod = self
      BY <1>0, <1>3 DEF BindingAccepted, PodMatches, Token, PluginInv, PodInv
    <3> QED
      <4>1. CASE deployment.binding
        BY <1>2, <3>1, <4>1 DEF VerifiedNode
      <4>2. CASE ~deployment.binding
        <5>1. n = Token.node
          BY <1>0, <1>2, <4>2 DEF VerifiedNode
        <5> QED
          BY <4>2, <5>1 DEF Token
      <4> QED
        BY <4>1, <4>2
  <2>2. n \in Nodes \union {Unscheduled}
    BY <2>1, Zenon DEF PluginInv, PodInv
  <2>3. /\ Others(c) /\ call'[c].pc = "answer" /\ call'[c].node = n /\ call'[c].b = call[c].b
        /\ call'[c].claims = call[c].claims
    BY <1>0, <1>3, <2>2, NodeEffect, Zenon DEF Pcs
  <2>4. WrapperInv'
    BY <1>0, <2>3, OutsideStep, Zenon DEF Locked, Serving
  <2>5. Listed(c)'
    BY <2>3, Zenon DEF Listed, Making
  <2>6. blobs' = blobs /\ UNCHANGED <<tpmVars, workloadVars>> /\ blobs' \subseteq Blobs
    BY <1>0, Zenon DEF Environment, PluginInv, TpmTypes
  <2> QED
    BY <1>0, <2>1, <2>3, <2>4, <2>5, <2>6, CallStep, Zenon
<1> QED
  BY <1>1, <1>2, <1>3 DEF VerifyPodBinding

\* A ring that NewRing accepted has an active version to wrap with.
LEMMA ActiveVersion ==
    ASSUME NEW b \in Backends, NewRing(b.ring)
    PROVE  EncryptVersion(b) \in DOMAIN b.ring /\ EncryptVersion(b) = CHOOSE v \in ActiveIn(b.ring) : TRUE
<1>1. ActiveIn(b.ring) # {}
  BY FS_EmptySet DEF NewRing
<1>2. EncryptVersion(b) \in ActiveIn(b.ring)
  BY <1>1 DEF EncryptVersion
<1> QED
  BY <1>2 DEF ActiveIn, EncryptVersion

\* A call uses the ring that it holds.
LEMMA UseKeeps ==
    ASSUME PluginInv, NEW c \in Callers, UseRing(c)
    PROVE  PluginInv'
<1>0. /\ call[c].pc = "ring" /\ UNCHANGED <<config, backend, lock, conns, tpmVars, workloadVars>>
      /\ WrapperInv /\ call \in [Callers -> Calls]
      /\ call[c].b \in Backends /\ NewRing(call[c].b.ring)
  BY DEF UseRing, PluginInv, WrapperInv, WrapperTypes, Fine, Holding, Served, Serving, Sound
<1>1. Others(c) /\ call'[c].pc \in {"idle", "trace"} /\ call'[c].b = None
  <2>1. CASE Return(c)
    BY <1>0, <2>1, ReturnEffect, IdleTypes
  <2>2. CASE call' = [call EXCEPT ![c] = [Idle EXCEPT !.pc = "trace"]]
    BY <1>0, <2>2, TraceEffect, Zenon
  <2> QED
    BY <2>1, <2>2 DEF UseRing
<1>2. WrapperInv'
  BY <1>0, <1>1, OutsideStep, Zenon DEF Locked, Serving
<1>3. CASE blobs' = blobs
  BY <1>0, <1>1, <1>2, <1>3, QuietStep, Zenon DEF Environment, Making
<1>4. PICK b : b = call[c].b
  OBVIOUS
<1>5. PICK v : v = EncryptVersion(b)
  BY Zenon
<1>6. PICK new : new = [version |-> v, key |-> b.ring[v].key, policy |-> b.ring[v].policy]
  BY Zenon
<1>7. CASE blobs' = blobs \union {new}
  <2>1. v \in DOMAIN b.ring /\ v \in Versions /\ b.ring[v].key \in Clusters /\ b.ring[v].policy \in PolicyIds
    <3>1. v \in DOMAIN b.ring /\ b.ring \in [DOMAIN b.ring -> Entries] /\ DOMAIN b.ring \subseteq Versions
      BY <1>0, <1>4, <1>5, ActiveVersion, BackendFields, Zenon
    <3> QED
      BY <3>1, Zenon DEF Entries
  <2>2. OneKey(b.ring[v].key) /\ b.ring[v].policy \in policies[v]
    <3>1. b # None
      BY <1>0, <1>4, NoneApart, Zenon
    <3> QED
      BY <1>4, <2>1, <3>1, Zenon DEF PluginInv, KeysInv, Genuine, Recorded
  <2>3. new \in Blobs /\ new.version = v /\ new.key = b.ring[v].key /\ new.policy = b.ring[v].policy
    BY <1>6, <2>1 DEF Blobs
  <2>4. blobs' \subseteq Blobs
    <3>1. blobs \subseteq Blobs
      BY DEF PluginInv, TpmTypes
    <3> QED
      BY <1>7, <2>3, <3>1, Zenon
  <2>5. Listed(c)'
    BY <1>1, Zenon DEF Listed, Making
  <2>6. \A blob \in blobs' : blob \in blobs \/
            /\ call[c].pc = "ring" /\ blob.version \in DOMAIN call[c].b.ring
            /\ OneKey(blob.key) /\ blob.policy \in policies[blob.version]
    BY <1>0, <1>4, <1>7, <2>1, <2>2, <2>3, Zenon
  <2> QED
    BY <1>0, <1>1, <1>2, <2>4, <2>5, <2>6, CallStep, ZenonT(30)
<1>8. call[c].op = "Encrypt" /\ blobs' # blobs => blobs' = blobs \union {new}
  BY <1>0, <1>4, <1>5, <1>6, ActiveVersion, Zenon DEF UseRing, ActiveEntry
<1> QED
  BY <1>3, <1>7, <1>8, Zenon DEF UseRing

\* Every step of a call keeps the invariant.
LEMMA CallsKeep ==
    ASSUME PluginInv, NEW c \in Callers, Start(c) \/ BackendStep(c) \/ LockStep(c)
    PROVE  PluginInv'
<1>0. WrapperInv /\ call \in [Callers -> Calls] /\ deployment \in Deployments
  BY DEF PluginInv, WrapperInv, WrapperTypes, PodInv
<1>a. ASSUME Return(c) PROVE Others(c) /\ call'[c].pc = "idle" /\ call'[c].b = None
  BY <1>0, <1>a, ReturnEffect, IdleTypes, Zenon
<1>1. CASE Start(c)
  <2>1. /\ Others(c) /\ call'[c].pc = "enter" /\ call[c].pc = "idle"
        /\ call'[c].b = call[c].b \/ call'[c].b.ring = NoRing
        /\ call'[c].op = "SetConfig" => call'[c].b \in Backends /\ ConfigValid(call'[c].b.cfg)
    BY <1>0, <1>1, StartEffect, Zenon
  <2> QED
    BY <1>1, <2>1, OutsideKeeps, Zenon DEF Start
<1>2. CASE Check(c) \/ Dial(c) \/ ProbeStatus(c) \/ GlobVersions(c) \/ ListVersion(c) \/ LoadVersion(c)
  BY <1>2, CheckKeeps, DialKeeps, ProbeKeeps, GlobKeeps, ListKeeps, LoadKeeps, Zenon
<1>3. CASE StoreBackend(c)
  BY <1>3, StoreKeeps, Zenon
<1>4. CASE NameKey(c)
  BY <1>4, LeaveKeeps, Zenon DEF NameKey, Locked
<1>5. CASE Challenge(c)
  <2>1. CASE Return(c)
    BY <1>5, <1>a, <2>1, OutsideKeeps, Zenon DEF Challenge
  <2>2. CASE Goto(c, "evidence")
    <3>1. Others(c) /\ call'[c].pc = "evidence" /\ call'[c].b = call[c].b
      BY <1>0, <2>2, GotoEffect, Zenon DEF Pcs
    <3> QED
      BY <1>5, <3>1, OutsideKeeps, Zenon DEF Challenge
  <2> QED
    BY <1>5, <2>1, <2>2, Zenon DEF Challenge
<1>6. CASE SendEvidence(c) \/ ReviewToken(c) \/ VerifyPodBinding(c)
  BY <1>6, EvidenceKeeps, ReviewKeeps, LookupKeeps
<1>7. CASE Answer(c)
  <2>1. Others(c) /\ call'[c].pc \in {"idle", "trace"} /\ call'[c].b = None
    BY <1>0, <1>7, <1>a, TraceEffect, Zenon DEF Answer
  <2> QED
    BY <1>7, <2>1, OutsideKeeps DEF Answer
<1>8. CASE BackendFails(c)
  BY <1>8, <1>a, OutsideKeeps, Zenon DEF BackendFails
<1>9. CASE UseRing(c)
  BY <1>9, UseKeeps
<1>10. CASE CloseBackend(c)
  <2>1. WrapperInv'
    BY <1>0, <1>10, CloseStep, Zenon
  <2> QED
    BY <1>10, <1>a, <2>1, QuietStep, Zenon DEF CloseBackend, Making
<1>11. CASE AcquireLock(c)
  <2>1. WrapperInv'
    BY <1>0, <1>11, AcquireStep
  <2>2. Others(c) /\ call'[c].pc = "check" /\ call'[c].b = call[c].b
    BY <1>0, <1>11, GotoEffect, Zenon DEF AcquireLock, Pcs
  <2> QED
    BY <1>11, <2>1, <2>2, QuietStep, Zenon DEF AcquireLock, Making
<1>12. CASE CurrentBackend(c)
  BY <1>12, CurrentKeeps
<1>13. CASE Trace(c)
  BY <1>13, <1>a, OutsideKeeps, Zenon DEF Trace
<1>14. CASE Finalize(c)
  <2>1. WrapperInv'
    BY <1>0, <1>14, FinalizeStep
  <2>2. Others(c) /\ call'[c].pc \in {"idle", "close"} /\ call'[c].b \in {None, backend}
    <3>1. CASE backend = None
      BY <1>14, <1>a, <3>1, Zenon DEF Finalize
    <3>2. CASE backend # None
      <4>1. backend \in Backends
        BY <1>0, <3>2, Zenon DEF WrapperInv, WrapperTypes, Sound
      <4> QED
        BY <1>0, <1>14, <3>2, <4>1, BackendEffect, Zenon DEF Finalize, Pcs
    <3> QED
      BY <3>1, <3>2
  <2> QED
    BY <1>14, <2>1, <2>2, QuietStep, Zenon DEF Finalize, Making
<1> QED
  BY <1>1, <1>2, <1>3, <1>4, <1>5, <1>6, <1>7, <1>8, <1>9, <1>10, <1>11, <1>12, <1>13, <1>14
, Zenon     DEF BackendStep, LockStep

--------------------------------------------------------------------------------
(* Steps of the surroundings *)

\* The wrapper is fine while its variables rest.
LEMMA WrapperRests ==
    ASSUME WrapperInv, UNCHANGED processVars
    PROVE  WrapperInv'
<1>1. WrapperTypes' /\ ConnectionsOwned'
  BY Zenon DEF WrapperInv, WrapperTypes, Sound, ConfigValid, ConnectionsOwned, processVars
<1>2. ASSUME NEW c \in Callers PROVE Fine(c)'
  <2>1. Fine(c) /\ UNCHANGED <<backend, lock, conns, call>>
    BY Zenon DEF WrapperInv, processVars
  <2> QED
    BY <2>1, Zenon DEF Fine, Locking, Made, Holding, Sound, ConfigValid
<1> QED
  BY <1>1, <1>2 DEF WrapperInv

\* What a change of the state directory keeps, when no metadata file goes away
\* and the history goes on.
Recording == withdrawn \subseteq withdrawn' /\ \A v \in Versions : policies[v] \subseteq policies'[v]

LEMMA DirectoryStep ==
    ASSUME PluginInv, UNCHANGED <<processVars, blobs, workloadVars>>, TpmTypes', Found \subseteq Found',
           Recording, FilesInv'
    PROVE  PluginInv'
<1>0. ASSUME NEW S, NEW T, S \subseteq T, Covers(S)
      PROVE  Covers(T)'
  BY <1>0, Zenon DEF Covers, Recording, processVars
<1>1. WrapperInv'
  BY WrapperRests, Zenon DEF PluginInv
<1>2. Covers(Found)'
  <2>1. PICK F : F = Found'
    BY Zenon
  <2>2. Covers(F)'
    BY <1>0, <2>1, Zenon DEF PluginInv, CoverInv
  <2> QED
    BY <2>1, <2>2, Zenon DEF Covers
<1>3. backend' # None => DOMAIN backend'.ring \subseteq Found'
  BY Zenon DEF PluginInv, CoverInv, processVars
<1>4. (backend # None /\ backend.cfg.mode = "local-tpm" => Covers(DOMAIN backend.ring))'
  BY Zenon DEF PluginInv, CoverInv, Covers, Recording, processVars
<1>5. ASSUME NEW c \in Callers
      PROVE  Listed(c)'
  <2>1. Listed(c) /\ call' = call /\ blobs' = blobs
    BY Zenon DEF PluginInv, CoverInv, processVars
  <2> QED
    BY <2>1, Zenon DEF Listed, Covers, Recording
<1>6. CoverInv'
  BY <1>2, <1>3, <1>4, <1>5, Zenon DEF CoverInv
<1>7. KeysInv'
  <2>1. KeysInv /\ UNCHANGED <<blobs, backend, call>>
    BY Zenon DEF PluginInv, processVars
  <2>2. \A blob \in blobs' : OneKey(blob.key) /\ blob.policy \in policies'[blob.version]
    <3>1. \A blob \in blobs : blob.version \in Versions
      BY DEF PluginInv, TpmTypes, Blobs
    <3> QED
      BY <2>1, <3>1, Zenon DEF KeysInv, Recording
  <2>3. ASSUME NEW b \in Backends \union {None}, Genuine(b)
        PROVE  Genuine(b)'
    <3>1. b # None => DOMAIN b.ring \subseteq Versions
      BY BackendFields, Zenon
    <3> QED
      BY <2>3, <3>1, Zenon DEF Genuine, OneKey, Recorded, Recording
  <2>4. backend \in Backends \union {None} /\ \A c \in Callers : call[c].b \in Backends \union {None}
    BY DEF PluginInv, WrapperInv, WrapperTypes, Sound, Calls
  <2>5. Genuine(backend)'
    BY <2>1, <2>3, <2>4, Zenon DEF KeysInv, Genuine
  <2>6. ASSUME NEW c \in Callers PROVE Genuine(call[c].b)'
    <3>1. PICK b \in Backends \union {None} : b = call[c].b
      BY <2>4, Zenon
    <3>2. Genuine(b)'
      BY <2>1, <2>3, <3>1, Zenon DEF KeysInv
    <3> QED
      BY <2>1, <3>1, <3>2, Zenon DEF Genuine
  <2> QED
    BY <2>2, <2>5, <2>6, Zenon DEF KeysInv, OneKey
<1>8. PodInv' /\ ClaimsInv'
  BY Zenon DEF PluginInv, PodInv, ClaimsInv, VerifiedNodeHostsCaller, Token, processVars, workloadVars
<1> QED
  BY <1>1, <1>6, <1>7, <1>8, Zenon DEF PluginInv

\* What is sealed is a sealed blob, and with -cluster-id the cluster's.
LEMMA SealedIsBlob ==
    ASSUME boot \in BootStates, NEW cluster \in Clusters, NEW mode \in Modes, PackageExpected(cluster)
    PROVE  /\ SealKey(cluster, mode) \in SealedBlobs
           /\ OneKey(SealKey(cluster, mode).key)
  BY TpmAssumption, PluginAssumption, Zenon DEF OneKey, SealKey, SealedBlobs, policySession, Modes, PackageExpected

\* tpm provision and edits of the metadata keep the invariant.
LEMMA TpmKeeps ==
    ASSUME PluginInv, TpmNext, UNCHANGED <<processVars, blobs, workloadVars>>
    PROVE  PluginInv'
<1>0. TpmTypes /\ KeysInv
  BY Zenon DEF PluginInv
<1>1. ASSUME NEW s \in Provisioners, Provision(s)
      PROVE  PluginInv'
  <2>1. PICK v \in Versions, cluster \in Clusters, mode \in Modes :
            /\ PackageExpected(cluster)
            /\ prov' = [prov EXCEPT ![s] = [pc |-> "sealed", version |-> v, blob |-> SealKey(cluster, mode)]]
    BY <1>1, Zenon DEF Provision
  <2>2. PICK job : job = [pc |-> "sealed", version |-> v, blob |-> SealKey(cluster, mode)]
    BY Zenon
  <2>3. job \in Jobs /\ OneKey(job.blob.key)
    BY <1>0, <2>1, <2>2, SealedIsBlob DEF Jobs, TpmTypes
  <2>4. UNCHANGED <<sealed, meta, boot, policies, withdrawn>> /\ prov' = [prov EXCEPT ![s] = job]
    BY <1>1, <2>1, <2>2, Zenon DEF Provision, historyVars
  <2>5. TpmTypes'
    BY <1>0, <2>3, <2>4 DEF TpmTypes
  <2>6. Found' = Found
    BY <2>4 DEF Found
  <2>7. FilesInv'
    BY <1>0, <2>3, <2>4, Zenon DEF KeysInv, FilesInv, OneKey, Recorded, TpmTypes
  <2>8. Recording
    BY <2>4, Zenon DEF Recording
  <2> QED
    BY <2>5, <2>6, <2>7, <2>8, DirectoryStep, Zenon
<1>2. ASSUME NEW s \in Provisioners, WriteSealed(s)
      PROVE  PluginInv'
  <2>1. PICK p : p = prov[s]
    OBVIOUS
  <2>2. p \in Jobs
    BY <1>0, <1>2, <2>1 DEF WriteSealed, TpmTypes, NotProvisioning
  <2>3. PICK pc \in {"sealing", "meta"}, file \in {Torn, p.blob} :
            /\ prov' = [prov EXCEPT ![s].pc = pc]
            /\ sealed' = [sealed EXCEPT ![p.version] = file]
    BY <1>2, <2>1 DEF WriteSealed
  <2>4. PICK p2 : p2 = [p EXCEPT !.pc = pc]
    BY Zenon
  <2>5. p2 \in Jobs
    BY <2>2, <2>4, ZenonT(30) DEF Jobs
  <2>6. p2.blob = p.blob
    BY <2>2, <2>4 DEF Jobs
  <2>7. prov' = [prov EXCEPT ![s] = p2] /\ UNCHANGED <<meta, boot, policies, withdrawn>>
    BY <1>2, <2>1, <2>3, <2>4 DEF WriteSealed, historyVars
  <2>8. p.version \in Versions /\ file \in SealedBlobs \union {None, Torn}
    BY <2>2, <2>3 DEF Jobs
  <2>9. TpmTypes'
    BY <1>0, <2>3, <2>5, <2>7, <2>8 DEF TpmTypes
  <2>10. Found' = Found
    BY <2>7 DEF Found
  <2>11. FilesInv'
    <3>1. Torn \notin SealedBlobs
      BY TpmAssumption
    <3>2. OneKey(p.blob.key)
      BY <1>0, <2>1, <2>2 DEF KeysInv, FilesInv
    <3>3. \A w \in Versions : sealed'[w] \in SealedBlobs => OneKey(sealed'[w].key)
      BY <1>0, <2>3, <2>8, <3>1, <3>2, Zenon DEF KeysInv, FilesInv, TpmTypes
    <3>4. \A t \in Provisioners : prov'[t] \in Jobs => OneKey(prov'[t].blob.key)
      BY <1>0, <2>6, <2>7, <3>2, Zenon DEF KeysInv, FilesInv, TpmTypes
    <3> QED
      BY <1>0, <2>7, <3>3, <3>4, Zenon DEF KeysInv, FilesInv, OneKey, Recorded
  <2>12. Recording
    BY <2>7, Zenon DEF Recording
  <2> QED
    BY <2>9, <2>10, <2>11, <2>12, DirectoryStep
<1>3. ASSUME NEW s \in Provisioners, WriteMetadata(s)
      PROVE  PluginInv'
  <2>1. PICK p : p = prov[s]
    OBVIOUS
  <2>2. p \in Jobs
    BY <1>0, <1>3, <2>1 DEF WriteMetadata, TpmTypes, NotProvisioning
  <2>3. p.version \in Versions
    BY <2>2 DEF Jobs
  <2>4. UNCHANGED <<sealed, boot, withdrawn>>
    BY <1>3, Zenon DEF WriteMetadata
  <2>5. PICK p2 : p2 = [p EXCEPT !.pc = "describing"]
    BY Zenon
  <2>6. p2 \in Jobs
    BY <2>2, <2>5, ZenonT(30) DEF Jobs
  <2>7. p2.blob = p.blob
    BY <2>2, <2>5 DEF Jobs
  <2>8. PICK new \in Metadata \union {Torn}, job \in {NotProvisioning, p2} :
            /\ meta' = [meta EXCEPT ![p.version] = new]
            /\ prov' = [prov EXCEPT ![s] = job]
            /\ policies' \in [Versions -> SUBSET PolicyIds] /\ \A v \in Versions : policies[v] \subseteq policies'[v]
            /\ new \in Metadata => new.status \in Usable /\ new.policy \in policies'[p.version]
    <3>0. policies \in [Versions -> SUBSET PolicyIds] /\ Torn \notin Metadata
      BY <1>0, TpmAssumption DEF TpmTypes
    <3>1. CASE p.pc = "meta"
      BY <1>3, <2>1, <2>5, <3>0, <3>1 DEF WriteMetadata
    <3>2. CASE p.pc = "describing"
      <4>1. PICK q \in PolicyIds :
                /\ meta' = [meta EXCEPT ![p.version] = [cluster |-> p.blob.key, status |-> "active", policy |-> q]]
                /\ policies' = [policies EXCEPT ![p.version] = @ \union {q}]
                /\ prov' = [prov EXCEPT ![s] = NotProvisioning]
        BY <1>3, <2>1, <3>2, Zenon DEF WriteMetadata
      <4>2. PICK file : file = [cluster |-> p.blob.key, status |-> "active", policy |-> q]
        BY Zenon
      <4>3. file \in Metadata /\ file.status \in Usable /\ file.policy = q
        BY <2>2, <4>2 DEF Jobs, SealedBlobs, Metadata, Statuses, Usable
      <4>4. /\ policies' \in [Versions -> SUBSET PolicyIds] /\ \A v \in Versions : policies[v] \subseteq policies'[v]
            /\ q \in policies'[p.version]
        BY <2>3, <3>0, <4>1
      <4> QED
        BY <4>1, <4>2, <4>3, <4>4, Zenon
    <3> QED
      BY <1>3, <2>1, <3>1, <3>2, Zenon DEF WriteMetadata
  <2>9. Recording
    BY <2>4, <2>8, Zenon DEF Recording
  <2>10. TpmTypes'
    BY <1>0, <2>3, <2>4, <2>6, <2>8, Zenon DEF TpmTypes
  <2>11. Found \subseteq Found'
    <3>1. new # None
      BY <2>8, TpmAssumption, Zenon
    <3> QED
      BY <1>0, <2>3, <2>8, <3>1, Zenon DEF Found, TpmTypes
  <2>12. FilesInv'
    <3>1. NotProvisioning \notin Jobs
      BY DEF NotProvisioning, Jobs
    <3>2. OneKey(p.blob.key)
      BY <1>0, <2>1, <2>2, Zenon DEF KeysInv, FilesInv
    <3>3. \A t \in Provisioners : prov'[t] \in Jobs => OneKey(prov'[t].blob.key)
      BY <1>0, <2>7, <2>8, <3>1, <3>2, Zenon DEF KeysInv, FilesInv, TpmTypes
    <3>4. ASSUME NEW v \in Versions, meta'[v] \in Metadata
          PROVE  Recorded(v, meta[v])'
      <4>1. CASE v = p.version
        BY <1>0, <2>3, <2>8, <3>4, <4>1, Zenon DEF Recorded, TpmTypes
      <4>2. CASE v # p.version
        <5>1. meta'[v] = meta[v]
          BY <1>0, <2>8, <4>2, Zenon DEF TpmTypes
        <5>2. Recorded(v, meta[v])
          BY <1>0, <3>4, <5>1, Zenon DEF KeysInv, FilesInv
        <5> QED
          BY <2>4, <2>8, <5>1, <5>2, Zenon DEF Recorded
      <4> QED
        BY <4>1, <4>2, Zenon
    <3> QED
      BY <1>0, <2>4, <3>3, <3>4, Zenon DEF KeysInv, FilesInv, OneKey
  <2> QED
    BY <2>9, <2>10, <2>11, <2>12, DirectoryStep
<1>4. ASSUME NEW s \in Provisioners, ProvisionInterrupted(s)
      PROVE  PluginInv'
  <2>1. /\ UNCHANGED <<sealed, meta, boot, policies, withdrawn>>
        /\ prov' = [prov EXCEPT ![s] = NotProvisioning]
    BY <1>4 DEF ProvisionInterrupted, historyVars
  <2>2. TpmTypes'
    BY <1>0, <2>1 DEF TpmTypes
  <2>3. Found' = Found
    BY <2>1, Zenon DEF Found
  <2>4. FilesInv'
    <3>1. NotProvisioning \notin Jobs
      BY DEF NotProvisioning, Jobs
    <3> QED
      BY <1>0, <2>1, <3>1, Zenon DEF KeysInv, FilesInv, OneKey, Recorded, TpmTypes
  <2>5. Recording
    BY <2>1, Zenon DEF Recording
  <2> QED
    BY <2>2, <2>3, <2>4, <2>5, DirectoryStep
<1>5. ASSUME NEW v \in Versions, StatusEdited(v)
      PROVE  PluginInv'
  <2>1. PICK status \in Statuses :
            /\ meta' = [meta EXCEPT ![v].status = status]
            /\ withdrawn' = IF status \in Usable THEN withdrawn ELSE withdrawn \union {v}
    BY <1>5, Zenon DEF StatusEdited
  <2>2. PICK new : new = [meta[v] EXCEPT !.status = status]
    BY Zenon
  <2>3. meta[v] \in Metadata /\ UNCHANGED <<sealed, boot, prov, policies>>
    BY <1>5 DEF StatusEdited
  <2>4. new \in Metadata /\ meta' = [meta EXCEPT ![v] = new]
    BY <2>1, <2>2, <2>3, Zenon DEF Metadata
  <2>5. TpmTypes'
    BY <1>0, <2>3, <2>4, Zenon DEF TpmTypes
  <2>6. Found \subseteq Found'
    <3>1. new # None
      BY <2>4, TpmAssumption, Zenon
    <3> QED
      BY <1>0, <2>4, <3>1, Zenon DEF Found, TpmTypes
  <2>7. withdrawn \subseteq withdrawn' /\ (status \in Usable \/ v \in withdrawn')
    BY <2>1
  <2>8. Recording
    BY <2>3, <2>7, Zenon DEF Recording
  <2>9. FilesInv'
    <3>1. Recorded(v, meta[v])
      BY <1>0, <2>3, Zenon DEF KeysInv, FilesInv
    <3>2. new.status = status /\ new.policy = meta[v].policy
      BY <2>2, <2>3 DEF Metadata
    <3>3. ASSUME NEW w \in Versions, meta'[w] \in Metadata
          PROVE  Recorded(w, meta[w])'
      <4>1. CASE w = v
        BY <1>0, <2>3, <2>4, <2>7, <3>1, <3>2, <4>1, Zenon DEF Recorded, TpmTypes
      <4>2. CASE w # v
        <5>1. meta'[w] = meta[w]
          BY <1>0, <2>4, <4>2, Zenon DEF TpmTypes
        <5>2. Recorded(w, meta[w])
          BY <1>0, <3>3, <5>1, Zenon DEF KeysInv, FilesInv
        <5> QED
          BY <2>3, <2>7, <5>1, <5>2, Zenon DEF Recorded
      <4> QED
        BY <4>1, <4>2, Zenon
    <3> QED
      BY <1>0, <2>3, <3>3, Zenon DEF KeysInv, FilesInv, OneKey
  <2> QED
    BY <2>5, <2>6, <2>8, <2>9, DirectoryStep
<1> QED
  BY <1>1, <1>2, <1>3, <1>4, <1>5 DEF TpmNext

\* The pod's life keeps the invariant: a UID that was given away never returns.
LEMMA WorkloadKeeps ==
    ASSUME PluginInv, WorkloadNext, UNCHANGED <<processVars, blobs, tpmVars>>
    PROVE  PluginInv'
<1>1. WrapperInv'
  BY WrapperRests, Zenon DEF PluginInv
<1>2. TpmTypes' /\ KeysInv'
  BY Zenon DEF PluginInv, TpmTypes, KeysInv, FilesInv, OneKey, Genuine, Recorded, processVars, tpmVars, historyVars
<1>3. CoverInv'
  BY Zenon DEF PluginInv, CoverInv, Covers, Listed, Found, processVars, tpmVars, historyVars
<1>4. self' = self /\ deployment' = deployment
  BY DEF WorkloadNext, PodDeleted, PodCreated, PodScheduled
<1>5. ClaimsInv'
  BY <1>4, Zenon DEF PluginInv, ClaimsInv, VerifiedNodeHostsCaller, Token, processVars
<1>6. PodInv'
  <2>0. PodInv
    BY Zenon DEF PluginInv
  <2>1. CASE PodDeleted
    BY <2>0, <2>1, WorkloadAssumption DEF PodInv, PodDeleted, Pods, NoPod
  <2>2. CASE PodCreated
    BY <2>0, <2>2, WorkloadAssumption DEF PodInv, PodCreated, Pods, NoPod
  <2>3. CASE PodScheduled
    <3>1. PICK n \in Nodes : pod' = [pod EXCEPT !.node = n]
      BY <2>3 DEF PodScheduled
    <3>2. pod.uid # self.uid /\ pod.uid # 0 /\ UNCHANGED <<uids, self, deployment>>
      BY <2>0, <2>3, WorkloadAssumption DEF PodInv, PodScheduled
    <3>3. pod' \in Pods /\ pod'.uid = pod.uid
      BY <2>0, <3>1 DEF PodInv, Pods
    <3> QED
      BY <2>0, <3>2, <3>3 DEF PodInv
  <2> QED
    BY <2>1, <2>2, <2>3 DEF WorkloadNext
<1> QED
  BY <1>1, <1>2, <1>3, <1>5, <1>6, Zenon DEF PluginInv

\* A process that starts again finds the files and the pod as they are.
LEMMA LostKeeps ==
    ASSUME PluginInv, ProcessLost, UNCHANGED blobs, TpmTypes', PodInv',
           UNCHANGED <<sealed, meta, policies, withdrawn>>,
           \A s \in Provisioners : prov'[s] \in Jobs => OneKey(prov'[s].blob.key)
    PROVE  PluginInv'
<1>1. /\ WrapperInv' /\ backend' = None
      /\ \A c \in Callers : call'[c].pc = "idle" /\ call'[c].b = None
  BY LostStep, IdleTypes, Zenon DEF ProcessLost
<1>2. CoverInv'
  BY <1>1, Zenon DEF PluginInv, CoverInv, Covers, Listed, Found, Making
<1>3. KeysInv'
  BY <1>1, Zenon DEF PluginInv, KeysInv, FilesInv, OneKey, Genuine, Recorded
<1>4. ClaimsInv'
  BY <1>1 DEF ClaimsInv, VerifiedNodeHostsCaller
<1> QED
  BY <1>1, <1>2, <1>3, <1>4 DEF PluginInv

\* A restart of the process or of the machine keeps the invariant.
LEMMA RestartsKeep ==
    ASSUME PluginInv, ProcessRestarts \/ MachineReboots
    PROVE  PluginInv'
<1>1. CASE ProcessRestarts
  <2>1. PodInv'
    BY <1>1, WorkloadAssumption DEF PluginInv, PodInv, ProcessRestarts, Pods, NoPod
  <2>2. TpmTypes' /\ UNCHANGED <<sealed, meta, policies, withdrawn, prov>>
    BY <1>1 DEF PluginInv, TpmTypes, ProcessRestarts, tpmVars, historyVars
  <2> QED
    BY <1>1, <2>1, <2>2, LostKeeps, Zenon DEF ProcessRestarts, PluginInv, KeysInv, FilesInv
<1>2. CASE MachineReboots
  <2>1. PodInv'
    BY <1>2 DEF PluginInv, PodInv, MachineReboots, workloadVars
  <2>2. /\ UNCHANGED <<sealed, meta, policies, withdrawn, blobs>> /\ boot' \in BootStates
        /\ prov' = [s \in Provisioners |-> NotProvisioning]
    BY <1>2 DEF MachineReboots, Reboot, historyVars
  <2>3. TpmTypes'
    BY <2>2 DEF PluginInv, TpmTypes
  <2>4. \A s \in Provisioners : prov'[s] \notin Jobs
    BY <2>2 DEF NotProvisioning, Jobs
  <2> QED
    BY <1>2, <2>1, <2>2, <2>3, <2>4, LostKeeps, Zenon DEF MachineReboots
<1> QED
  BY <1>1, <1>2, Zenon

--------------------------------------------------------------------------------
(* The theorems *)

\* The first state satisfies the invariant.
LEMMA InitEstablishes ==
    PluginInit => PluginInv
<1> SUFFICES ASSUME PluginInit PROVE PluginInv
  OBVIOUS
<1> USE DEF PluginInit, ProcessInit
<1>1. \A c \in Callers : call[c] = Idle /\ call[c].pc = "idle" /\ call[c].b = None
  BY IdleTypes, Zenon
<1>2. WrapperInv
  <2>1. WrapperTypes
    BY IdleTypes, Zenon DEF WrapperTypes
  <2>2. ASSUME NEW c \in Callers PROVE Fine(c)
    BY <1>1, Zenon DEF Fine, Locking, Made, Holding, Locked, Making, Served, Serving
  <2> QED
    BY <2>1, <2>2 DEF WrapperInv, ConnectionsOwned
<1>3. TpmTypes
  <2>1. policies \in [Versions -> SUBSET PolicyIds]
    BY DEF TpmInit
  <2> QED
    BY <2>1, TpmAssumption, Zenon DEF TpmInit, TpmTypes
<1>4. CoverInv
  BY <1>1, Zenon DEF CoverInv, Covers, Listed, Making
<1>5. KeysInv
  <2>1. None \notin SealedBlobs /\ None \notin Metadata /\ NotProvisioning \notin Jobs
    BY TpmAssumption, Zenon DEF NotProvisioning, Jobs
  <2> QED
    BY <1>1, <2>1, Zenon DEF KeysInv, FilesInv, Genuine, TpmInit
<1>6. PodInv
  BY WorkloadAssumption DEF PodInv, WorkloadInit, Pods, NoPod
<1>7. ClaimsInv
  BY <1>1, Zenon DEF ClaimsInv, VerifiedNodeHostsCaller
<1> QED
  BY <1>2, <1>3, <1>4, <1>5, <1>6, <1>7, Zenon DEF PluginInv

\* Every step preserves the invariant.
LEMMA StepPreserves ==
    PluginInv /\ [PluginNext]_pluginVars => PluginInv'
<1> SUFFICES ASSUME PluginInv, [PluginNext]_pluginVars PROVE PluginInv'
  OBVIOUS
<1>1. CASE \E c \in Callers : Start(c) \/ BackendStep(c) \/ LockStep(c)
  BY <1>1, CallsKeep
<1>2. CASE ProcessRestarts \/ MachineReboots
  BY <1>2, RestartsKeep, Zenon
<1>3. CASE SurroundingsChange
  BY <1>3, TpmKeeps, WorkloadKeeps, Zenon DEF SurroundingsChange
<1>4. CASE UNCHANGED pluginVars
  <2>1. UNCHANGED <<processVars, blobs, workloadVars, tpmVars>>
    BY <1>4 DEF pluginVars
  <2>2. TpmTypes' /\ Found' = Found
    BY <2>1 DEF PluginInv, TpmTypes, Found, tpmVars, historyVars
  <2>3. FilesInv' /\ Recording
    BY <2>1, Zenon DEF PluginInv, KeysInv, FilesInv, OneKey, Recorded, Recording, tpmVars, historyVars
  <2> QED
    BY <2>1, <2>2, <2>3, DirectoryStep
<1> QED
  BY <1>1, <1>2, <1>3, <1>4 DEF PluginNext

\* The invariant holds throughout: the lock has one holder, a backend under
\* construction has an identity and a connection of its own, no metadata file
\* that a wrapped blob needs goes away, and only the process's own token is
\* looked up.
THEOREM PluginInductive ==
    PluginSpec => []PluginInv
  BY InitEstablishes, StepPreserves, PTL DEF PluginSpec

\* All variables keep their types: First finds an identity whenever SetConfig or
\* Init builds a backend, and Ring.Encrypt finds an active version whenever it
\* wraps.
THEOREM PluginTypes ==
    PluginSpec => []PluginTypeOK
<1>1. PluginInv => PluginTypeOK
  <2> SUFFICES ASSUME PluginInv PROVE PluginTypeOK
    OBVIOUS
  <2>1. \A c \in Callers : call[c].b = None \/ call[c].b \in Backends
    BY DEF PluginInv, WrapperInv, WrapperTypes, Calls
  <2>2. \A v \in Versions : sealed[v] \in SealedBlobs \union {None, Torn} /\ meta[v] \in Metadata \union {None, Torn}
    BY DEF PluginInv, TpmTypes
  <2> QED
    BY <2>1, <2>2, Zenon DEF PluginInv, WrapperInv, WrapperTypes, Sound, TpmTypes, Blobs, PodInv, PluginTypeOK
<1> QED
  BY <1>1, PluginInductive, PTL

\* No interleaving of SetConfig, Init, Finalize and the calls leaks a connection
\* or closes the one that the backend in force needs.
THEOREM ConnectionsAreOwned ==
    PluginSpec => []ConnectionsOwned
<1>1. PluginInv => ConnectionsOwned
  BY Zenon DEF PluginInv, WrapperInv
<1> QED
  BY <1>1, PluginInductive, PTL

\* However often the pod is deleted, created and scheduled between TokenReview
\* and LookupPod, the node that is verified is the node of the caller.
THEOREM VerifiedNodeIsCallers ==
    PluginSpec => []VerifiedNodeHostsCaller
<1>1. PluginInv => VerifiedNodeHostsCaller
  BY Zenon DEF PluginInv, ClaimsInv
<1> QED
  BY <1>1, PluginInductive, PTL

\* When tpm provision is always run with the -cluster-id of the configuration,
\* a local ring that comes into force opens every blob that was ever wrapped with
\* a version that was never edited to pending or retired and has one policy id,
\* with any number of versions, provisioning shells, reboots and restarts.
THEOREM WrappedReadable ==
    ASSUME ExpectedCluster = Cluster
    PROVE  PluginSpec => []WrappedStaysReadable
<1>1. PluginInv => WrappedStaysReadable
  <2> SUFFICES ASSUME PluginInv, backend # None, backend.cfg.mode = "local-tpm", NEW blob \in blobs,
                      blob.version \notin withdrawn, policies[blob.version] = {blob.policy}
               PROVE  Opens(backend.ring, blob)
    BY Zenon DEF WrappedStaysReadable
  <2>1. blob.version \in DOMAIN backend.ring
    BY DEF PluginInv, CoverInv, Covers
  <2>2. backend.ring[blob.version].key = Cluster /\ blob.key = Cluster
    BY <2>1, Zenon DEF PluginInv, KeysInv, Genuine, OneKey
  <2>3. backend.ring[blob.version].status \in Usable /\ backend.ring[blob.version].policy \in policies[blob.version]
    BY <2>1, Zenon DEF PluginInv, KeysInv, Genuine, Recorded
  <2>4. backend.ring[blob.version].policy = blob.policy
    BY <2>3
  <2> QED
    BY <2>1, <2>2, <2>3, <2>4, Zenon DEF Opens
<1> QED
  BY <1>1, PluginInductive, PTL

--------------------------------------------------------------------------------
(* The wrapper implements its contract *)

\* The backend that serves each caller.
InService == [c \in Callers |-> IF call[c].pc \in Serving THEN Shown(call[c].b) ELSE None]

\* A step of a call that is not served after it is a return, or nothing.
LEMMA Unserved ==
    ASSUME NEW c \in Callers, Others(c), UNCHANGED <<backend, config>>, call'[c].pc \notin Serving
    PROVE  Wrapper!Next
<1>1. InService' = [InService EXCEPT ![c] = None]
  BY Zenon DEF InService, Others
<1>2. Shown(backend)' = Shown(backend)
  BY DEF Shown
<1>3. Wrapper!Return(c)
  BY <1>1, <1>2 DEF Wrapper!Return, InService
<1> QED
  BY <1>3 DEF Wrapper!Next

\* A step of a call that stays with its backend shows nothing.
LEMMA StillServed ==
    ASSUME NEW c \in Callers, Others(c), UNCHANGED <<backend, config>>,
           call'[c].pc \in Serving <=> call[c].pc \in Serving,
           call'[c].pc \in Serving => call'[c].b = call[c].b
    PROVE  UNCHANGED Wrapper!vars
<1>1. InService' = InService
  BY Zenon DEF InService, Others, Shown
<1>2. Shown(backend)' = Shown(backend)
  BY DEF Shown
<1> QED
  BY <1>1, <1>2 DEF Wrapper!vars, InService

\* StoreBackend opens a backend that serves nobody, or nothing happens.
LEMMA StoreOpens ==
    ASSUME PluginInv, NEW c \in Callers, StoreBackend(c)
    PROVE  Wrapper!Next
<1>0. /\ call[c].pc = "store" /\ WrapperInv /\ call \in [Callers -> Calls] /\ Made(c)
      /\ \A d \in Callers : Fine(d)
  BY DEF StoreBackend, PluginInv, WrapperInv, WrapperTypes, Fine
<1>1. Others(c) /\ call'[c].pc \notin Serving /\ call[c].pc \notin Serving
  <2>1. CASE Leave(c)
    BY <1>0, <2>1, ReturnEffect, IdleTypes, Zenon DEF Leave, Serving
  <2>2. CASE call' = [call EXCEPT ![c].pc = "name", ![c].b = None]
    BY <1>0, <2>2, BackendEffect, Zenon DEF Pcs, Serving
  <2> QED
    BY <2>1, <2>2 DEF StoreBackend
<1>2. CASE UNCHANGED <<config, backend>>
  BY <1>1, <1>2, Unserved
<1>3. CASE backend' = call[c].b /\ config' = call[c].b.cfg
  <2>1. PICK b : b = call[c].b
    OBVIOUS
  <2>2. /\ b \in Backends /\ b.id \in Ids /\ backend = None /\ b # None /\ b.cfg \in Configs
        /\ \A d \in Callers : d # c /\ call[d].pc \in Served => call[d].b.id # b.id
    BY <1>0, <2>1, NoneApart, BackendFields, Zenon DEF Made, Making
  <2>3. PICK shown : shown = [id |-> b.id, cfg |-> b.cfg]
    BY Zenon
  <2>4. shown \in [id : Ids, cfg : Configs] /\ shown.cfg = b.cfg /\ shown.id = b.id /\ shown # None
    BY <2>2, <2>3, NoneApart
  <2>5. Shown(backend) = None /\ Shown(backend)' = shown /\ config' = shown.cfg
    BY <1>3, <2>1, <2>2, <2>3 DEF Shown
  <2>6. InService' = InService
    BY <1>1, Zenon DEF InService, Others, Shown
  <2>7. shown \notin {InService[d] : d \in Callers}
    <3> SUFFICES ASSUME NEW d \in Callers PROVE InService[d] # shown
      OBVIOUS
    <3>1. CASE call[d].pc \notin Serving
      BY <2>4, <3>1, Zenon DEF InService
    <3>2. CASE call[d].pc \in Serving
      <4>1. d # c /\ call[d].b \in Backends /\ call[d].b # None /\ call[d].b.id # b.id
        BY <1>0, <1>1, <2>2, <3>2, NoneApart, Zenon DEF Fine, Holding, Served, Sound
      <4>2. InService[d] = [id |-> call[d].b.id, cfg |-> call[d].b.cfg]
        BY <3>2, <4>1, Zenon DEF InService, Shown
      <4> QED
        <5>1. InService[d].id = call[d].b.id
          BY <4>2
        <5> QED
          BY <2>4, <4>1, <5>1, Zenon
    <3> QED
      BY <3>1, <3>2, Zenon
  <2>8. Wrapper!Open(shown)
    BY <2>5, <2>6, <2>7 DEF Wrapper!Open, InService
  <2> QED
    BY <2>4, <2>8, Zenon DEF Wrapper!Next
<1> QED
  BY <1>2, <1>3 DEF StoreBackend

\* CurrentBackend begins to serve with the backend in force.
LEMMA CurrentBegins ==
    ASSUME PluginInv, NEW c \in Callers, CurrentBackend(c)
    PROVE  Wrapper!Next
<1>0. /\ call[c].pc = "enter" /\ call \in [Callers -> Calls] /\ UNCHANGED <<config, backend>>
  BY Zenon DEF CurrentBackend, PluginInv, WrapperInv, WrapperTypes
<1>1. CASE backend = None
  <2>1. Others(c) /\ call'[c].pc = "idle"
    BY <1>0, <1>1, ReturnEffect, IdleTypes DEF CurrentBackend
  <2> QED
    BY <1>0, <2>1, Unserved DEF Serving
<1>2. CASE backend # None
  <2>1. backend \in Backends /\ backend.id \in Ids /\ backend.cfg \in Configs
    BY <1>2, BackendFields DEF PluginInv, WrapperInv, WrapperTypes, Sound
  <2>2. PICK pc : pc = IF backend.cfg.mode = "broker" THEN "challenge" ELSE "ring"
    OBVIOUS
  <2>3. Others(c) /\ call'[c].pc = pc /\ call'[c].b = backend /\ pc \in Serving
    <3>1. pc \in Pcs /\ pc \in Serving
      BY <2>2, Zenon DEF Pcs, Serving
    <3> QED
      BY <1>0, <1>2, <2>1, <2>2, <3>1, BackendEffect DEF CurrentBackend
  <2>4. InService' = [InService EXCEPT ![c] = Shown(backend)] /\ InService[c] = None
    BY <1>0, <2>3, Zenon DEF InService, Others, Shown, Serving
  <2>5. Shown(backend)' = Shown(backend) /\ Shown(backend) # None
    BY <1>0, <1>2, <2>1, NoneApart DEF Shown
  <2>6. Wrapper!Begin(c)
    BY <1>0, <2>4, <2>5, Zenon DEF Wrapper!Begin, InService
  <2> QED
    BY <2>6 DEF Wrapper!Next
<1> QED
  BY <1>1, <1>2

\* Finalize closes the backend in force.
LEMMA FinalizeCloses ==
    ASSUME PluginInv, NEW c \in Callers, Finalize(c)
    PROVE  Wrapper!Next
<1>0. /\ call[c].pc = "enter" /\ call \in [Callers -> Calls] /\ config' = config /\ backend' = None
  BY Zenon DEF Finalize, PluginInv, WrapperInv, WrapperTypes
<1>1. CASE backend = None
  <2>1. Others(c) /\ call'[c].pc = "idle"
    BY <1>0, <1>1, ReturnEffect, IdleTypes, Zenon DEF Finalize
  <2> QED
    BY <1>0, <1>1, <2>1, Unserved DEF Serving
<1>2. CASE backend # None
  <2>1. backend \in Backends /\ backend.id \in Ids /\ backend.cfg \in Configs
    BY <1>2, BackendFields DEF PluginInv, WrapperInv, WrapperTypes, Sound
  <2>2. Others(c) /\ call'[c].pc = "close"
    BY <1>0, <1>2, <2>1, BackendEffect, Zenon DEF Finalize, Pcs
  <2>3. InService' = InService
    BY <1>0, <2>2, Zenon DEF InService, Others, Shown, Serving
  <2>4. Shown(backend)' = None /\ Shown(backend) # None
    <3>1. [id |-> backend.id, cfg |-> backend.cfg] \in [id : Ids, cfg : Configs]
      BY <2>1
    <3> QED
      BY <1>0, <1>2, <3>1, NoneApart, Zenon DEF Shown
  <2>5. Wrapper!Close
    BY <1>0, <2>3, <2>4, Zenon DEF Wrapper!Close, InService
  <2> QED
    BY <2>5, Zenon DEF Wrapper!Next
<1> QED
  BY <1>1, <1>2

\* Every step of a call is a step of the contract, or shows nothing.
LEMMA CallRefines ==
    ASSUME PluginInv, NEW c \in Callers, Start(c) \/ BackendStep(c) \/ LockStep(c)
    PROVE  Wrapper!Next \/ UNCHANGED Wrapper!vars
<1>0. call \in [Callers -> Calls] /\ deployment \in Deployments
  BY Zenon DEF PluginInv, WrapperInv, WrapperTypes, PodInv
<1>a. ASSUME Return(c), UNCHANGED <<config, backend>> PROVE Wrapper!Next
  <2>1. Others(c) /\ call'[c].pc = "idle"
    BY <1>0, <1>a, ReturnEffect, IdleTypes, Zenon
  <2> QED
    BY <1>a, <2>1, Unserved DEF Serving
<1>b. ASSUME NEW pc \in Pcs \ Serving, Goto(c, pc), UNCHANGED <<config, backend>> PROVE Wrapper!Next
  BY <1>0, <1>b, GotoEffect, Unserved, Zenon
<1>c. ASSUME NEW pc \in Pcs, Goto(c, pc), pc \in Serving, call[c].pc \in Serving, UNCHANGED <<config, backend>>
      PROVE  UNCHANGED Wrapper!vars
  BY <1>0, <1>c, GotoEffect, StillServed, Zenon
<1>1. CASE Start(c)
  <2>1. Others(c) /\ call'[c].pc = "enter"
    BY <1>0, <1>1, StartEffect, Zenon
  <2> QED
    BY <1>1, <2>1, Unserved, Zenon DEF Start, Serving
<1>2. CASE Check(c)
  <2>1. CASE Leave(c)
    BY <1>2, <1>a, <2>1, Zenon DEF Check, Leave
  <2>2. CASE Build(c) /\ ~Refused(c)
    <3>1. PluginInv'
      BY <1>2, CheckKeeps
    <3>2. Others(c) /\ call'[c].pc = "build"
      BY <1>0, <2>2, <3>1 DEF PluginInv, WrapperInv, WrapperTypes, Build, Others, Calls
    <3> QED
      BY <1>2, <3>2, Unserved, Zenon DEF Check, Serving
  <2> QED
    BY <1>2, <2>1, <2>2, Zenon DEF Check
<1>3. CASE Dial(c) \/ ProbeStatus(c) \/ NameKey(c) \/ AcquireLock(c)
  <2>1. {"status", "store", "check"} \subseteq Pcs \ Serving
    BY DEF Pcs, Serving
  <2> QED
    BY <1>3, <1>a, <1>b, <2>1, Zenon DEF Dial, ProbeStatus, StatusFails, NameKey, AcquireLock, Leave
<1>4. CASE GlobVersions(c) \/ ListVersion(c) \/ LoadVersion(c)
  <2>1. PluginInv'
    BY <1>4, GlobKeeps, ListKeeps, LoadKeeps
  <2>2. CASE Leave(c)
    BY <1>4, <1>a, <2>2, Zenon DEF GlobVersions, ListVersion, LoadVersion, Leave
  <2>3. CASE ~Leave(c)
    <3>1. Others(c) /\ call'[c].pc \notin Serving
      <4>1. call' \in [Callers -> Calls]
        BY <2>1, Zenon DEF PluginInv, WrapperInv, WrapperTypes
      <4>2. CASE GlobVersions(c)
        <5>1. Found \in SUBSET Versions /\ {} \in SUBSET Versions /\ "list" \in Pcs \ Serving
          BY Zenon DEF Found, Pcs, Serving
        <5>2. Reads(c, "list", Found, {})
          BY <2>3, <4>2, Zenon DEF GlobVersions, Reads, Found
        <5> QED
          BY <1>0, <5>1, <5>2, TodoEffect, Zenon
      <4>3. CASE ListVersion(c)
        BY <1>0, <2>3, <4>1, <4>3 DEF ListVersion, Others, Calls, Serving
      <4>4. CASE LoadVersion(c)
        <5>0. PICK pc \in {"load", "store"} : \E T : \E b : Holds(c, pc, T, b)
          BY <2>3, <4>4, Zenon DEF LoadVersion, Holds
        <5>1. PICK T, b : Holds(c, pc, T, b)
          BY <5>0, Zenon
        <5>2. PICK h \in Calls : h = call[c]
          BY <1>0
        <5>3. call' = [call EXCEPT ![c] = [h EXCEPT !.pc = pc, !.todo = T, !.b = b]]
          BY <5>1, <5>2, Zenon DEF Holds
        <5>4. call'[c] = [h EXCEPT !.pc = pc, !.todo = T, !.b = b]
          BY <1>0, <5>3
        <5>5. call'[c].pc = pc
          BY <5>4 DEF Calls
        <5> QED
          BY <1>0, <4>1, <5>3, <5>5 DEF Others, Serving
      <4> QED
        BY <1>4, <4>2, <4>3, <4>4, Zenon
    <3> QED
      BY <1>4, <3>1, Unserved, Zenon DEF GlobVersions, ListVersion, LoadVersion
  <2> QED
    BY <2>2, <2>3, Zenon
<1>5. CASE StoreBackend(c)
  BY <1>5, StoreOpens
<1>6. CASE Challenge(c) \/ ReviewToken(c)
  <2>1. {"evidence", "lookup"} \subseteq Pcs /\ {"challenge", "evidence", "review", "lookup"} \subseteq Serving
    BY DEF Pcs, Serving
  <2> QED
    BY <1>6, <1>a, <1>c, <2>1 DEF Challenge, ReviewToken
<1>7. CASE SendEvidence(c) \/ VerifyPodBinding(c)
  <2>1. PluginInv'
    BY <1>7, EvidenceKeeps, LookupKeeps
  <2>2. CASE Return(c)
    BY <1>7, <1>a, <2>2 DEF SendEvidence, VerifyPodBinding
  <2>3. CASE ~Return(c)
    <3>1. /\ Others(c) /\ call'[c].pc \in Serving /\ call[c].pc \in Serving /\ call'[c].b = call[c].b
      <4>1. call' \in [Callers -> Calls]
        BY <2>1 DEF PluginInv, WrapperInv, WrapperTypes
      <4>2. CASE SendEvidence(c)
        BY <1>0, <4>1, <4>2 DEF SendEvidence, Others, Calls, Serving
      <4>3. CASE VerifyPodBinding(c)
        BY <1>0, <2>3, <4>1, <4>3 DEF VerifyPodBinding, Others, Calls, Serving
      <4> QED
        BY <1>7, <4>2, <4>3
    <3> QED
      BY <1>7, <3>1, StillServed, Zenon DEF SendEvidence, VerifyPodBinding
  <2> QED
    BY <2>2, <2>3
<1>8. CASE Answer(c) \/ UseRing(c)
  <2>1. CASE Return(c)
    BY <1>8, <1>a, <2>1, Zenon DEF Answer, UseRing
  <2>2. CASE call' = [call EXCEPT ![c] = [Idle EXCEPT !.pc = "trace"]]
    <3>1. Others(c) /\ call'[c].pc = "trace"
      BY <1>0, <2>2, TraceEffect, Zenon
    <3> QED
      BY <1>8, <3>1, Unserved DEF Answer, UseRing, Serving
  <2> QED
    BY <1>8, <2>1, <2>2, Zenon DEF Answer, UseRing
<1>9. CASE BackendFails(c) \/ CloseBackend(c) \/ Trace(c)
  BY <1>9, <1>a DEF BackendFails, CloseBackend, Trace
<1>10. CASE CurrentBackend(c) \/ Finalize(c)
  BY <1>10, CurrentBegins, FinalizeCloses
<1> QED
  BY <1>1, <1>2, <1>3, <1>4, <1>5, <1>6, <1>7, <1>8, <1>9, <1>10, Zenon DEF BackendStep, LockStep

\* The wrapper with its lock, its constructions and its backends' many steps
\* implements SealWrapper: at most one backend is in force, it is replaced only
\* after it was closed, and a call ends with the backend it began with.
THEOREM PluginRefines ==
    PluginSpec => ImplementsSealWrapper
<1>1. PluginInit => Wrapper!Init
  <2> SUFFICES ASSUME PluginInit PROVE Wrapper!Init
    OBVIOUS
  <2>1. \A c \in Callers : call[c].pc = "idle"
    BY IdleTypes, Zenon DEF PluginInit, ProcessInit
  <2>2. InService = [c \in Callers |-> None] /\ Shown(backend) = None /\ config = None
    BY <2>1, Zenon DEF InService, Serving, Shown, PluginInit, ProcessInit
  <2> QED
    BY <2>2 DEF Wrapper!Init, InService
<1>2. PluginInv /\ [PluginNext]_pluginVars => [Wrapper!Next]_(Wrapper!vars)
  <2> SUFFICES ASSUME PluginInv, [PluginNext]_pluginVars PROVE [Wrapper!Next]_(Wrapper!vars)
    OBVIOUS
  <2>1. CASE \E c \in Callers : Start(c) \/ BackendStep(c) \/ LockStep(c)
    BY <2>1, CallRefines
  <2>2. CASE ProcessRestarts \/ MachineReboots
    <3>1. ProcessLost
      BY <2>2 DEF ProcessRestarts, MachineReboots
    <3>2. \A c \in Callers : call'[c].pc = "idle"
      BY <3>1, IdleTypes, Zenon DEF ProcessLost
    <3>3. InService' = [c \in Callers |-> None] /\ Shown(backend)' = None /\ config' = None
      BY <3>1, <3>2, Zenon DEF InService, Serving, Shown, ProcessLost
    <3>4. Wrapper!Restart
      BY <3>3, Zenon DEF Wrapper!Restart, InService
    <3> QED
      BY <3>4 DEF Wrapper!Next
  <2>3. CASE UNCHANGED processVars
    <3>1. InService' = InService /\ Shown(backend)' = Shown(backend) /\ config' = config
      BY <2>3 DEF InService, Shown, processVars
    <3> QED
      BY <3>1, Zenon DEF Wrapper!vars, InService
  <2> QED
    BY <2>1, <2>2, <2>3 DEF PluginNext, SurroundingsChange, pluginVars
<1> QED
  BY <1>1, <1>2, PluginInductive, PTL DEF PluginSpec, ImplementsSealWrapper, Wrapper!Spec
================================================================================
