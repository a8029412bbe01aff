-------------------------------- MODULE KmsPlugin --------------------------------
(***************************************************************************)
(* The KMS plugin inside an OpenBao process: the wrapper whose lock guards    *)
(* its configuration and backend, the broker backend with its connection,    *)
(* and the local TPM backend with its key ring.  Calls of OpenBao run         *)
(* concurrently with each other, with tpm provision and with the pod's life.  *)
(***************************************************************************)
EXTENDS LocalTpm, KubernetesWorkload

CONSTANTS
    Callers,    \* OpenBao's goroutines that call the wrapper
    Configs,    \* configurations that OpenBao may pass
    Cluster,    \* the cluster_id of the configurations
    Free        \* nobody holds the lock

Ids == 1..(2 * Cardinality(Callers) + 1)
Entries == [key : Clusters, status : Statuses, policy : PolicyIds]
Rings == UNION {[S -> Entries] : S \in SUBSET Versions}
Backends == [id : Ids \union {0}, cfg : Configs, ring : Rings]

ASSUME PluginAssumption ==
    /\ IsFiniteSet(Callers) /\ Free \notin Callers
    /\ \A d \in Deployments : d.callers \subseteq Callers /\ d.configs \subseteq Configs
    /\ Configs \subseteq [mode : {"broker", "local-tpm", ""}, location : BOOLEAN, identity : BOOLEAN,
                          evidence : {"kubernetes-workload", "development-subject"},
                          version : Versions \union {0}]
    /\ Cluster \in Clusters
    /\ None \notin Configs \union Backends \union [id : Ids, cfg : Configs]

Ops == {"SetConfig", "Init", "Encrypt", "Decrypt", "KeyId", "Finalize"}
NoRing == [v \in {} |-> None]

VARIABLES
    config,     \* Wrapper.config, None before SetConfig
    backend,    \* Wrapper.backend: [id, cfg, ring] or None
    lock,       \* the writer that holds Wrapper.mu, or Free
    conns,      \* backends whose gRPC connection is open
    call,       \* what each caller is doing
    blobs       \* history: what was wrapped with the local ring

processVars == <<config, backend, lock, conns, call>>
pluginVars == <<processVars, blobs, tpmVars, workloadVars>>

Idle == [pc |-> "idle", op |-> "none", b |-> None, todo |-> {}, refs |-> {},
         claims |-> NoClaims, node |-> Unscheduled]

ProcessInit ==
    /\ config = None /\ backend = None /\ lock = Free /\ conns = {}
    /\ call = [c \in Callers |-> Idle]

PluginInit ==
    /\ ProcessInit
    /\ blobs = {}
    /\ TpmInit
    /\ WorkloadInit

Goto(c, pc) == call' = [call EXCEPT ![c].pc = pc]
Return(c) == call' = [call EXCEPT ![c] = Idle]

Environment == <<blobs, tpmVars, workloadVars>>

--------------------------------------------------------------------------------
(* SetConfig and Init, under the lock *)

\* parseConfig: broker needs broker_addr and node_id, local-tpm needs state_path
\* and key_id.
ConfigValid(cfg) == cfg.mode \in {"broker", "local-tpm"} /\ cfg.location /\ cfg.identity

\* OpenBao calls; SetConfig parses before it takes the lock.
Start(c) ==
    /\ call[c].pc = "idle" /\ c \in deployment.callers
    /\ \/ \E op \in Ops \ {"SetConfig"} :
            call' = [call EXCEPT ![c].pc = "enter", ![c].op = op]
       \/ \E cfg \in deployment.configs :
            /\ ConfigValid(cfg)
            /\ call' = [call EXCEPT ![c].pc = "enter", ![c].op = "SetConfig",
                                    ![c].b = [id |-> 0, cfg |-> cfg, ring |-> NoRing]]
    /\ UNCHANGED <<config, backend, lock, conns, Environment>>

AcquireLock(c) ==
    /\ call[c].pc = "enter" /\ call[c].op \in {"SetConfig", "Init"}
    /\ lock = Free
    /\ lock' = c
    /\ Goto(c, "check")
    /\ UNCHANGED <<config, backend, conns, Environment>>

\* Slip: the early return leaves the lock held.
LeaveLocked(c) == Return(c) /\ UNCHANGED lock

\* The call returns and its deferred Unlock runs.
Leave(c) == Return(c) /\ lock' = Free

\* SetConfig refuses a second backend; Init needs a configuration and is done
\* when there is a backend.
Refused(c) == backend # None \/ (call[c].op = "Init" /\ config = None)

First(S) == CHOOSE v \in S : \A w \in S : v <= w

\* A backend is distinguished from every other that is still referred to.
IdsInUse ==
    conns \union {b.id : b \in ({backend} \union {call[c].b : c \in Callers}) \ {None}}

\* newBackendLocked starts to build a backend for the caller.
Building(c) ==
    [id |-> First(Ids \ IdsInUse),
     cfg |-> IF call[c].op = "Init" THEN config ELSE call[c].b.cfg,
     ring |-> NoRing]
Build(c) == call' = [call EXCEPT ![c].pc = "build", ![c].b = Building(c)]

\* Slip: the configuration is stored before its backend exists.
CheckStoring(c) ==
    /\ call[c].pc = "check"
    /\ \/ Refused(c) /\ Leave(c) /\ UNCHANGED config
       \/ ~Refused(c) /\ Build(c) /\ config' = Building(c).cfg /\ UNCHANGED lock
    /\ UNCHANGED <<backend, conns, Environment>>

Check(c) ==
    /\ call[c].pc = "check"
    /\ \/ Refused(c) /\ Leave(c)
       \/ ~Refused(c) /\ Build(c) /\ UNCHANGED lock
    /\ UNCHANGED <<config, backend, conns, Environment>>

--------------------------------------------------------------------------------
(* newBrokerBackend *)

\* Dial options and client; certificates may be unreadable.
Dial(c) ==
    /\ call[c].pc = "build" /\ call[c].b.cfg.mode = "broker"
    /\ \/ /\ conns' = conns \union {call[c].b.id}
          /\ Goto(c, "status")
          /\ UNCHANGED lock
       \/ Leave(c) /\ UNCHANGED conns
    /\ UNCHANGED <<config, backend, Environment>>

\* Slip: a broker that is not ready is given up with its connection open.
StatusFailsOpen(c) == Leave(c) /\ UNCHANGED conns

StatusFails(c) == Leave(c) /\ conns' = conns \ {call[c].b.id}

ProbeStatus(c) ==
    /\ call[c].pc = "status"
    /\ \/ Goto(c, "store") /\ UNCHANGED <<lock, conns>>
       \/ StatusFails(c)
    /\ UNCHANGED <<config, backend, Environment>>

--------------------------------------------------------------------------------
(* newLocalTPMBackend *)

\* The metadata files that are there now are the ones that are read.
GlobVersions(c) ==
    LET found == {v \in Versions : meta[v] # None} IN
    /\ call[c].pc = "build" /\ call[c].b.cfg.mode = "local-tpm"
    /\ \/ found = {} /\ Leave(c)
       \/ /\ found # {}
          /\ call' = [call EXCEPT ![c].pc = "list", ![c].todo = found, ![c].refs = {}]
          /\ UNCHANGED lock
    /\ UNCHANGED <<config, backend, conns, Environment>>

\* The next file is listed if its key is usable, and skipped if it is pending or
\* retired; without a usable key there is nothing to load.
ListVersion(c) ==
    LET v == First(call[c].todo)
        rest == call[c].todo \ {v}
        refs == call[c].refs \union (IF meta[v].status \in Usable THEN {v} ELSE {})
    IN /\ call[c].pc = "list"
       /\ \/ ~MetadataValid(v, Cluster) /\ Leave(c)
          \/ MetadataValid(v, Cluster) /\ rest = {} /\ refs = {} /\ Leave(c)
          \/ /\ MetadataValid(v, Cluster) /\ (rest # {} \/ refs # {})
             /\ call' = IF rest # {}
                        THEN [call EXCEPT ![c].todo = rest, ![c].refs = refs]
                        ELSE [call EXCEPT ![c].pc = "load", ![c].todo = refs, ![c].refs = {}]
             /\ UNCHANGED lock
       /\ UNCHANGED <<config, backend, conns, Environment>>

\* The ring with one more version: its key, and the status and the policy_id that
\* its metadata has by now.
RingWith(ring, v) ==
    [w \in DOMAIN ring \union {v} |->
        IF w = v THEN [key |-> sealed[v].key, status |-> meta[v].status, policy |-> meta[v].policy]
        ELSE ring[w]]

LoadVersion(c) ==
    LET v == First(call[c].todo)
        rest == call[c].todo \ {v}
    IN /\ call[c].pc = "load"
       /\ \/ ~Loads(v, Cluster) /\ Leave(c)
          \/ /\ Loads(v, Cluster)
             /\ call' = [call EXCEPT ![c].pc = IF rest # {} THEN "load" ELSE "store", ![c].todo = rest,
                                     ![c].b = [call[c].b EXCEPT !.ring = RingWith(@, v)]]
             /\ UNCHANGED lock
       /\ UNCHANGED <<config, backend, conns, Environment>>

\* The ring has one active version, and the configured version if there is one.
RingAccepted(b) ==
    b.cfg.mode = "local-tpm" =>
        NewRing(b.ring) /\ (b.cfg.version # 0 => b.cfg.version \in DOMAIN b.ring)

\* Wrapper.config and Wrapper.backend are set; SetConfig goes on to ask for the
\* key's name.
StoreBackend(c) ==
    LET b == call[c].b IN
    /\ call[c].pc = "store"
    /\ \/ ~RingAccepted(b) /\ Leave(c) /\ UNCHANGED <<config, backend>>
       \/ /\ RingAccepted(b)
          /\ backend' = b
          /\ config' = b.cfg
          /\ IF call[c].op = "SetConfig"
             THEN call' = [call EXCEPT ![c].pc = "name", ![c].b = None] /\ UNCHANGED lock
             ELSE Leave(c)
    /\ UNCHANGED <<conns, Environment>>

\* backend.KeyID, whose failure is ignored, still under the lock.
NameKey(c) ==
    /\ call[c].pc = "name"
    /\ Leave(c)
    /\ UNCHANGED <<config, backend, conns, Environment>>

--------------------------------------------------------------------------------
(* Encrypt, Decrypt and KeyId: the lock only guards the choice of the backend *)

CurrentBackend(c) ==
    /\ call[c].pc = "enter" /\ call[c].op \in {"Encrypt", "Decrypt", "KeyId"}
    /\ lock = Free
    /\ IF backend = None THEN Return(c)
       ELSE call' = [call EXCEPT ![c].pc = IF backend.cfg.mode = "broker" THEN "challenge" ELSE "ring",
                                 ![c].b = backend]
    /\ UNCHANGED <<config, backend, lock, conns, Environment>>

Connected(c) == call[c].b.id \in conns

\* The broker issues a challenge, or answers KeyId's status request.
Challenge(c) ==
    /\ call[c].pc = "challenge"
    /\ Connected(c)
    /\ IF call[c].op = "KeyId" THEN Return(c) ELSE Goto(c, "evidence")
    /\ UNCHANGED <<config, backend, lock, conns, Environment>>

\* The token file is read for this call; development evidence has no token.
Evidence(cfg) == IF cfg.evidence = "kubernetes-workload" THEN Token ELSE NoClaims

SendEvidence(c) ==
    /\ call[c].pc = "evidence"
    /\ Connected(c)
    /\ call' = [call EXCEPT ![c].pc = "review", ![c].claims = Evidence(call[c].b.cfg)]
    /\ UNCHANGED <<config, backend, lock, conns, Environment>>

\* In the broker: TokenReview, then, later, the pod lookup.
ReviewToken(c) ==
    /\ call[c].pc = "review"
    /\ IF ClaimsAccepted(call[c].claims) THEN Goto(c, "lookup") ELSE Return(c)
    /\ UNCHANGED <<config, backend, lock, conns, Environment>>

VerifyPodBinding(c) ==
    /\ call[c].pc = "lookup"
    /\ IF BindingAccepted(call[c].claims)
       THEN call' = [call EXCEPT ![c].pc = "answer", ![c].node = VerifiedNode(call[c].claims)]
       ELSE Return(c)
    /\ UNCHANGED <<config, backend, lock, conns, Environment>>

\* The broker's policy allows or denies; requireAllow turns a denial into an error.
Answer(c) ==
    /\ call[c].pc = "answer"
    /\ Connected(c)
    /\ \/ call' = [call EXCEPT ![c] = [Idle EXCEPT !.pc = "trace"]]
       \/ Return(c)
    /\ UNCHANGED <<config, backend, lock, conns, Environment>>

\* The request's key does not fit, the token file is unreadable, or the call to
\* the broker fails: always once the connection is closed.
BackendFails(c) ==
    /\ call[c].pc \in {"challenge", "evidence", "review", "lookup", "answer", "ring"}
    /\ Return(c)
    /\ UNCHANGED <<config, backend, lock, conns, Environment>>

\* Slip: the configured version is used to wrap.
EncryptVersionConfigured(b) == b.cfg.version

\* Ring.Encrypt wraps with the active version.
EncryptVersion(b) == CHOOSE v \in ActiveIn(b.ring) : TRUE

ActiveEntry(b) == b.ring[CHOOSE v \in ActiveIn(b.ring) : TRUE]

\* Ring.Decrypt finds the version, canDecrypt allows its use, and the blob was
\* sealed with its key and authenticated with its policy_id.
Opens(ring, blob) ==
    /\ blob.version \in DOMAIN ring
    /\ ring[blob.version].status \in Usable
    /\ ring[blob.version].key = blob.key
    /\ ring[blob.version].policy = blob.policy

UseRing(c) ==
    LET b == call[c].b IN
    /\ call[c].pc = "ring"
    /\ \/ /\ call[c].op = "Encrypt"
          /\ blobs' = blobs \union {[version |-> EncryptVersion(b), key |-> ActiveEntry(b).key,
                                     policy |-> ActiveEntry(b).policy]}
          /\ call' = [call EXCEPT ![c] = [Idle EXCEPT !.pc = "trace"]]
       \/ /\ call[c].op = "Decrypt"
          /\ \E blob \in blobs : Opens(b.ring, blob)
          /\ call' = [call EXCEPT ![c] = [Idle EXCEPT !.pc = "trace"]]
          /\ UNCHANGED blobs
       \/ call[c].op = "KeyId" /\ Return(c) /\ UNCHANGED blobs
    /\ UNCHANGED <<config, backend, lock, conns, tpmVars, workloadVars>>

\* A call that succeeded reads the configured mode under the lock for its trace.
Trace(c) ==
    /\ call[c].pc = "trace"
    /\ lock = Free
    /\ Return(c)
    /\ UNCHANGED <<config, backend, lock, conns, Environment>>

--------------------------------------------------------------------------------
(* Finalize: the backend is taken under the lock and closed after it *)

Finalize(c) ==
    /\ call[c].pc = "enter" /\ call[c].op = "Finalize"
    /\ lock = Free
    /\ backend' = None
    /\ IF backend = None THEN Return(c)
       ELSE call' = [call EXCEPT ![c].pc = "close", ![c].b = backend]
    /\ UNCHANGED <<config, lock, conns, Environment>>

CloseBackend(c) ==
    /\ call[c].pc = "close"
    /\ conns' = conns \ {call[c].b.id}
    /\ Return(c)
    /\ UNCHANGED <<config, backend, lock, Environment>>

--------------------------------------------------------------------------------
(* The process and its surroundings *)

ProcessLost ==
    /\ config' = None /\ backend' = None /\ lock' = Free /\ conns' = {}
    /\ call' = [c \in Callers |-> Idle]

\* OpenBao ends and starts again, in the pod that has its name now.
ProcessRestarts ==
    /\ ProcessLost
    /\ pod.node # Unscheduled
    /\ self' = pod
    /\ UNCHANGED <<blobs, tpmVars, pod, uids, deployment>>

MachineReboots ==
    /\ deployment.mode = "local-tpm"
    /\ ProcessLost
    /\ Reboot
    /\ UNCHANGED <<blobs, workloadVars>>

\* Each deployment has its own surroundings.
SurroundingsChange ==
    /\ \/ deployment.mode = "local-tpm" /\ TpmNext /\ UNCHANGED workloadVars
       \/ deployment.mode = "broker" /\ WorkloadNext /\ UNCHANGED tpmVars
    /\ UNCHANGED <<processVars, blobs>>

BackendStep(c) ==
    \/ Check(c) \/ Dial(c) \/ ProbeStatus(c)
    \/ GlobVersions(c) \/ ListVersion(c) \/ LoadVersion(c)
    \/ StoreBackend(c) \/ NameKey(c)
    \/ Challenge(c) \/ SendEvidence(c) \/ ReviewToken(c) \/ VerifyPodBinding(c) \/ Answer(c)
    \/ BackendFails(c) \/ UseRing(c) \/ CloseBackend(c)

LockStep(c) == AcquireLock(c) \/ CurrentBackend(c) \/ Trace(c) \/ Finalize(c)

PluginNext ==
    \/ \E c \in Callers : Start(c) \/ BackendStep(c) \/ LockStep(c)
    \/ ProcessRestarts \/ MachineReboots \/ SurroundingsChange

PluginSpec == PluginInit /\ [][PluginNext]_pluginVars

\* Goroutines run, calls to the broker end, and a sync.RWMutex starves nobody.
FairPluginSpec ==
    PluginSpec /\ \A c \in Callers : WF_pluginVars(BackendStep(c)) /\ SF_pluginVars(LockStep(c))
--------------------------------------------------------------------------------
(* Properties *)

\* The plugin's and the state directory's variables have their types: in
\* particular Ring.Encrypt only ever names a version that exists.
PluginTypeOK ==
    /\ config \in Configs \union {None}
    /\ backend = None \/ backend \in Backends
    /\ lock \in Callers \union {Free}
    /\ conns \subseteq Ids
    /\ \A c \in Callers : call[c].b = None \/ call[c].b \in Backends
    /\ blobs \subseteq [version : Versions, key : Clusters, policy : PolicyIds]
    /\ \A v \in Versions : sealed[v] \in SealedBlobs \union {None, Torn} /\ meta[v] \in Metadata \union {None, Torn}
    /\ pod \in Pods /\ self \in Pods

\* newBrokerBackend, Finalize and the calls between them leak no connection and
\* close none that a backend in force needs: the open connections are those of
\* Wrapper.backend and of a backend that is being built or closed right now.
ConnectionsOwned ==
    /\ \A id \in conns :
          \/ backend # None /\ backend.id = id
          \/ \E c \in Callers : call[c].pc \in {"status", "store", "close"} /\ call[c].b.id = id
    /\ backend # None /\ backend.cfg.mode = "broker" => backend.id \in conns

\* The node that Verifier.Verify hands to the node policy is the node where the
\* calling process runs, although the pod may have been deleted and created
\* elsewhere between TokenReview and LookupPod; with pod binding it is always known.
VerifiedNodeHostsCaller ==
    \A c \in Callers : call[c].pc = "answer" =>
        \/ call[c].node = self.node
        \/ call[c].node = Unscheduled /\ ~deployment.binding

\* Whatever LoadLocalKeyring finds after interrupted or repeated tpm provision
\* runs, edits of the metadata, reboots and restarts: the ring that comes into
\* force opens every blob that was ever wrapped, unless an operator edited its
\* version to pending or retired, or provisioned it under two policy ids.
WrappedStaysReadable ==
    backend # None /\ backend.cfg.mode = "local-tpm" =>
        \A blob \in blobs :
            blob.version \notin withdrawn /\ policies[blob.version] = {blob.policy} =>
                Opens(backend.ring, blob)

Shown(b) == IF b = None THEN None ELSE [id |-> b.id, cfg |-> b.cfg]

Serving == {"challenge", "evidence", "review", "lookup", "answer", "ring"}

Wrapper == INSTANCE SealWrapper WITH
    current <- Shown(backend),
    serving <- [c \in Callers |-> IF call[c].pc \in Serving THEN Shown(call[c].b) ELSE None],
    settings <- config

\* The wrapper, with its lock, its constructions and its backends' many steps,
\* does what SealWrapper promises.
ImplementsSealWrapper == Wrapper!Spec

\* Every call that OpenBao makes returns: no early return keeps Wrapper.mu, and
\* a Finalize under way does not strand the calls on the backend it closes.
CallsReturn == \A c \in Callers : (call[c].pc # "idle") ~> (call[c].pc = "idle")
================================================================================
