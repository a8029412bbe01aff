-------------------------------- MODULE LocalTpm --------------------------------
(***************************************************************************)
(* The local TPM state directory: `tpm provision` seals the key of a        *)
(* recovery package and writes a sealed object and its metadata, one file    *)
(* after the other and neither atomically; the plugin lists, reads and       *)
(* unseals them.  A reboot may change the PCRs that a key is sealed to.      *)
(***************************************************************************)
EXTENDS Integers, FiniteSets

CONSTANTS
    Provisioners,       \* shells that run tpm provision
    Versions,           \* key versions that operators name
    Clusters,           \* clusters whose packages are at hand; each has one key
    ExpectedCluster,    \* -cluster-id, None if it is not given
    PolicyIds,          \* -policy-id of tpm provision
    MaxProvisions,      \* bound on the runs of tpm provision
    MaxEdits,           \* bound on the edits of a status
    BootStates,         \* values of the selected PCRs
    None, Torn          \* no file; a file that is truncated or half written

Modes == {"tpm-only", "secureboot"}
SealedBlobs ==
    {b \in [key : Clusters, mode : Modes, boot : BootStates \union {None}] :
        (b.mode = "tpm-only") <=> (b.boot = None)}

\* Statuses that LocalKeyMetadata.Validate accepts, and those of a key that
\* localUsableKeyRefs lists and KeyVersion.canDecrypt lets open a blob.
Usable == {"active", "decrypt-only"}
Statuses == Usable \union {"pending", "retired"}
Metadata == [cluster : Clusters, status : Statuses, policy : PolicyIds]

ASSUME TpmAssumption ==
    /\ Versions \subseteq Nat \ {0}
    /\ ExpectedCluster \in Clusters \union {None} /\ None \notin Clusters
    /\ BootStates # {} /\ None \notin BootStates
    /\ None # Torn /\ {None, Torn} \cap (SealedBlobs \union Metadata) = {}

VARIABLES
    sealed,     \* v<N>.sealed
    meta,       \* v<N>.metadata.json
    boot,       \* the platform's PCRs
    policies,   \* history: policy ids that each version was provisioned with
    withdrawn,  \* history: versions that were edited to a status that is not usable
    provisions, \* runs of tpm provision so far
    edits,      \* edits of a status so far
    prov        \* what each provisioning shell is doing

historyVars == <<policies, withdrawn>>
tpmVars == <<sealed, meta, boot, prov, provisions, edits, historyVars>>

NotProvisioning == [pc |-> "idle"]

TpmInit ==
    /\ sealed = [v \in Versions |-> None]
    /\ meta = [v \in Versions |-> None]
    /\ boot = CHOOSE b \in BootStates : TRUE
    /\ policies = [v \in Versions |-> {}] /\ withdrawn = {}
    /\ prov = [s \in Provisioners |-> NotProvisioning]
    /\ provisions = 0 /\ edits = 0

--------------------------------------------------------------------------------
(* tpm provision *)

\* Slip: the package is taken whatever its cluster.
PackageExpectedAny(cluster) == TRUE

\* The package's cluster is the one that the command names, if it names one.
PackageExpected(cluster) == ExpectedCluster # None => cluster = ExpectedCluster

\* What a policy session of the TPM attests now: secure boot includes the PCRs.
policySession(mode) == IF mode = "secureboot" THEN boot ELSE None

SealKey(cluster, mode) == [key |-> cluster, mode |-> mode, boot |-> policySession(mode)]

\* The TPM releases the key to a session that satisfies its policy.
UnsealKey(blob) == blob.boot = policySession(blob.mode)

\* The key is sealed and unsealed for a test before anything is written.
StoreLocalKey(blob) == UnsealKey(blob)

\* The package's key is recovered and sealed under the operator's version number.
Provision(s) ==
    /\ prov[s].pc = "idle"
    /\ provisions < MaxProvisions
    /\ provisions' = provisions + 1
    /\ \E v \in Versions, cluster \in Clusters, mode \in Modes :
        /\ PackageExpected(cluster)
        /\ StoreLocalKey(SealKey(cluster, mode))
        /\ prov' = [prov EXCEPT ![s] =
              [pc |-> "sealed", version |-> v, blob |-> SealKey(cluster, mode)]]
    /\ UNCHANGED <<sealed, meta, boot, edits, historyVars>>

\* writeLocalJSON truncates the file before it writes; the two are apart.
WriteSealed(s) ==
    LET p == prov[s] IN
    /\ \/ /\ p.pc = "sealed"
          /\ sealed' = [sealed EXCEPT ![p.version] = Torn]
          /\ prov' = [prov EXCEPT ![s].pc = "sealing"]
       \/ /\ p.pc = "sealing"
          /\ sealed' = [sealed EXCEPT ![p.version] = p.blob]
          /\ prov' = [prov EXCEPT ![s].pc = "meta"]
    /\ UNCHANGED <<meta, boot, provisions, edits, historyVars>>

\* The metadata follows; a provisioned version is always active and has the
\* command's -policy-id.  Nothing reads the pcr-policy.json that is written last.
WriteMetadata(s) ==
    LET p == prov[s] IN
    /\ \/ /\ p.pc = "meta"
          /\ meta' = [meta EXCEPT ![p.version] = Torn]
          /\ prov' = [prov EXCEPT ![s].pc = "describing"]
          /\ UNCHANGED policies
       \/ /\ p.pc = "describing"
          /\ \E q \in PolicyIds :
                /\ meta' = [meta EXCEPT ![p.version] =
                               [cluster |-> p.blob.key, status |-> "active", policy |-> q]]
                /\ policies' = [policies EXCEPT ![p.version] = @ \union {q}]
          /\ prov' = [prov EXCEPT ![s] = NotProvisioning]
    /\ UNCHANGED <<sealed, boot, provisions, edits, withdrawn>>

\* The command fails or is killed wherever it is.
ProvisionInterrupted(s) ==
    /\ prov[s].pc # "idle"
    /\ prov' = [prov EXCEPT ![s] = NotProvisioning]
    /\ UNCHANGED <<sealed, meta, boot, provisions, edits, historyVars>>

\* An operator edits the status of a version: no command changes it.
StatusEdited(v) ==
    /\ meta[v] \in Metadata
    /\ edits < MaxEdits
    /\ edits' = edits + 1
    /\ \E status \in Statuses :
          /\ meta' = [meta EXCEPT ![v].status = status]
          /\ withdrawn' = IF status \in Usable THEN withdrawn ELSE withdrawn \union {v}
    /\ UNCHANGED <<sealed, boot, prov, provisions, policies>>

\* The machine restarts, perhaps with other PCRs.
Reboot ==
    /\ boot' \in BootStates
    /\ prov' = [s \in Provisioners |-> NotProvisioning]
    /\ UNCHANGED <<sealed, meta, provisions, edits, historyVars>>

TpmNext ==
    \/ \E s \in Provisioners : Provision(s) \/ WriteSealed(s) \/ WriteMetadata(s) \/ ProvisionInterrupted(s)
    \/ \E v \in Versions : StatusEdited(v)

--------------------------------------------------------------------------------
(* Loading, one file at a time *)

\* A file is there and decodes.
Readable(file) == file \notin {None, Torn}

\* The version's metadata is valid for the cluster.
MetadataValid(v, cluster) == Readable(meta[v]) /\ meta[v].cluster = cluster

\* ReadLocalState and UnsealKey succeed for a listed version.
Loads(v, cluster) ==
    /\ MetadataValid(v, cluster)
    /\ Readable(sealed[v])
    /\ UnsealKey(sealed[v])

ActiveIn(ring) == {v \in DOMAIN ring : ring[v].status = "active"}

\* NewRing accepts the versions.
NewRing(ring) == Cardinality(ActiveIn(ring)) = 1
================================================================================
