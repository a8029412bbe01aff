------------------------------ MODULE KeyLifecycle ------------------------------
(***************************************************************************)
(* What the key_versions table of one (cluster_id, key_id) promises to the  *)
(* code that wraps and unwraps with it: version 1 is created active, a next *)
(* version is added as pending, and a pending version is promoted while the *)
(* active one becomes decrypt-only.  No version ever loses its key.         *)
(*                                                                         *)
(* KeyRotation implements this; UnsealService is built on top of it.        *)
(***************************************************************************)
EXTENDS Integers

CONSTANTS
    MaxKeyVersion,  \* the largest key version (math.MaxUint32 in the code)
    Materials       \* the keys a version's payload can hold; "none" is no key

ASSUME MaxKeyVersionAssumption == MaxKeyVersion \in Nat \ {0}
ASSUME NoMaterialAssumption == "none" \in Materials

VARIABLES
    keyStatus,      \* key_versions.status; "absent" is a version without a row
    keyMaterial     \* key_versions.protected_payload

lifecycleVars == <<keyStatus, keyMaterial>>

Keys == Materials \ {"none"}
Versions == 1..MaxKeyVersion

\* keyring.Status; no code writes "retired".
KeyStatuses == {"absent", "pending", "active", "decrypt-only"}

\* Statuses that keyForDecrypt and the unwrap policy accept.
UsableStatuses == {"active", "decrypt-only"}

Present == {v \in Versions : keyStatus[v] # "absent"}
Active == {v \in Versions : keyStatus[v] = "active"}
Usable == {v \in Versions : keyStatus[v] \in UsableStatuses}

LifecycleInit ==
    /\ keyStatus = [v \in Versions |-> "absent"]
    /\ keyMaterial = [v \in Versions |-> "none"]

\* The first key of a cluster.
CreateKey ==
    /\ Present = {}
    /\ keyStatus' = [keyStatus EXCEPT ![1] = "active"]
    /\ \E m \in Keys : keyMaterial' = [keyMaterial EXCEPT ![1] = m]

\* A pending key, newer than every other, while an active key exists.
AddPendingKey ==
    /\ Active # {}
    /\ \E v \in Versions \ Present, m \in Keys :
          /\ \A u \in Present : u < v /\ keyStatus[u] # "pending"
          /\ keyStatus' = [keyStatus EXCEPT ![v] = "pending"]
          /\ keyMaterial' = [keyMaterial EXCEPT ![v] = m]

\* The switch to the pending key.
PromoteKey ==
    /\ \E a \in Active, v \in Versions :
          /\ keyStatus[v] = "pending"
          /\ keyStatus' = [keyStatus EXCEPT ![a] = "decrypt-only", ![v] = "active"]
    /\ UNCHANGED keyMaterial

LifecycleNext == CreateKey \/ AddPendingKey \/ PromoteKey

LifecycleSpec == LifecycleInit /\ [][LifecycleNext]_lifecycleVars
================================================================================
