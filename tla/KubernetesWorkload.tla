--------------------------- MODULE KubernetesWorkload ---------------------------
(***************************************************************************)
(* The workload identity of an OpenBao pod: the pod may be deleted and       *)
(* created again under its name while its old process still runs; the        *)
(* broker reviews the process's token and then looks the pod up, two calls   *)
(* to the Kubernetes API with time between them.                             *)
(***************************************************************************)
EXTENDS Integers

CONSTANTS
    Nodes,          \* Kubernetes nodes
    MaxUID,         \* bound on the pods that are ever created
    Deployments,    \* how OpenBao and the broker may be set up
    Unscheduled     \* no node

ASSUME WorkloadAssumption ==
    /\ MaxUID \in Nat \ {0}
    /\ Nodes # {} /\ Unscheduled \notin Nodes
    /\ \A d \in Deployments :
          d.binding \in BOOLEAN /\ d.nodeClaim \in BOOLEAN /\ d.audience \in BOOLEAN /\ d.account \in BOOLEAN

VARIABLES
    pod,        \* the pod of that name in the Kubernetes API; uid 0 is no pod
    uids,       \* pods created so far
    self,       \* the pod in which the process runs
    deployment  \* how tokens are issued and what the broker requires

workloadVars == <<pod, uids, self, deployment>>

NoPod == [uid |-> 0, node |-> Unscheduled]
Pods == [uid : 0..MaxUID, node : Nodes \union {Unscheduled}]

WorkloadInit ==
    /\ uids = 1
    /\ pod = [uid |-> 1, node |-> CHOOSE n \in Nodes : TRUE]
    /\ self = pod
    /\ deployment \in Deployments

--------------------------------------------------------------------------------
(* The cluster *)

PodDeleted ==
    /\ pod # NoPod
    /\ pod' = NoPod
    /\ UNCHANGED <<uids, self, deployment>>

PodCreated ==
    /\ pod = NoPod
    /\ uids < MaxUID
    /\ uids' = uids + 1
    /\ pod' = [uid |-> uids', node |-> Unscheduled]
    /\ UNCHANGED <<self, deployment>>

PodScheduled ==
    /\ pod # NoPod /\ pod.node = Unscheduled
    /\ \E n \in Nodes : pod' = [pod EXCEPT !.node = n]
    /\ UNCHANGED <<uids, self, deployment>>

WorkloadNext == PodDeleted \/ PodCreated \/ PodScheduled

--------------------------------------------------------------------------------
(* Tokens and their verification *)

\* The projected token names the pod it was issued for, and its node where the
\* API server adds that claim.
Token ==
    [podUID |-> self.uid, node |-> IF deployment.nodeClaim THEN self.node ELSE Unscheduled]

NoClaims == [podUID |-> 0, node |-> Unscheduled]

\* TokenReview authenticates a bound token while its pod exists.
Authenticated(token) == pod.uid = token.podUID

\* claimsFromStatus: audience and service account are the configured ones.
\* A development subject is not Kubernetes evidence and does not decode.
ClaimsAccepted(token) ==
    /\ token # NoClaims
    /\ Authenticated(token)
    /\ deployment.audience
    /\ deployment.account

\* Slip: the pod is found by its name alone.
PodMatchesName(claims) == pod # NoPod

\* The pod that is looked up is the token's.
PodMatches(claims) == pod # NoPod /\ pod.uid = claims.podUID

\* verifyPodBinding accepts the pod that it finds now.
BindingAccepted(claims) ==
    deployment.binding =>
        /\ PodMatches(claims)
        /\ pod.node # Unscheduled
        /\ claims.node # Unscheduled => claims.node = pod.node

\* The node that goes into the policy.
VerifiedNode(claims) == IF deployment.binding THEN pod.node ELSE claims.node
================================================================================
