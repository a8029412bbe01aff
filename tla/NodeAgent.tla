------------------------------- MODULE NodeAgent -------------------------------
(***************************************************************************)
(* `bao-unseal-agent run`: the publish loop of a node against a broker that *)
(* may be unreachable, slow or refuse, and the node evidence it keeps fresh *)
(* there.                                                                   *)
(*                                                                         *)
(* Time is relative: every deadline is the time that is left until it, and  *)
(* Tick takes one unit from each.  A call that the agent has given up may   *)
(* still be served until its deadline, which gRPC tells the broker.         *)
(***************************************************************************)
EXTENDS Integers

CONSTANTS
    Interval,       \* -interval
    Timeout,        \* -timeout of an attempt
    RequestedTTL,   \* -ttl
    BrokerTTL,      \* node_evidence_ttl_seconds of the broker
    ChallengeTTL,   \* lifetime of a challenge at the broker
    MaxFailures,    \* -max-failures, 0 to retry forever
    Skews,          \* how far the agent's clock may be ahead of the broker's
    Tolerated,      \* failed attempts that the configuration is meant to bear
    CountCap        \* bound on the failure count that is kept

\* Slip: the requested lifetime is not capped.
EvidenceTTLRequested == RequestedTTL

\* acceptedNodeEvidenceTTL of the broker
EvidenceTTL == IF RequestedTTL > BrokerTTL THEN BrokerTTL ELSE RequestedTTL

\* parseRunOptions and publishOptionsFromFlags accept the flags, and the
\* lifetime covers the tolerated failures and the attempts around them.
ASSUME AgentAssumption ==
    /\ Interval \in Nat \ {0}
    /\ Timeout \in Nat \ {0}
    /\ RequestedTTL \in Nat /\ BrokerTTL \in Nat /\ Interval < RequestedTTL
    /\ ChallengeTTL \in Nat \ {0}
    /\ MaxFailures \in Nat
    /\ Skews \subseteq Int
    /\ Tolerated \in Nat
    /\ CountCap \in Nat /\ Tolerated < CountCap /\ MaxFailures <= CountCap
    /\ (Tolerated + 1) * (Interval + Timeout) + 2 * Timeout < EvidenceTTL

VARIABLES
    pc,         \* where the loop is
    left,       \* time left of the attempt's context
    wait,       \* time left until the next attempt
    failed,     \* whether the attempt that was just made failed
    failures,   \* consecutive failures
    challenge,  \* time left of the attempt's challenge, by the broker's clock
    row,        \* time left of the row that the broker's handler is about to store
    late,       \* handlers of abandoned calls: their row, the time left of their context
    life,       \* time left of the stored evidence, 0 when it is stale or missing
    up,         \* whether broker and TPM serve the agent
    skew,       \* agent's clock minus broker's clock
    unbroken    \* history: the loop stored evidence, ran on, and nobody removed it

agentVars == <<pc, left, wait, failed, failures, challenge, row, late, life, up, skew, unbroken>>

Attempt == {"challenge", "challenged", "collect", "submit", "handling", "stored"}
Pcs == Attempt \union {"write", "wait", "exited"}

AgentInit ==
    /\ pc = "challenge"
    /\ left = Timeout
    /\ wait = 0
    /\ failed = FALSE
    /\ failures = 0
    /\ challenge = 0
    /\ row = 0
    /\ late = {}
    /\ life = 0
    /\ up \in BOOLEAN
    /\ skew \in Skews
    /\ unbroken = FALSE

--------------------------------------------------------------------------------
(* One attempt: Publisher.Publish with the broker's two handlers *)

\* The broker issues a challenge.
ChallengeNodeEvidence ==
    /\ pc = "challenge"
    /\ left > 0
    /\ pc' = "challenged"
    /\ challenge' = ChallengeTTL
    /\ UNCHANGED <<left, wait, failed, failures, row, late, life, up, skew, unbroken>>

\* Slip: the time of issue is compared with the clock, not the expiry.
UnexpiredIssued == challenge - ChallengeTTL > skew

\* challenge.ExpiresAt.After(p.now()), by the agent's clock
Unexpired == challenge > skew

\* The challenge arrives; one that the agent takes for expired ends the attempt.
RequestChallenge ==
    /\ pc = "challenged"
    /\ left > 0
    /\ pc' = IF Unexpired THEN "collect" ELSE "write"
    /\ failed' = ~Unexpired
    /\ UNCHANGED <<left, wait, failures, challenge, row, late, life, up, skew, unbroken>>

\* The provider quotes the PCRs, reads them and verifies the quote itself.
CollectNodeEvidence ==
    /\ pc = "collect"
    /\ left > 0
    /\ pc' = "submit"
    /\ UNCHANGED <<left, wait, failed, failures, challenge, row, late, life, up, skew, unbroken>>

\* PublishNodeEvidence takes the row's expiry from the clock at its start.
PublishNodeEvidence ==
    /\ pc = "submit"
    /\ left > 0
    /\ challenge > 0
    /\ pc' = "handling"
    /\ challenge' = 0
    /\ row' = EvidenceTTL
    /\ UNCHANGED <<left, wait, failed, failures, late, life, up, skew, unbroken>>

\* The row is stored.
PutEvidence ==
    /\ pc = "handling"
    /\ left > 0
    /\ pc' = "stored"
    /\ life' = row
    /\ row' = 0
    /\ unbroken' = TRUE
    /\ UNCHANGED <<left, wait, failed, failures, challenge, late, up, skew>>

\* The answer arrives.
SubmitNodeEvidence ==
    /\ pc = "stored"
    /\ left > 0
    /\ pc' = "write"
    /\ failed' = FALSE
    /\ UNCHANGED <<left, wait, failures, challenge, row, late, life, up, skew, unbroken>>

\* The handler that the agent no longer waits for.
Abandoned == IF pc = "handling" THEN late \union {[row |-> row, left |-> left]} ELSE late

\* A call fails, is refused or runs out of its time, the quote or its own
\* verification fails, or the answer to a stored row is lost.
AttemptFails ==
    /\ pc \in Attempt
    /\ ~(up /\ left > 0 /\ (pc = "submit" => challenge > 0))
    /\ pc' = "write"
    /\ failed' = TRUE
    /\ row' = 0
    /\ late' = Abandoned
    /\ UNCHANGED <<left, wait, failures, challenge, life, up, skew, unbroken>>

\* An abandoned handler stores its row before its context ends.
LatePut ==
    /\ \E h \in late : h.left > 0 /\ life' = h.row /\ late' = late \ {h}
    /\ UNCHANGED <<pc, left, wait, failed, failures, challenge, row, up, skew, unbroken>>

--------------------------------------------------------------------------------
(* The loop *)

\* Slip: a failure is not counted.
NextFailuresUncounted == IF ~failed THEN 0 ELSE failures

\* Consecutive failures after the attempt.
NextFailures ==
    IF ~failed THEN 0 ELSE IF failures < CountCap THEN failures + 1 ELSE failures

GivesUp == failed /\ MaxFailures > 0 /\ NextFailures >= MaxFailures

\* The event is written; too many failures end the loop, else it waits.
WriteEvent ==
    /\ pc = "write"
    /\ failures' = NextFailures
    /\ pc' = IF GivesUp THEN "exited" ELSE "wait"
    /\ wait' = IF GivesUp THEN 0 ELSE Interval
    /\ unbroken' = (unbroken /\ ~GivesUp)
    /\ UNCHANGED <<left, failed, challenge, row, late, life, up, skew>>

\* waitForNext returns and the next attempt starts.
WaitOver ==
    /\ pc = "wait"
    /\ wait = 0
    /\ pc' = "challenge"
    /\ left' = Timeout
    /\ challenge' = 0
    /\ UNCHANGED <<wait, failed, failures, row, late, life, up, skew, unbroken>>

\* A signal, or an event that cannot be written, ends the process.
Exit ==
    /\ pc # "exited"
    /\ pc' = "exited"
    /\ row' = 0
    /\ late' = Abandoned
    /\ wait' = 0
    /\ unbroken' = FALSE
    /\ UNCHANGED <<left, failed, failures, challenge, life, up, skew>>

--------------------------------------------------------------------------------
(* The environment *)

\* The supervisor starts the agent again.
Restart ==
    /\ pc = "exited"
    /\ pc' = "challenge"
    /\ left' = Timeout
    /\ failures' = 0
    /\ challenge' = 0
    /\ UNCHANGED <<wait, failed, row, late, life, up, skew, unbroken>>

\* Broker or TPM stop or resume serving the agent.
Outage ==
    /\ up' = ~up
    /\ UNCHANGED <<pc, left, wait, failed, failures, challenge, row, late, life, skew, unbroken>>

\* The node is enrolled anew or revoked, which deletes its evidence.
EvidenceRemoved ==
    /\ life' = 0
    /\ unbroken' = FALSE
    /\ UNCHANGED <<pc, left, wait, failed, failures, challenge, row, late, up, skew>>

Less(t) == IF t > 0 THEN t - 1 ELSE 0

\* Timers fire when they are due, events are written at once, and a broker
\* that serves the agent answers before the attempt's time is up.
Tick ==
    /\ pc # "write"
    /\ pc \in Attempt => left > (IF up THEN 1 ELSE 0)
    /\ pc = "wait" => wait > 0
    /\ left' = IF pc \in Attempt THEN left - 1 ELSE left
    /\ wait' = Less(wait)
    /\ challenge' = Less(challenge)
    /\ row' = Less(row)
    /\ late' = {[row |-> Less(h.row), left |-> h.left - 1] : h \in {g \in late : g.left > 1}}
    /\ life' = Less(life)
    /\ UNCHANGED <<pc, failed, failures, up, skew, unbroken>>

AgentStep ==
    \/ ChallengeNodeEvidence \/ RequestChallenge \/ CollectNodeEvidence
    \/ PublishNodeEvidence \/ PutEvidence \/ SubmitNodeEvidence
    \/ AttemptFails \/ WriteEvent \/ WaitOver

AgentNext ==
    AgentStep \/ LatePut \/ Exit \/ Restart \/ Outage \/ EvidenceRemoved \/ Tick

AgentSpec == AgentInit /\ [][AgentNext]_agentVars

\* The loop's own steps and the clock go on.
FairAgentSpec == AgentSpec /\ WF_agentVars(AgentStep) /\ WF_agentVars(Tick)

--------------------------------------------------------------------------------
(* Properties *)

\* Every timer, counter and stored row is in its range.
AgentTypeOK ==
    /\ pc \in Pcs
    /\ left \in 0..Timeout
    /\ wait \in 0..Interval
    /\ failed \in BOOLEAN
    /\ failures \in 0..CountCap
    /\ challenge \in 0..ChallengeTTL
    /\ row \in 0..BrokerTTL
    /\ late \subseteq [row : 0..BrokerTTL, left : 0..Timeout]
    /\ life \in 0..BrokerTTL
    /\ up \in BOOLEAN
    /\ skew \in Skews
    /\ unbroken \in BOOLEAN

\* Evidence that the loop has stored stays fresh while no more than the
\* tolerated number of attempts in a row fail, however slow they are and even
\* if a handler of an abandoned attempt overwrites newer evidence.
FreshWhileTolerable == unbroken /\ failures <= Tolerated => life > 0

\* If broker and TPM serve the agent again for good, its clock is not too far
\* ahead, nobody stops it or removes the evidence, and somebody starts it again
\* if it has given up, the evidence is eventually fresh for good.
EvidenceRecovers ==
    /\ <>[](up /\ skew + Timeout < ChallengeTTL)
    /\ <>[][~Exit /\ ~EvidenceRemoved]_agentVars
    /\ []<>(pc # "exited")
    => <>[](life > 0)
================================================================================
