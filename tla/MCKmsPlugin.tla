------------------------------- MODULE MCKmsPlugin -------------------------------
(***************************************************************************)
(* A small instance of the KMS plugin with its surroundings.                 *)
(***************************************************************************)
EXTENDS KmsPlugin

MCConfig(m, evidence, version) ==
    [mode |-> m, location |-> TRUE, identity |-> TRUE, evidence |-> evidence, version |-> version]

WithTokens == MCConfig("broker", "kubernetes-workload", 0)
WithoutTokens == MCConfig("broker", "development-subject", 0)
WithoutNodeID == [WithTokens EXCEPT !.identity = FALSE]
AnyVersion == MCConfig("local-tpm", "development-subject", 0)

MCConfigs == {WithTokens, WithoutTokens, WithoutNodeID, AnyVersion}

MCDeployment(m, binding, nodeClaim, configs, callers) ==
    [mode |-> m, binding |-> binding, nodeClaim |-> nodeClaim, audience |-> TRUE, account |-> TRUE,
     configs |-> configs, callers |-> callers]

\* Two goroutines meet in the wrapper in one deployment; the pod's life and the
\* state directory are independent of it and have one goroutine each.
MCDeployments ==
    LET one == {CHOOSE c \in Callers : TRUE}
    IN {MCDeployment("broker", FALSE, TRUE, {WithTokens, WithoutTokens, WithoutNodeID}, Callers),
        MCDeployment("broker", TRUE, FALSE, {WithTokens}, one),
        MCDeployment("broker", TRUE, TRUE, {WithTokens}, one),
        [MCDeployment("broker", TRUE, TRUE, {WithTokens}, one) EXCEPT !.audience = FALSE],
        [MCDeployment("broker", TRUE, TRUE, {WithTokens}, one) EXCEPT !.account = FALSE],
        MCDeployment("local-tpm", FALSE, FALSE, {AnyVersion}, one)}
================================================================================
