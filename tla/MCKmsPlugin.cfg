CONSTANTS
    Provisioners = {s1}
    Versions = {1, 2}
    Clusters = {prod, other}
    ExpectedCluster = prod
    PolicyIds = {q1, q2}
    BootStates = {b1, b2}
    MaxProvisions = 2
    MaxEdits = 1
    None = None
    Torn = Torn
    Nodes = {n1, n2}
    MaxUID = 2
    Deployments <- MCDeployments
    Unscheduled = Unscheduled
    Callers = {c1, c2}
    Configs <- MCConfigs
    Cluster = prod
    Free = Free

SPECIFICATION FairPluginSpec

INVARIANTS
    PluginTypeOK
    ConnectionsOwned
    VerifiedNodeHostsCaller
    WrappedStaysReadable

PROPERTIES
    ImplementsSealWrapper
    CallsReturn
