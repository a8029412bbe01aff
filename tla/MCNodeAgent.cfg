SPECIFICATION FairAgentSpec
CONSTANTS
    Interval = 2
    Timeout = 3
    RequestedTTL = 20
    BrokerTTL = 17
    ChallengeTTL = 4
    MaxFailures = 3
    Skews <- MCSkews
    Tolerated = 1
    CountCap = 3
    PcrLists <- MCPcrLists
    Pcrs = {7, 8}
    Measured = {m1, m2}
    AKs = {k1, k2}
    Nonces = {n1, n2}
INVARIANTS
    AgentTypeOK
    FreshWhileTolerable
    StoredRowsRestOnGenuineQuotes
    HealthyNodesPublish
PROPERTY
    EvidenceRecovers
