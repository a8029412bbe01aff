SPECIFICATION NodeSpec
CONSTANTS
    Nodes = {n1}
    Uids = {u1}
    MaxTime = 2
    EvidenceTTL = 1
    MaxRevision = 1
    AllowFakeLocal = TRUE
    Policies = {q1}
    Certs = {k1}
    Challenges = {c1, c2}
    Publishers = {p1, p2}
    Admins = {a1}
    ChallengeTTL = 1
    Retention = 0
    MaxAudits = 1
SYMMETRY Symmetry
PROPERTIES
    ImplementsEvidenceTable
INVARIANTS
    PublishChallengeSingleUse
