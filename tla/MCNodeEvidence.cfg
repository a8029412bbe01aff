SPECIFICATION NodeSpec
CONSTANTS
    Nodes = {n1}
    Uids = {u1}
    MaxTime = 0
    EvidenceTTL = 1
    MaxRevision = 3
    AllowFakeLocal = FALSE
    Policies = {q1, q2}
    Certs = {k1, k2}
    Challenges = {c1}
    Publishers = {p1}
    Admins = {a1, a2}
    ChallengeTTL = 1
    Retention = 0
    MaxAudits = 4
SYMMETRY Symmetry
INVARIANTS
    NodeTypeOK
    EnrollmentChangesAudited
    EvidenceRestsOnEnrollment
