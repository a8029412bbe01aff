SPECIFICATION ServiceSpec
CONSTANTS
    MaxKeyVersion = 1
    Materials = {"none", m1}
    Nodes = {n1}
    Uids = {u1}
    MaxTime = 1
    EvidenceTTL = 1
    MaxRevision = 2
    AllowFakeLocal = FALSE
    Subjects = {s1}
    DevSubjects = {s1}
    Challenges = {c1}
    Requests = {r1, r2}
    ChallengeTTL = 1
    Faults = FALSE
SYMMETRY Symmetry
INVARIANTS
    RevokedSubjectsStayOut
    RevokedNodesStayOut
