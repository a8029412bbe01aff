SPECIFICATION ServiceSpec
CONSTANTS
    MaxKeyVersion = 2
    Materials = {"none", m1}
    Nodes = {}
    Uids = {}
    MaxTime = 1
    EvidenceTTL = 0
    MaxRevision = 1
    AllowFakeLocal = FALSE
    Subjects = {s1}
    DevSubjects = {s1}
    Challenges = {c1}
    Requests = {r1, r2}
    ChallengeTTL = 1
    Faults = FALSE
INVARIANTS
    EveryDecisionAudited
