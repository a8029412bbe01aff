SPECIFICATION FairServiceSpec
CONSTANTS
    MaxKeyVersion = 1
    Materials = {"none", m1}
    Nodes = {n1}
    Uids = {}
    MaxTime = 1
    EvidenceTTL = 0
    MaxRevision = 1
    AllowFakeLocal = TRUE
    Subjects = {s1}
    DevSubjects = {s1}
    Challenges = {c1}
    Requests = {r1, r2}
    ChallengeTTL = 1
    Faults = TRUE
PROPERTIES
    RequestsAreAnswered
