SPECIFICATION ServiceSpec
CONSTANTS
    MaxKeyVersion = 3
    Materials = {"none", m1, m2}
    Nodes = {}
    Uids = {}
    MaxTime = 0
    EvidenceTTL = 0
    MaxRevision = 1
    AllowFakeLocal = FALSE
    Subjects = {s1}
    DevSubjects = {s1}
    Challenges = {c1, c2}
    Requests = {r1, r2}
    ChallengeTTL = 1
    Faults = TRUE
SYMMETRY Symmetry
INVARIANTS
    ServiceTypeOK
    ChallengeSingleUse
    ClientBlobsStayUnwrappable
    DecisionHoldsAtUse
