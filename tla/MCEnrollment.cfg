SPECIFICATION EnrollSpec
CONSTANTS
    Subjects = {s1, s2}
    DevSubjects = {s2}
    Operators = {p1, p2}
    RequestIds = {i1}
    GrantIds = {g1, g2}
    RequestTTL = 1
    GrantTTL = 1
    MaxTime = 2
SYMMETRY Symmetry
INVARIANTS
    GrantSingleUse
    TrustRestsOnGrant
    EventsAreTrue
    AdmissionsAreAccounted
PROPERTIES
    ImplementsSubjectTable
