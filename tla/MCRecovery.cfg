SPECIFICATION RecoverySpec
CONSTANTS
    Operators = {p1, p2}
    Sites = {s1, s2}
    Packages = {k1, k2}
    Keys = {m1, m2}
    PolicyIds = {q1, q2}
    SessionTTL = 1
    MaxVersions = 2
    MaxTime = 1
    SecretBytes = {1, 200}
    Coefficients = {0, 147}
    MaxShares = 3
SYMMETRY Symmetry
INVARIANTS
    RecoveryTypeOK
    RestoreFollowsOpenedSession
    FirstKeyIsRecoverable
    OneShareTellsNothing
    SharesRecoverTheSecret
CHECK_DEADLOCK FALSE
