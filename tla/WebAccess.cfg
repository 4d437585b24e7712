SPECIFICATION Spec
CONSTANTS
    SessionIds = {s1}
    KeyIds = {k1}
    Names = {anna, ben}
    Requests = {r1, r2}
    None = None
    IDLE_SECS = 3
    ABSOLUTE_SECS = 5
    RENEW_THRESHOLD_SECS = 1
    Lag = 1
    MaxTime = 5
    MaxUsers = 2
    MaxFaults = 1
SYMMETRY Symmetry
INVARIANTS
    OneFirstAdmin
    ActiveSessionSurvives
    MutationsAreAuthorised
    SessionIsItsOwners
PROPERTIES
    KeepsPromise
    InsideLimits
