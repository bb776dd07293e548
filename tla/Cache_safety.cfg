CONSTANTS
    Callers = {c1, c2, c3}
    Operations = {op1}
    Scopes = {s1, s2, s3}
    NoCaller = NoCaller
    MaxEntries = 2
    TTL = 2
    CacheErrors = FALSE
    Cancellable = {c1, c2, c3}
    Budgeted <- Nobody
    Budget = 1
SPECIFICATION LiveSpec
INVARIANTS
    SingleFlight
    NoLeakBetweenSlices
PROPERTIES
    NeverServesExpired
    FollowersAreServed
