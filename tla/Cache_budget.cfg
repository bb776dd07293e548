CONSTANTS
    Callers = {c1, c2}
    Operations = {op1}
    Scopes = {s1}
    NoCaller = NoCaller
    MaxEntries = 1
    TTL = 1
    CacheErrors = FALSE
    Cancellable <- Nobody
    Budgeted = {c2}
    Budget = 1
SPECIFICATION Spec
INVARIANTS
    BudgetRespected
