CONSTANTS
    k1 = k1  k2 = k2  k3 = k3
    tenant1 = tenant1  tenant2 = tenant2
    Callers = {k1, k2, k3}
    Slices <- AllTenants
    SliceOf <- Tenants
    Workloads <- SomeWorkloads
    InnerLimit = 1
    OuterLimit = 1
    Attempts = 3
    BaseDelay = 1
    MaxDelay = 2
    RetryOn = "transient"
    Timeout = 1
    Budgets <- Budget
    Never = Never
SPECIFICATION LiveSpec
INVARIANTS
    SlotsAccounted
    DeadlineKept
    RealErrorsSurface
PROPERTIES
    RetriesJustified
    HangsAreCut
CHECK_DEADLOCK FALSE
