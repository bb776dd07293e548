CONSTANTS
    Calls = {c1, c2}
    Window = 2
    FailureThreshold = 1
    ResetTimeout = 1
    Outcomes <- AllOutcomes
    Cancellable = {c1}
    Manual = FALSE
SPECIFICATION MCSpec
PROPERTIES
    ProbeResolves
