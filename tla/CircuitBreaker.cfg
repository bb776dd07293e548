CONSTANTS
    Calls = {c1, c2, c3}
    Window = 3
    FailureThreshold = 2
    ResetTimeout = 2
    Outcomes <- AllOutcomes
    Cancellable = {c1, c2, c3}
    Manual = TRUE
SPECIFICATION MCSpec
INVARIANTS
    ClosedBelowThreshold
    WindowOnlyWhileClosed
    OneProbeUnlessSpoilt
PROPERTIES
    TripJustified
    KeepsAdmitting
