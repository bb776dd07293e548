CONSTANTS
    Systems <- AllSystems
    Lively <- LivelySystems
    Calls = {k1, k2}
SPECIFICATION LiveSpec
INVARIANTS
    CyclesAreRefused
    DependenciesOutlive
    AllOrNothing
    ReadyIsServing
    DrainProtects
PROPERTIES
    StopReturns
CHECK_DEADLOCK FALSE
