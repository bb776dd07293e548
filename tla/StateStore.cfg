CONSTANTS
    Users = {u1, u2, u3}
    Keys = {k1, k2, k3}
    Insts = {i1, i2, i3, i4}
    NoKey = NoKey
    NoInst = NoInst
    NoUser = NoUser
    MaxEntries = 2
    StartMayFail = TRUE
    StopMayFail = TRUE
SPECIFICATION LiveSpec
INVARIANTS
    PinsAreOwned
    OneInstancePerKey
    NothingLeaks
PROPERTIES
    LeasesSpec
    DeferredStopHappens
