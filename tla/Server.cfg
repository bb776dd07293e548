CONSTANTS
    Tasks = {t1, t2}
    TTL = 1
    NoRecord = NoRecord
    NoFilter = NoFilter
    Requests = {r1}
    Setups <- SomeSetups
    Clients <- SomeClients
SPECIFICATION LiveSpec
INVARIANTS
    RecordsAreTrue
    ConsentFirst
    AdvertisedIsReal
    SurfacesAgree
PROPERTIES
    TerminalIsFinal
    CancelHonoured
    PollersAreTold
CHECK_DEADLOCK FALSE
