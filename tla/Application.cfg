CONSTANTS
    Hosts = {h1, h2, h3}
    NoHost = NoHost
    Setups <- AllSetups
SPECIFICATION Spec
INVARIANTS
    OneLifespan
    RunningWhileServed
CHECK_DEADLOCK FALSE
