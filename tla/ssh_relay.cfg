SPECIFICATION FairRelaySpec
CONSTANTS
    Clients = {c1, c2}
    Silent = {c2}
    MaxConcurrentConns = 1
CHECK_DEADLOCK FALSE
INVARIANTS
    DrainIsComplete
PROPERTIES
    RelayTornDown
    ShutdownDrains
