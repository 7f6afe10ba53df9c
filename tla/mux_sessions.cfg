SPECIFICATION FairSpec
CONSTANTS
    n1 = n1
    NoConn = NoConn
    Nodes = {n1}
    Conns <- ThreeDials
    NodeOf <- AllOfN1
INVARIANTS
    NoGhostSession
    OneHealthChecker
    ShutdownIsComplete
PROPERTIES
    OnlyOwnDeathForgets
    DeadIsForgotten
    WaitsEnd
    EndsAgree
