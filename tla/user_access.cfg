SPECIFICATION Spec
CONSTANTS
    ip1 = ip1  ip2 = ip2
    Clients = {b1}
    IPs = {ip1, ip2}
    Limit = 1
    Window = 2
    SessionTTL = 2
    Conns = {c1}
    TicketTTL = 2
    Margin = 1
    Patience = 1
    MaxTime = 3
SYMMETRY Symmetry
INVARIANTS
    LimitHolds
    KeysReclaimed
    
    DialIsFresh
