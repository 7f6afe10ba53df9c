SPECIFICATION FairSpec
CONSTANTS
    s1 = s1  s2 = s2  x1 = x1  x2 = x2  x3 = x3
    Streams = {s1, s2}
    Senders = {x1, x2, x3}
    None = None
    BufferSize = 1
INVARIANTS
    LatestIsReachable
    DeliveredOnce
PROPERTIES
    SendReturns
