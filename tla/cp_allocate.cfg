SPECIFICATION FairSpec
CONSTANTS
    n1 = n1  s1 = s1  s2 = s2  i1 = i1  i2 = i2
    c1 = c1  c2 = c2  d1 = d1  r1 = r1
    NoNode = NoNode  NoInst = NoInst  Sweeper = sweeper
    Nodes <- OneNode
    Slots <- TwoSlots
    SlotNode <- SameNode
    SlotGpus <- OneGpu
    SlotRank <- S1First
    Instances = {i1, i2}
    Creators = {c1, c2}
    Deleters = {}
    Receivers = {}
    GpuCounts = {1}
    Cancellable = {}
    Lossy = {}
    MaxFaults = 0
    MaxCrashes = 1
INVARIANTS
    ReservationsExclusive
PROPERTIES
    ReservationsEnd
    ImplementsAllocator
