SPECIFICATION Spec
CONSTANTS
    n1 = n1  s1 = s1  s2 = s2  i1 = i1  i2 = i2
    c1 = c1  c2 = c2  d1 = d1  r1 = r1
    NoNode = NoNode  NoInst = NoInst  Sweeper = sweeper
    Nodes <- OneNode
    Slots <- OnlyS1
    SlotNode <- S1Node
    SlotGpus <- S1Gpu
    SlotRank <- S1Rank
    Instances = {i1}
    Creators = {c1}
    Deleters = {d1}
    Receivers = {r1}
    GpuCounts = {0, 1}
    Cancellable = {r1}
    Lossy = {"reserve", "create", "bind", "transition", "mark"}
    MaxFaults = 1
    MaxCrashes = 0
INVARIANTS
    OwnershipConsistent
PROPERTIES
    ImplementsAllocator
