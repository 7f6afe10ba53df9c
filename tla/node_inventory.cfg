SPECIFICATION Spec
CONSTANTS
    j1 = j1  j2 = j2  s1 = s1  s2 = s2  s3 = s3
    twoByOne = twoByOne  oneByTwo = oneByTwo  doubled = doubled  empty = empty
    Devices <- FourDevices
    Gpus <- TwoGpus
    Group <- Pairs
    Files = {twoByOne, oneByTwo, doubled, empty}
    Content <- FourFiles
    NoFile = NoFile
    Down = Down
    Sessions = {s1, s2, s3}
    Creators = {j1, j2}
    GpuCounts = {1, 2}
SYMMETRY Symmetry
VIEW View
INVARIANTS
    LayoutMatchesHash
    DevicesExclusive
PROPERTIES
    KeepsBusySlots
CHECK_DEADLOCK FALSE
