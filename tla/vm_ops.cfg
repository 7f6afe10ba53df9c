SPECIFICATION FairSpec
CONSTANTS
    c = c  d1 = d1  d2 = d2
    Create = c
    Destroys = {d1, d2}
    NoOp = NoOp
    FaultSets <- AllBut
INVARIANTS
    OpsExclusive
    FilesFollowDomain
    PreemptedIsGone
PROPERTIES
    StoppedIsGone
    CleanForNextTenant
    KeepsReportContract
    OpsReturn
