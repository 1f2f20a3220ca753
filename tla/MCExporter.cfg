\* A runner on a pipeline nobody touches, up to its liveness.
SPECIFICATION FairSpec
CONSTANTS
    Source <- CalmSource
    Stable <- CalmSource
    Root <- CalmRoot
    Parent <- MCParent
    Depth <- CalmDepth
    Birth <- CalmBirth
    Log <- CalmLog
    StartBlock = 1
    InitSyncBlock = 0
    BatchSize = 2
    MaxUint = 3
    MaxBlock = 3
    MayEdit = FALSE
INVARIANTS
    NoSkip
    DeliveredIsPrefix
PROPERTIES
    AscendingOrder
    ReplaysOnlyStartBlock
    EventuallyDelivered
