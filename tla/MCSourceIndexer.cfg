\* The worker of a factory source: cursor, store, children and liveness.
SPECIFICATION FairSpec
CONSTANTS
    Log <- MCLog
    Addr <- MCAddr
    Rule <- MCRule
    NumberOf <- MCNumberOf
    TextOrder <- MCTextOrder
    Contains <- MCContains
    StartBlock = 1
    InitSyncBlock = 0
    BlockRange = 2
    BlockSlice = 2
    RpcMaxBatchSize = 1
    MaxBlock = 7
INVARIANTS
    TypeOK
    IndexedUpToCursor
    ChildStartsBeforeDeployment
PROPERTIES
    CursorNeverRegresses
    ImplementsLogSource
    EventuallyStored
