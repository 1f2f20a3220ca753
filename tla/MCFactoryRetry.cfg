\* A nested factory whose rules could not all be copied is not retried.
SPECIFICATION Spec
CONSTANTS
    Log <- MCLog
    Addr <- MCAddr
    Rule <- MCRule
    NumberOf <- MCNumberOf
    TextOrder <- MCTextOrder
    Contains <- MCContains
    StartBlock = 1
    InitSyncBlock = 0
    BlockRange = 2
    BlockSlice = 2
    RpcMaxBatchSize = 1
    MaxBlock = 7
INVARIANT
    ChildrenCompleteBehindCursor
