\* Concurrent enabling and disabling of one source.
SPECIFICATION FairSpec
CONSTANTS
    Caller = {"api", "factory"}
    MaxWorkers = 2
    MaxBlock = 1
INVARIANTS
    TypeOK
    NoOrphanWorker
    EntryIsServed
PROPERTIES
    RemovedWorkersEnd
CHECK_DEADLOCK FALSE
