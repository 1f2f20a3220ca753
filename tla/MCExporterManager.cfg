\* Concurrent requests about one exporter.
SPECIFICATION FairSpec
CONSTANTS
    Client = {"c1", "c2"}
    NoClient = "none"
    Polls = 2
    MaxRunners = 2
INVARIANTS
    TypeOK
    OneSerialRunner
    NoLostRunner
PROPERTIES
    EveryRequestReturns
CHECK_DEADLOCK FALSE
