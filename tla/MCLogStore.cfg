\* The five kinds of store under replays, crashes, deletions and reads.
SPECIFICATION Spec
CONSTANTS
    Source = {"s1", "s2"}
    Logs = 3
    Block <- MCBlock
    Blocks = 2
    Coverage <- MCCoverage
    Nobody = "nobody"
    PageSize = 1
    Limit = 1
INVARIANTS
    TypeOK
    ReadIsExact
PROPERTIES
    ImplementsLogStorage
