\* Sources are disabled and enabled, and the row is edited, under the runner.
SPECIFICATION Spec
CONSTANTS
    Source <- BusySource
    Stable <- BusyStable
    Root <- BusyRoot
    Parent <- MCParent
    Depth <- BusyDepth
    Birth <- BusyBirth
    Log <- BusyLog
    StartBlock = 0
    InitSyncBlock = 0
    BatchSize = 1
    MaxUint = 3
    MaxBlock = 2
    MayEdit = TRUE
INVARIANTS
    TypeOK
    NoSkip
