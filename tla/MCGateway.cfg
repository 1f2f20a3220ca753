\* Routing and installs through the gateway while rows move.
SPECIFICATION Spec
CONSTANTS
    Entity = {source}
    Pipeline = {p1}
    Instance = {i1, i2}
    Address = {a1, a2, a3}
    None = None
    TTL = 1
    Request = {r1, r2}
    MaxLoad = 1
    MaxTime = 4
    MaxRequests = 3
    MaxStreams = 3
    MaxChanges = 1
    Buffer = 1
    MaxUpdates = 2
SYMMETRY Symmetric
INVARIANTS
    RoutesToOwner
    InstallCoversFleet
    StreamIsCurrent
CHECK_DEADLOCK FALSE
