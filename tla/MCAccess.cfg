\* Users, tokens and OAuth logins with overlapping requests.
SPECIFICATION Spec
CONSTANTS
    Instance = {"i1", "i2"}
    Request = {"r1", "r2"}
    Server <- MCServer
    Username = {"admin", "second", "third"}
    MaxUsers = 3
    MaxTokens = 3
    MaxProviders = 1
    MaxRequests = 3
    MaxBoots = 2
INVARIANTS
    TypeOK
    AdminRemains
    SignedStateVerifies
PROPERTIES
    RevokedStaysRevoked
CHECK_DEADLOCK FALSE
