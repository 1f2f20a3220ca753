\* Deletion of a tree of sources while its factories index.
SPECIFICATION TreeSpec
CONSTANTS
    Node <- MCNode
    Root = "root"
    Parent <- MCParent
    Depth <- MCDepth
    Pipeline = {p1, p2}
    Slot = {"w1", "w2"}
    None = "none"
    MaxEvents = 3
SYMMETRY Pipelines
INVARIANTS
    DeletedIsGone
    OrphansAreLate
CHECK_DEADLOCK FALSE
