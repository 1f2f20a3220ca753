\* Loads of two instances, restarts, a database error and changes by users; listings.
SPECIFICATION CatalogSpec
CONSTANTS
    Instance = {i1, i2}
    Nobody = nobody
    Declared = "declared"
    Other = "other"
    LoadOrder <- MCLoadOrder
    NamesChain = {}
    MaxBoots = 3
    MaxChanges = 1
    PageSize = 1
    Rows = 3
    MaxEdits = 2
SYMMETRY Symmetry
INVARIANTS
    LoadedComplete
    ListMissesFew
PROPERTIES
    LoadIsIdempotent
CHECK_DEADLOCK FALSE
