\* A plugin now and then declared in the config, with concurrent installs, edits and crashes.
SPECIFICATION Spec
CONSTANTS
    r1 = r1
    r2 = r2
    v1 = v1
    v2 = v2
    NoSource = NoSource
    NoFile = NoFile
    Partial = Partial
    Source <- MCSource
    Declared <- MCDeclared
    Request <- MCRequest
SYMMETRY MCSymmetry
INVARIANTS
    TypeOK
    InstalledHasFile
    InstalledIsCurrent
    CutOffInstallResumed
CHECK_DEADLOCK FALSE
