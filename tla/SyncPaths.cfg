SPECIFICATION Spec
CONSTANTS
    db = db
    key = key
    Words = {db}
    Paths <- MCNamesakes
    TooLong = {}
    Services = {s1}
    Retries = 1
    CleanupOrphaned = TRUE
    VersionsRestart = FALSE
    HandMade <- MCNamesakeByHand
    MaxFaults = 1
    MaxWrites = 2
    MaxDeploys = 1
    MaxOperator = 1
INVARIANTS
    TypeOK
    LabelNeverAhead
    ConflictsAreNamesakes
    SuccessLeavesParent
PROPERTIES
    LastSecretKept
    StaysInSync
