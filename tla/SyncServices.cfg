SPECIFICATION Spec
CONSTANTS
    db = db
    key = key
    Words = {db}
    Paths <- MCNamesakes
    TooLong = {}
    Services = {s1, s2}
    Retries = 1
    CleanupOrphaned = FALSE
    VersionsRestart = FALSE
    HandMade = {}
    MaxFaults = 1
    MaxWrites = 2
    MaxDeploys = 2
    MaxOperator = 0
SYMMETRY Symmetry
INVARIANTS
    RefsConsistent
    RemovalBlockedByOthersOnly
    RewriteIsIdempotent
PROPERTY ImplementsSecretRefs
