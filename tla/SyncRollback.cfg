SPECIFICATION Spec
CONSTANTS
    db = db
    key = key
    Words = {db}
    Paths <- MCOnePath
    TooLong = {}
    Services = {s1}
    Retries = 1
    CleanupOrphaned = TRUE
    VersionsRestart = FALSE
    HandMade = {}
    MaxFaults = 1
    MaxWrites = 1
    MaxDeploys = 1
    MaxOperator = 0
PROPERTIES
    NoRollback
