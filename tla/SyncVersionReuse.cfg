SPECIFICATION FairSpec
CONSTANTS
    db = db
    key = key
    Words = {db}
    Paths <- MCOnePath
    TooLong = {}
    Services = {s1}
    Retries = 1
    CleanupOrphaned = TRUE
    VersionsRestart = TRUE
    HandMade = {}
    MaxFaults = 0
    MaxWrites = 2
    MaxDeploys = 0
    MaxOperator = 0
PROPERTIES
    EventuallyInSync
