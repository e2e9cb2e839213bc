SPECIFICATION FairSpec
CONSTANTS
    db = db
    key = key
    Words = {db, key}
    Paths <- MCPlain
    TooLong <- MCTooLong
    Services = {s1}
    Retries = 1
    CleanupOrphaned = TRUE
    VersionsRestart = FALSE
    HandMade = {}
    MaxFaults = 2
    MaxWrites = 2
    MaxDeploys = 1
    MaxOperator = 0
INVARIANTS
    LabelsInOrder
PROPERTIES
    EventuallyInSync
    OrphanedParentsRemoved
