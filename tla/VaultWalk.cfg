SPECIFICATION Spec
CONSTANTS
    Documents <- MCDocuments
    Keys = {"user", "password", "a/b"}
    Unsupported = {"a/b"}
    MaxFaults = 1
    MaxWrites = 3
INVARIANTS
    TypeOK
    ListedAsItWas
    SteadyIsListed
    NotFoundForAReason
