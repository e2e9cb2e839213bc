SPECIFICATION Spec
CONSTANTS
    Roots <- MCRoots
    Places <- MCPlaces
    Requests <- MCRequests
    MaxVersions = 2
    MaxWrites = 2
    MaxCreates = 1
    MaxFaults = 1
INVARIANTS
    TypeOK
    PayloadIsOfListed
    CreatedInScope
    CreatedIsListed
