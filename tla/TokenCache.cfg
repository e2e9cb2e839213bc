SPECIFICATION FairSpec
CONSTANTS
    Callers = {c1, c2}
    None = none
    Lease = 2
    MaxRequests = 2
    MaxFaults = 1
    MaxRevocations = 1
    MaxTime = 4
INVARIANTS
    TypeOK
    CarriesCheckedToken
PROPERTIES
    OneLoginPerLease
    CallsEnd
