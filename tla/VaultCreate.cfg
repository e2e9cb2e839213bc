SPECIFICATION Spec
CONSTANTS
    Callers = {c1, c2, c3}
    Other = other
    None = none
    Keys = {k1, k2}
    Attempts = 3
    MaxFaults = 1
    MaxWrites = 2
    MaxCalls = 1
SYMMETRY Symmetry
CHECK_DEADLOCK FALSE
INVARIANTS
    TypeOK
    AckedIsKept
    ConflictsAreProgress
PROPERTY LosesNothing
