SPECIFICATION Spec
CONSTANTS
    Operators = {o1, o2}
    Mounts = {m1, m2}
    None = none
    MaxFaults = 2
    MaxOverlaps = 2
    MaxAdmin = 1
    MaxRemovals = 1
    MaxDeploys = 1
SYMMETRY
    Symmetry
INVARIANTS
    TypeOK
    PairBelongsTogether
    SuccessIsReady
PROPERTIES
    ServiceKeepsAccess
    OnlyLeftoversRefuse
