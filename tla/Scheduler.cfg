SPECIFICATION FairSpec
CONSTANTS
    Callers = {c1}
    Loop = loop
    Interval = 2
    SighupBuf = 1
    MaxTime = 5
    MaxSignals = 2
CHECK_DEADLOCK FALSE
INVARIANTS
    TypeOK
    SingleFlight
    InfoIsInOrder
PROPERTIES
    TimesMoveForward
    FlagIsCleared
    TriggersRunASync
