SPECIFICATION Spec
CONSTANTS
    BootpPeriod = 2
    QueueLen = 2
    MaxEvents = 3
INVARIANT
    TypeOK
PROPERTIES
    ManualKept
    GetsAddress
    PeerReaches
