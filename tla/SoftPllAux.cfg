SPECIFICATION Spec
CONSTANTS
    NRef = 1
    NOut = 2
    HelperLock = 2
    HelperDelock = 1
    MainLock = 2
    MainDelock = 1
    ExtLock = 2
    ExtDelock = 1
    ExtSupported = FALSE
    Modes = {"SLAVE", "GRAND_MASTER"}
    Refs = {0}
    ShiftsPs = {}
    PsPerUnit = 2
    FifoDepth = 1
    MaxDelock = 1
    MaySettle = FALSE
    PtrackerCalls = FALSE
    ShellChannels = TRUE
INVARIANTS NeverStarved LocksCoherent OutLockMatches
