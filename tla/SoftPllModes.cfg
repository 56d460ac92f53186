SPECIFICATION FairSpec
CONSTANTS
    NRef = 1
    NOut = 1
    HelperLock = 2
    HelperDelock = 1
    MainLock = 2
    MainDelock = 1
    ExtLock = 2
    ExtDelock = 1
    ExtSupported = FALSE
    Modes = {"SLAVE", "FREE_RUNNING_MASTER", "DISABLED"}
    Refs = {0}
    ShiftsPs = {}
    PsPerUnit = 2
    FifoDepth = 1
    MaxDelock = 2
    MaySettle = TRUE
    PtrackerCalls = TRUE
    ShellChannels = FALSE
INVARIANTS LoopsFed
PROPERTIES SettledReady ServiceSpec
