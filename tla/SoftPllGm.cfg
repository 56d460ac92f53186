SPECIFICATION FairSpec
CONSTANTS
    NRef = 1
    NOut = 1
    HelperLock = 2
    HelperDelock = 1
    MainLock = 2
    MainDelock = 1
    ExtLock = 3
    ExtDelock = 1
    ExtSupported = TRUE
    Modes = {"GRAND_MASTER"}
    Refs = {0}
    ShiftsPs = {2}
    PsPerUnit = 2
    FifoDepth = 1
    MaxDelock = 2
    MaySettle = TRUE
    PtrackerCalls = FALSE
    ShellChannels = TRUE
INVARIANTS GmReadyAligned
PROPERTIES SettledReady
