SPECIFICATION Spec
CONSTANTS
    NRef = 2
    NOut = 1
    HelperLock = 2
    HelperDelock = 1
    MainLock = 2
    MainDelock = 1
    ExtLock = 2
    ExtDelock = 1
    ExtSupported = FALSE
    Modes = {"SLAVE"}
    Refs = {0, 1}
    ShiftsPs = {}
    PsPerUnit = 2
    FifoDepth = 1
    MaxDelock = 1
    MaySettle = FALSE
    PtrackerCalls = TRUE
    ShellChannels = FALSE
INVARIANTS LoopsFed
