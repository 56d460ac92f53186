SPECIFICATION Spec
CONSTANTS
    Scale = 8
    Phases = {0, 3, 5, 7}
    Jitter = 1
    Samples = 3
    DivideBy2 = FALSE
    Restarts = TRUE
    Relocks = TRUE
INVARIANTS TypeOK CleanWindowsAccurate
