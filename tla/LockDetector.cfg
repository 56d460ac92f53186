SPECIFICATION FairSpec
CONSTANTS
    Threshold = 1
    LockSamples = 7
    DelockSamples = 3
    MaxErr = 2
INVARIANTS Coherent
PROPERTIES NoEarlyLock NoEarlyDelock SettledLocks
