SPECIFICATION Spec
CONSTANTS
    Commands = {"gm", "master", "slave", "start", "stop", "calibration", "gui", "refresh"}
    LockTimeout = 1
    MaxEvents = 5
    SlowUi = FALSE
INVARIANTS PpsTrue TrackCalibrated
PROPERTIES LoopAlive SlaveSyncs
