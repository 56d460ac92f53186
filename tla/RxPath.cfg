SPECIFICATION Spec
CONSTANTS
    Period = 8
    Second = 16
    NetMaxSockets = 2
    NetSkbufSize = 10
    RxBufSize = 3
    DataLength = 3
    Addrs = {a, b}
    a = a
    b = b
    Wire <- MCWire
    RingSize = 2
    Phases = {3, 7}
    Default = 2
    Transitions = {5}
    MaxFrames = 3
    FirstTick = 30
    LastTick = 33
INVARIANTS QueueSound TimestampTrue
PROPERTIES OverflowRecovers
