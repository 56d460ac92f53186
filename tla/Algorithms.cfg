SPECIFICATION Spec
CONSTANTS
    CAL_SCAN_STEP = 2
    CAL_DEGLITCH_THRESHOLD = 3
    REF_CLOCK_PERIOD_PS = 32
    Margin = 3
    Jitter = 3
    RomBits = 4
    IntBits = 3
    W1_MAX_DEVICES = 4
    PageSize = 3
    MemSize = 10
    CyclesPerSec = 8
    LowBase = 2
    HighBase = 2
    MaxTime = 20
    SdbTrees <- MCSdbTrees
    WordMod = 1048576
    ShortMod = 65536
    Factor = 1000
    ByteMod = 128
    SH_MAX_LINE_LEN = 5
    SH_MAX_ARGS = 2
    TicMod = 16
    LpjStart = 16
    UsecStep = 20
    UsecPerJiffy = 4
    IntMod = 4096
    OctetMod = 4
    MaxBody = 4
    Numbers <- MCNumbers
    Octets = {0, 9, 127}
    Years = {1970, 1972, 1999, 2000, 2001, 2099, 2100, 2101, 2104}
    MaxLoops = 200
    MaxUsec = 200
    SFPS_MAX = 2
    MaxScript = 7
    Blank = 255
    LineLen = 5
    ScriptCells = 8
    ScriptLines <- MCScriptLines
    SymType <- MCSymType
    Literals <- MCLiterals
    Atoms <- MCAtoms
    Files <- MCFiles
    Entered <- MCEntered
    MaxEdits = 3
    Saved <- MCSaved
    Answers <- MCAnswers
    RawMenus <- MCRawMenus
    DepFiles <- MCDepFiles
    MaxText = 4
    ByteBits = 3
    DeviceAddr = 2
    SfpBytes = 8
    PnFirst = 3
    PnLast = 5
    WSIZE = 2
    RSIZE = 2
    CounterMod = 4
    MaxChars = 5
    MaxLoads = 1
    RingBytes = 12
    ETH_HEADER_SIZE = 14
    HotKeys <- MCHotKeys
    MAX_LEN = 5
    MaxRows = 4
    BoxWidths = {2, 3, 4}
INVARIANTS
    BusesRight
    TimeRight
    FramesRight
    ConsoleRight
    TextRight
    StoreSound
    ExprRight
    ConfigRight
    DialogsRight
