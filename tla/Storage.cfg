SPECIFICATION FairSpec
CONSTANTS
    SfpsMax = 3
    ByteMax = 15
    BufSize = 3
    Pns = {1, 2}
    Params = {3}
    Commands <- MCCommands
    Space = 5
    Newline = 6
    MaxSfps = 2
    MaxScript = 4
    MaxFaults = 2
    Nacks = TRUE
INVARIANTS StorageSound
PROPERTIES MatchFinds MatchEnds
