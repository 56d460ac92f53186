SPECIFICATION Spec
CONSTANTS
    Procs <- MCProcs
    Args <- MCArgs
    MaxExport = 12
    CounterMod = 3
    Nothing = Nothing
    Channels = {0, 1, 2}
    NRef = 2
    MaxUps = 1
INVARIANTS ReportTrue
PROPERTIES RpcSpec CallsReturn
