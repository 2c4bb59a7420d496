CONSTANTS
    Users = {1, 2}
    FdNums = {3, 4}
    Addrs = {"a", "b"}
    MaxOpens = 3
    MaxOps = 4
    ConfigUsers = {1, 2}
    ConfigValues = {"x", "y"}
    MaxListeners = 2
    MaxSets = 3
    MaxSeconds = 3
    LogUsers = {1, 2}
    Appenders = {"out", "file"}
    Files = {"file"}
    Formatters = {"f", "g"}
    MaxList = 2
    MaxLogOps = 5
    MaxPattern = 5
    MaxReset = 2
    VecUsers = {1, 2}
    Granu = 1
    MtxSize = 2
    MaxStart = 3
    MaxVecOps = 5
    MaxJoins = 2
SPECIFICATION ObjectsSpec
INVARIANTS SocketInv ListenersAgree SkippedFileApplied LoggerInv FormatterExact VectorInv ThreadInv
CHECK_DEADLOCK FALSE
