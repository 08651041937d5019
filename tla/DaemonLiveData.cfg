CONSTANTS
    NoFile = NoFile
    NsFile = zdb_namespace
    w1 = w1
    w2 = w2
    r1 = r1
    r2 = r2
    DataDirs = {data}
    IndexDirs = {}
    MaxNum = 1
    QueueCap = 1
    Workers = {w1}
    Refreshers = {r1}
    MaxVersion = 2
    MaxCrashes = 1
    MaxRetrieves = 1
    ReadAgain <- AllReads
SPECIFICATION FairSpec
INVARIANTS
    IInv
    NoDataLoss
PROPERTIES
    EventuallyStored
CHECK_DEADLOCK FALSE
