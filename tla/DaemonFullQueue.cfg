CONSTANTS
    NoFile = NoFile
    NsFile = zdb_namespace
    w1 = w1
    w2 = w2
    r1 = r1
    r2 = r2
    DataDirs = {data}
    IndexDirs = {}
    MaxNum = 2
    QueueCap = 1
    Workers = {w1}
    Refreshers = {}
    MaxVersion = 1
    MaxCrashes = 0
    MaxRetrieves = 0
    ReadAgain <- NoReads
SPECIFICATION FairSpec
PROPERTIES
    EventuallyStored
CHECK_DEADLOCK FALSE
