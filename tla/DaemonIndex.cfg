CONSTANTS
    NoFile = NoFile
    NsFile = zdb_namespace
    w1 = w1
    w2 = w2
    r1 = r1
    r2 = r2
    DataDirs = {}
    IndexDirs = {index}
    MaxNum = 0
    QueueCap = 1
    Workers = {w1}
    Refreshers = {r1, r2}
    MaxVersion = 2
    MaxCrashes = 0
    MaxRetrieves = 1
    ReadAgain <- NoReads
SPECIFICATION FairSpec
INVARIANTS
    MetadataNeverAhead
PROPERTIES
    EventuallyStored
    UploadsSettle
CHECK_DEADLOCK FALSE
