CONSTANTS
    NoFile = NoFile
    NsFile = zdb_namespace
    w1 = w1
    w2 = w2
    r1 = r1
    r2 = r2
    DataDirs = {data}
    IndexDirs = {}
    MaxNum = 2
    QueueCap = 2
    Workers = {w1, w2}
    Refreshers = {r1}
    MaxVersion = 1
    MaxCrashes = 1
    MaxRetrieves = 0
    ReadAgain <- FirstRead
SPECIFICATION Spec
SYMMETRY Symmetry
INVARIANTS
    TypeOK
    UploadTracked
    NoSelfDeadlock
PROPERTIES
    Implements
CHECK_DEADLOCK FALSE
