CONSTANTS
    mi = mi
    md = md
    di = di
    dd = dd
    ns = ns
    MetaIndex = mi
    MetaData = md
    DataIndex = di
    DataData = dd
    IndexDirs = {mi, di}
    DataDirs = {md, dd}
    NsFile = ns
    MaxNum = 2
    MaxAttempts = 2
SPECIFICATION Spec
INVARIANTS
    TypeOK
    ServicesLast
    GapFree
PROPERTIES
    AttemptEnds
CHECK_DEADLOCK FALSE
