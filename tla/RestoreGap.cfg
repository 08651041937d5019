CONSTANTS
    mi = mi
    md = md
    di = di
    dd = dd
    ns = ns
    MetaIndex = mi
    MetaData = md
    DataIndex = di
    DataData = dd
    IndexDirs = {mi, di}
    DataDirs = {md, dd}
    NsFile = ns
    MaxNum = 2
    MaxAttempts = 1
SPECIFICATION Spec
INVARIANTS
    RestoresAll
CHECK_DEADLOCK FALSE
