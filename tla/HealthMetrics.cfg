CONSTANTS
    b1 = b1
    b2 = b2
    f1 = f1
    f2 = f2
    Backends = {b1, b2}
    Files = {f1, f2}
    Placements <- Both
    MaxChanges = 2
    MaxFatal = 1
SPECIFICATION FairSpec
INVARIANTS
    TypeOK
    CountsWhatItRead
PROPERTIES
    GaugesConverge
CHECK_DEADLOCK FALSE
