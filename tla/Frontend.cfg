CONSTANTS
    Operations = {"setup", "start", "stop", "stop-all"}
    MaxFailures = 0
SPECIFICATION FairFrontendSpec
INVARIANTS
    TypeOK
    HonestExit
PROPERTIES
    CallsEnd
    SegmentServed
