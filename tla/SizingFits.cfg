CONSTANTS
    Error = Error
    Word = 256
    Kilo = 2
    Sizes <- TotalOnly
    ZdbDataSizes <- NoSegmentSize
    MetaSizes <- NoSegmentSize
    Shards <- LargeShards
SPECIFICATION Spec
INVARIANTS
    FitsBackends
CHECK_DEADLOCK FALSE
