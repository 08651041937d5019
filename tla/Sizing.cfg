CONSTANTS
    Error = Error
    Word = 256
    Kilo = 2
    Sizes <- SomeSizes
    ZdbDataSizes <- SegmentSizes
    MetaSizes <- SomeMetaSizes
    Shards <- SomeShards
SPECIFICATION Spec
INVARIANTS
    TypeOK
    NeverMoreThanAsked
    ShortfallBounded
    ShardsChecked
CHECK_DEADLOCK FALSE
