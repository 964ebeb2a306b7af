CONSTANTS
    Unit = 8
    N = 5
    Weight = 2
    ByteRange = 3
    MaxCalls = 2
    MaxSqueezed = 24
SPECIFICATION Spec
CHECK_DEADLOCK FALSE
INVARIANTS
    AcceptedAreDistinct
    FreePositionsAreEquallyLikely
    ReadsStartAligned
PROPERTIES
    DeliversFixedWeight
