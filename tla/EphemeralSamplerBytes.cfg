CONSTANTS
    Unit = 8
    N = 6
    Weight = 3
    RandRange = 8
    WordBits = 4
    MaxCalls = 2
SPECIFICATION Spec
CHECK_DEADLOCK FALSE
INVARIANT ConsumesFourPerPosition
