CONSTANTS
    Bits = 8
    Modulus = {0, 2, 3, 4, 8}
SPECIFICATION BuildSpec
CHECK_DEADLOCK FALSE
INVARIANTS
    PowersAreDistinct
    InversionIsRight
    ProductMatchesTables
