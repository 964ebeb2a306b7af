CONSTANTS
    Len = 4
    Steps = {1, 2}
    Multiplicity = 3
    MaxFlips = 0
SPECIFICATION Spec
CHECK_DEADLOCK FALSE
INVARIANT RowIsParity
