CONSTANTS
    Symbols <- MCField4
    plus <- MCAdd
    times <- MCMul
    inverse <- MCInv
    Delta = 3
SPECIFICATION BmSpec
CHECK_DEADLOCK FALSE
INVARIANTS
    LengthsAddUp
    EarlierDiscrepancyIsNonzero
    RegisterReproduces
    IsShortest
