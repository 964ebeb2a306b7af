CONSTANTS
    Symbols <- MCField16
    plus <- MCAdd
    times <- MCMul
    inverse <- MCInv
    GF_EXP <- MCExp
    GroupOrder <- MCOrder
    Delta = 2
    K = 2
    Messages <- MCMessages
    Errors <- MCErrors
    Values = {2, 13}
    Pending = Pending
    Nothing = Nothing
SPECIFICATION Spec
CHECK_DEADLOCK FALSE
INVARIANTS
    BeyondDeltaFails
