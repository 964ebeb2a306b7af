SPECIFICATION Spec
CHECK_DEADLOCK FALSE
CONSTANTS
    W = 3
    MaxWords = 5
    Threshold = 2
    Slack = 8
    Pending = Pending
    Sizes <- MCSizes
    Lefts <- MCLefts
    Rights <- MCRights
INVARIANTS
    AccumulatedSoFar
    PendingProductsSurvive
    SlicesFit
    IsCyclicProduct
