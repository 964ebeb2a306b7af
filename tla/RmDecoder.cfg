CONSTANTS
    Len = 4
    Steps = {1, 2}
    Multiplicity = 3
    MaxFlips = 4
SPECIFICATION Spec
CHECK_DEADLOCK FALSE
INVARIANTS
    NoOverflow
    TransformedSoFar
    ScanKeepsFirstPeak
    NearestCodeword
