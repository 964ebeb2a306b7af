CONSTANTS
    seed1 = seed1
    seed2 = seed2
    zero = zero
    msg = msg
    salt = salt
    weakSalt = weakSalt
    NoKey = NoKey
    NoBytes = NoBytes
    NoMessage = NoMessage
    Seeds <- MCSeeds
    Messages <- MCMessages
    ZeroMessage = zero
    Salts <- MCSalts
    Correctable <- MCCorrectable
    Unrelated <- MCUnrelated
    MaxFlips = 2
    MaxSessions = 2
    MaxAnswers = 2
    MaxAlterations = 2
    MaxEvents = 3
SYMMETRY MCSymmetry
SPECIFICATION Spec
CHECK_DEADLOCK FALSE
INVARIANTS
    TypeOK
    OnlyTheExactCiphertext
    Agreement
    OneKeyPerCiphertext
    KeyInMemoryIsPublished
PROPERTIES
    IsIdealKem
