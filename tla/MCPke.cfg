CONSTANTS
    W = 6
    MaxWords = 5
    ByteBits = 2
    PerWord = 3
    Symbols <- MCSymbols
    OuterLen = 3
    InnerLen = 2
    Multiplicity = 3
    Delta = 1
    N = 19
    outer_encode <- MCRsEncode
    outer_decode <- MCRsDecode
    inner_encode <- MCRmEncodeByte
    inner_decode <- MCRmDecode
    KeyStreams <- MCKeyStreams
    UniformStreams <- MCUniform
    ThetaStreams <- MCThetaStreams
    Plaintexts <- MCMessages
    SeedEk <- MCSeedEk
    Salt <- MCSalt
    UFlips = {0, 8, 18, 19}
    VFlips = {3, 17}
    NoMessage = NoMessage
    Pending = Pending
    None = None
SPECIFICATION Spec
CHECK_DEADLOCK FALSE
INVARIANTS
    OperandsAreCanonical
    SentIsParsed
    ReserializesExactly
    NoiseIdentity
    RecoversMessage
