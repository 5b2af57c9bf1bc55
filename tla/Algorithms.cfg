SPECIFICATION Spec
CONSTANTS
    MaxSeqNb = 12
    MAX_MISSED_SEQNBS = 5
    SIZE = 3
    BITS = 2
    ByteBits = 1
    CurveP = 59
    CurveA = 56
    CurveB = 37
    CurveN = 53
    BaseX = 1
    BaseY = 25
    EntropySize = 256
    SeedSize = 82
    RESEED_INTERVAL = 4
    MaxCounter = 3
CHECK_DEADLOCK FALSE
INVARIANTS
    SequenceNumbersAgree
    ArithmeticIsModular
    InversesInvert
    ScalarsInRange
    GroupLaw
    SecretsAgree
    SignaturesVerify
    RoundsAreStandard
    IntactMessagesOpen
    HashIsSha3
    EntropyUsedOnce
