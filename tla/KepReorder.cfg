SPECIFICATION Spec
CONSTANTS
    MaxSeqNb = 7
    MAX_MISSED_SEQNBS = 2
    KEP_MAX_RETRANSMISSIONS = 2
    InitSeqNbs <- WrapSoon
    MaxRuns = 2
    BitErrors = FALSE
    DamagedSeqNbs = {}
INVARIANTS
    TypeOK
    BaseAgreesWithDrone
    IInv
    OneSessionPerPoint
PROPERTY
    ImplementsAgreement
