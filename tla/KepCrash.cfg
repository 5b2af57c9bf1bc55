SPECIFICATION Spec
CONSTANTS
    MaxSeqNb = 7
    MAX_MISSED_SEQNBS = 2
    KEP_MAX_RETRANSMISSIONS = 2
    InitSeqNbs <- WrapSoon
    MaxRuns = 1
    BitErrors = FALSE
    DamagedSeqNbs = {}
INVARIANT
    KEP2UsesAPoint
