SPECIFICATION FairSpec
CONSTANTS
    MaxSeqNb = 7
    MAX_MISSED_SEQNBS = 2
    KEP_MAX_RETRANSMISSIONS = 2
    InitSeqNbs <- Largest
    MaxRuns = 1
    BitErrors = TRUE
    DamagedSeqNbs = {1}
INVARIANTS
    BaseAgreesWithDrone
    DroneAgreesWithBase
PROPERTIES
    ImplementsAgreement
    KepEnds
