SPECIFICATION FairSpec
CONSTANTS
    MaxSeqNb = 5
    MAX_MISSED_SEQNBS = 2
    SESSION_MAX_RETRANSMISSIONS = 2
    InitSeqNbs <- OneApart
    MaxSessions = 2
    MaxRequests = 2
    Lines <- CommandAndStatus
    DamagedSeqNbs = {5}
INVARIANTS
    TypeOK
    AcknowledgedIsDone
    NumbersStayInStep
PROPERTIES
    ImplementsChannel
    RequestConcludes
