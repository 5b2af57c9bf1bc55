SPECIFICATION Spec
CONSTANTS
    MaxSeqNb = 9
    MAX_MISSED_SEQNBS = 3
    NB_CACHED_MESSAGES = 2
    InitSeqNbs <- Nearby
    MaxFeed = 5
    MaxSessions = 2
INVARIANTS
    TypeOK
    FreePlacesCounted
    ShownInOrder
