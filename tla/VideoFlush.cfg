SPECIFICATION Spec
CONSTANTS
    MaxSeqNb = 9
    MAX_MISSED_SEQNBS = 3
    NB_CACHED_MESSAGES = 2
    InitSeqNbs <- WrapSoon
    MaxFeed = 6
    MaxSessions = 1
INVARIANT
    LowestIsLoaded
