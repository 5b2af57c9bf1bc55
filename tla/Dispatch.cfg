SPECIFICATION FairSpec
CONSTANTS
    PowerOnStates = {"MESS_idle", "MESS_encrypt", "MESS_send", "MESS_wait"}
    SESSION_MAX_RETRANSMISSIONS = 2
INVARIANTS
    TypeOK
    HandledMessageIsThere
PROPERTIES
    PendingIsUsed
    HalfOpenSessionEnds
