SPECIFICATION FairSpec
CONSTANTS
    ESC = ESC
    FLAG = FLAG
    Plain = Plain
    MAX_MESSAGE_NB = 2
    MAX_PACKET_SIZE = 3
    Messages <- AllMessages
    MaxMessages = 2
    MaxReceived = 2
INVARIANTS
    TypeOK
    InOrderIntact
    EachIntact
PROPERTY
    AllArrive
