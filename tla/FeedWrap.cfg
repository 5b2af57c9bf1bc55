SPECIFICATION Spec
CONSTANTS
    FEED_BUFFER_SIZE = 13
    MP4_UDP_SIZE = 2
    MESSAGE_MAX_PAYLOAD_SIZE = 4
    Word = 64
    MaxReceived = 15
PROPERTY
    OnlyNewBytes
