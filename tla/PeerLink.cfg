SPECIFICATION Spec
CONSTANTS
    Kind = {"range", "ensure", "upload", "inspect", "inspectCancel", "lock"}
    MaxCalls = 2
    MaxEpoch = 1
    Chunks = 2
    MAX_MEDIA_RANGE_REQUESTS_IN_FLIGHT = 1
    RESPONSE_STREAM_CHANNEL_CAPACITY = 1
    RECENT_DERIVATIVES = 1
INVARIANTS
    TypeOK
    CleanEofIsComplete
    BreaksOnlyByCrossing
PROPERTIES
    SettledStaysSettled
    LinkSettles
