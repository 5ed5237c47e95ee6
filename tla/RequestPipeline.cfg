CONSTANTS
    MaxBytes = 3
    ChunkSizes = {0, 2, 3, 4}
    MaxChunks = 3
    MaxMessages = 3
    ContentLengths = {0, 3, 4}
    Absent = Absent
    Malformed = Malformed
SPECIFICATION FairSpec
INVARIANTS
    TypeOK
    BodyBounded
    OneResponse
    OversizedIsRefused
    SummaryIsTrue
    IdsAgree
PROPERTIES
    OversizedEnds
CHECK_DEADLOCK FALSE
