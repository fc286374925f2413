CONSTANTS
    BufferSize = 3
    Listing <- NameOrLong
    MaxTurns = 2
    MaxSlips = 2

SPECIFICATION FairSpec
INVARIANTS
    TypeOK
    AnswersLag
    NobodyWaits
    UnseenWithinSlips
PROPERTIES
    ResponseArrives
