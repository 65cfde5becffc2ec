SPECIFICATION MbqSpec
CONSTANTS
    Base = 1
    BlockCount = 1
    BlockLength = 3
    MaxIndex = 4
    MaxRequested = 4
    Attributes <- DataAttributes
    NewLengths <- NoLengths
INVARIANTS
    ContentKept
CHECK_DEADLOCK FALSE
