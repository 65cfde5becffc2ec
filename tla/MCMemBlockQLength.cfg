SPECIFICATION MbqSpec
CONSTANTS
    Base = 2
    BlockCount = 1
    BlockLength = 2
    MaxIndex = 8
    MaxRequested = 8
    Attributes <- AttrAttributes
    NewLengths <- SomeLengths
INVARIANTS
    LengthWithinMax
CHECK_DEADLOCK FALSE
