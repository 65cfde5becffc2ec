SPECIFICATION MCSpec
CONSTANTS
    Rate = 2
    UsecPerSec = 5
    SeqMod = 1000
    AirWindow = 4
    MaxTime = 9
    MaxLength = 2
    Resumable = FALSE
    QueueMax = 4
    QueuePrebuf = 2
    SilenceLength = 2
    RewindMax = 1
    Base = 2
    BlockCount = 2
    BlockLength = 4
    MaxIndex = 6
    MaxRequested = 2
    Attributes <- MCAttributes
    NewLengths <- MCLengths
INVARIANTS
    CallbackSound
    NewestIsAccepted
    DriftBounded
    Balanced
    AttributesConsistent
    ItemsSound
PROPERTIES
    QueueWithinMax
    PlayedInOrder
    KeepsRewindable
CHECK_DEADLOCK FALSE
