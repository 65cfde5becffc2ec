SPECIFICATION CastSpec
CONSTANTS
    Rate = 2
    UsecPerSec = 5
    SeqMod = 1000
    AirWindow = 4
    MaxTime = 4
    MaxLength = 2
    Resumable = TRUE
    QueueMax = 3
    QueuePrebuf = 2
    SilenceLength = 2
    RewindMax = 0
CONSTRAINT StreamBound
PROPERTIES
    PlayedInOrder
CHECK_DEADLOCK FALSE
