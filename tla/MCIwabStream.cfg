SPECIFICATION StreamSpec
CONSTANTS
    Rate = 2
    UsecPerSec = 5
    SeqMod = 1000
    AirWindow = 4
    MaxTime = 8
    MaxFrame = 1
    MixBuffer = 4
    Latencies = {}
    MaxCalls = 2
    QueueMax = 3
    QueuePrebuf = 2
    SilenceLength = 2
    RewindMax = 0
INVARIANTS
    ReceiverSurvives
CHECK_DEADLOCK FALSE
