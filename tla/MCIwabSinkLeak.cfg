SPECIFICATION SinkSpec
CONSTANTS
    Rate = 2
    UsecPerSec = 5
    SeqMod = 1000
    AirWindow = 4
    MaxTime = 4
    MaxFrame = 2
    MixBuffer = 4
    Latencies <- MCLatencies
    MaxCalls = 2
INVARIANTS
    NoChunkLeak
CHECK_DEADLOCK FALSE
