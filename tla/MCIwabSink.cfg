SPECIFICATION FairSinkSpec
CONSTANTS
    Rate = 2
    UsecPerSec = 5
    SeqMod = 4
    AirWindow = 4
    MaxTime = 8
    MaxFrame = 2
    MixBuffer = 4
    Latencies <- MCLatencies
    MaxCalls = 2
INVARIANTS
    SinkTypeOK
    ResendHoldsChunk
    RewindOnlyWhileLinked
    WakesForNextPacket
    RepeatsAreCopies
    FrameFits
    ViewsAgree
PROPERTIES
    ImplementsSource
    UnloadCompletes
    DuePacketIsSent
CHECK_DEADLOCK FALSE
