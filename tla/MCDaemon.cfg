SPECIFICATION MCSpec
CONSTANTS
    MaxLoads = 4
    NFiles = 6
    Pids = {p1, p2}
    Killer = Killer
    Nobody = Nobody
    NoFile = NoFile
    Files = {f1, f2, f3}
    MaxCrashes = 1
    Streams = {s1}
    Reader = reader
    Writer = writer
    Side = side
    Device = device
    MaxPosts = 3
    MaxFrames = 1
    SizeMod = 65536
    RtLengths = {8, 700}
    Payloads = {1, 60}
    ForeignSizes <- MCForeignSizes
    BufferSize = 170
    MaxPackets = 2
PROPERTIES
    ModulesCorrect
    PidFileCorrect
    PollLoopCorrect
    DecodingCorrect
CHECK_DEADLOCK FALSE
