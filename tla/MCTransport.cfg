SPECIFICATION MCSpec
CONSTANTS
    Sides = {server, client}
    Capacity = 2
    MaxBytes = 3
    IoRoom = 4
    RingRoom = 1
    MaxData = 3
    b1 = b1
    b2 = b2
    u1 = u1
    u2 = u2
    Blocks <- MCBlocks
    Users = {u1, u2}
    Sharings <- MCSharings
    MaxAcquire = 2
    c1 = c1
    c2 = c2
    c3 = c3
    Cells <- MCCells
    SlotsMax = 2
    ImportMax = 2
    MaxSends = 3
PROPERTIES
    RingCorrect
    PacketStreamCorrect
    BlockCorrect
    SharingCorrect
CHECK_DEADLOCK FALSE
