SPECIFICATION MCSpec
CONSTANTS
    Posters = {p1, p2}
    ReadMax = 1
    w1 = w1
    w2 = w2
    Writers = {w1, w2}
    Uses <- MCUses
    Size = 2
    MaxMsgs = 4
    NULL = NULL
    Threads = {t1, t2}
    TableSize = 2
    TagMod = 16
    MaxTag = 6
    Pointers = {a, b}
    NoWriter = NoWriter
    Readers = {r1, r2, r3}
    Updaters = {u1, u2}
    MaxReads = 4
    MaxUpdates = 3
INVARIANTS
    FdSemSafe
    FreeListCorrect
    AUpdateSafe
PROPERTIES
    ImplementsSemaphore
    MessageQueueCorrect
    UpdateEnds
CHECK_DEADLOCK FALSE
