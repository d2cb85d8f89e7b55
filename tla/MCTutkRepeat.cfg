SPECIFICATION Spec
CONSTANTS
    Chunks <- MCChunks
    First <- MCFirst
    Late = 2
    Gap = 2
    Span = 7
    Repeats = 2
    FrameSpace = 3
    Queue = 2
    SeqSpace = 7
    Room = 2
    Channel <- MCChannel
    Time <- MCTime
    WrapPeriod = 4
    Capacity = 2
CHECK_DEADLOCK FALSE
INVARIANT OrderRestored
